SPECIFICATION Spec
CONSTANTS
  Trips = {t1}
  Offers = {o1, o2}
  Drivers = {d1, d2}
  Clients = {c1}
  Reqs = {r1, r2}
  Nil = Nil
  MaxOffers = 1
  MaxRetries = 1
  MaxFaults = 1
  PoolSize = 3
  SelfService = {"offline"}
SYMMETRY Symmetry
INVARIANTS TypeOK SelectedOfferNamesDriver DriverHadOffered RideVerified SettledIsOver
PROPERTIES KeepsCustody
