SPECIFICATION FairSpec
CONSTANTS
  Trips = {t1}
  Offers = {o1, o2}
  Drivers = {d1}
  Clients = {c1}
  Reqs = {r1, r2}
  Nil = Nil
  MaxOffers = 1
  MaxRetries = 1
  MaxFaults = 0
  PoolSize = 3
  SelfService = {}
PROPERTIES JobResolvesTrip HandlersEnd
