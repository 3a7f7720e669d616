SPECIFICATION ApartSpec
CONSTANTS
  Trips = {t1, t2}
  Offers = {o1, o2}
  Drivers = {d1, d2}
  Clients = {c1, c2}
  Reqs = {r1, r2}
  Nil = Nil
  MaxOffers = 1
  MaxRetries = 1
  MaxFaults = 0
  PoolSize = 3
  SelfService = {}
SYMMETRY Symmetry
INVARIANTS ChecksHold BusyIffActive
PROPERTIES FollowsLifecycle
