SPECIFICATION Spec
CONSTANTS
  Trips = {t1, t2}
  Offers = {o1, o2}
  Drivers = {d1, d2}
  Clients = {c1, c2}
  Reqs = {r1, r2}
  Nil = Nil
  MaxOffers = 1
  MaxRetries = 0
  MaxFaults = 0
  PoolSize = 2
  SelfService = {}
SYMMETRY Symmetry
INVARIANTS SelectionsLeavePool
