SPECIFICATION AllFairSpec
CONSTANTS
  Services = {"search", "rides", "sessions", "accounts", "shifts", "passenger"}
  \* Ledger
  Earners = {e1}
  Coops = {k1}
  Trips = {z1, z2}
  Recharges = {x1}
  Settlements = {s1}
  Reqs = {q1}
  Nil = Nil
  Fees = {5}
  Amounts = {9}
  Rates = {10}
  MaxRetries = 1
  MaxFaults = 1
  \* Cards
  Payees = {d1}
  CardTrips = {c1, c2}
  ShortRide = c1
  PayeeOf <- MCPayeeOf
  Fare <- MCFare
  Commission <- MCCommission
  CardReqs = {r1}
  MaxCharges = 2
  MaxPayouts = 1
  \* Search
  Bidders = {d1}
  SearchReqs = {r1, r2}
  Suggested = 4
  ClientFloor = 4
  DriverFloor = 4
  MaxPrice = 5
  FirstRadius = 1
  WidenBy = 2
  MaxRadius = 6
  \* Rides
  Pings = {r1, r2}
  BaseFare = 1
  MinimumFare = 2
  MaxPings = 2
  MaxEpisodes = 1
  \* Sessions
  Browsers = {b1, b2}
  Home = b1
  Shared = b2
  Tabs = {t1, t2}
  HomeTab = t1
  BrowserOf <- MCBrowserOf
  Wires = {w1, w2}
  MaxLogins = 2
  MaxTokens = 3
  \* Accounts
  AccountReqs = {r1, r2}
  MaxCodes = 1
  MaxForgot = 2
  MaxAccountFaults = 1
  \* Enrollment
  Taxis = {v1}
  EnrolReqs = {r1}
  \* Shifts
  Owners = {o1}
  Hired = {h1}
  Vehicles = {x1}
  OwnerOf <- MCOwnerOf
  Posts = {p1}
  ShiftReqs = {r1}
  NoOne = NoOne
  SelfService = {}
  \* Passenger
  MaxRides = 1
  MaxTroubles = 1
  MayFail = {"gate", "provider", "load", "create", "retry", "select", "cancel", "cancelPanel"}
  \* Driver app
  MaxJobs = 1
  MaxFailures = 2
  MaxMishaps = 1
  \* Presence
  MaxSockets = 1
  StatusCalls = {g1}
 
PROPERTIES
  SearchReachesAll CronsNotice QueuedCallsEnd LockoutEnds QuietIsNoticed
  FinishedRideLeft
CHECK_DEADLOCK FALSE
