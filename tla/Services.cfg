SPECIFICATION AllApartSpec
CONSTANTS
  Services = {"ledger", "cards", "search", "rides", "sessions", "accounts", "enrollment", "shifts", "passenger", "driverApp", "presence"}
  \* Ledger
  Earners = {e1}
  Coops = {k1}
  Trips = {z1, z2}
  Recharges = {x1}
  Settlements = {s1}
  Reqs = {q1, q2}
  Nil = Nil
  Fees = {5}
  Amounts = {9}
  Rates = {10, 20}
  MaxRetries = 1
  MaxFaults = 1
  \* Cards
  Payees = {d1}
  CardTrips = {c1, c2}
  ShortRide = c1
  PayeeOf <- MCPayeeOf
  Fare <- MCFare
  Commission <- MCCommission
  CardReqs = {q1, q2}
  MaxCharges = 1
  MaxPayouts = 1
  \* Search
  Bidders = {d1, d2}
  SearchReqs = {q1, q2}
  Suggested = 4
  ClientFloor = 4
  DriverFloor = 3
  MaxPrice = 5
  FirstRadius = 1
  WidenBy = 2
  MaxRadius = 4
  \* Rides
  Pings = {q1, q2}
  BaseFare = 1
  MinimumFare = 2
  MaxPings = 3
  MaxEpisodes = 2
  \* Sessions
  Browsers = {b1, b2}
  Home = b1
  Shared = b2
  Tabs = {t1, t2}
  HomeTab = t1
  BrowserOf <- MCBrowserOf
  Wires = {w1, w2}
  MaxLogins = 2
  MaxTokens = 4
  \* Accounts
  AccountReqs = {q1, q2}
  MaxCodes = 2
  MaxForgot = 3
  MaxAccountFaults = 1
  \* Enrollment
  Taxis = {v1, v2}
  EnrolReqs = {r1}
  \* Shifts
  Owners = {o1}
  Hired = {h1}
  Vehicles = {x1}
  OwnerOf <- MCOwnerOf
  Posts = {p1}
  ShiftReqs = {r1}
  NoOne = NoOne
  SelfService = {"offline", "online", "looking_for_work"}
  \* Passenger
  MaxRides = 3
  MaxTroubles = 0
  MayFail = {}
  \* Driver app
  MaxJobs = 2
  MaxFailures = 1
  MaxMishaps = 1
  \* Presence
  MaxSockets = 2
  StatusCalls = {q1, q2}
VIEW MovingVars
SYMMETRY Symmetry
INVARIANTS
  AllTypeOK
  WalletBooks CoopBooks CommissionOnBothBooks PostedWhenConfirmed
  CardBooks PlatformCovered
  FaresAboveFloor
  RideBooks
  RefreshMatchesSession OneDevice
  CodeSpentOnce
  TaxisHaveMembers
  HiredDriveWhatIsLent
  ScreenFits
  DriverSeesRide
  HearsNewTrips
PROPERTIES SearchKeeps
CHECK_DEADLOCK FALSE
