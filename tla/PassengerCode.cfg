SPECIFICATION PassengerSpec
CONSTANTS
  MaxRides = 1
  MaxTroubles = 1
  MayFail = {}
INVARIANT CodeIsShown
CHECK_DEADLOCK FALSE
