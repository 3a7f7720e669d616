SPECIFICATION EnrolSpec
CONSTANTS
  Taxis = {v1}
  EnrolReqs = {r1}
INVARIANT DriversAreWhole
CHECK_DEADLOCK FALSE
