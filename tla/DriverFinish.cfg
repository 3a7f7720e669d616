SPECIFICATION DriverAppSpec
CONSTANTS
  MaxJobs = 1
  MaxFailures = 4
  MaxMishaps = 0
INVARIANT FinishedRideCloses
CHECK_DEADLOCK FALSE
