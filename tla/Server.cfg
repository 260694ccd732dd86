\* Two requests from one address, windows of two ticks.
CONSTANTS
  Procs = {p1, p2}
  Addrs = {a1}
  Settings <- Rates
  Horizon = 2
  None = None
  Bad = Bad
  Days = Days
  Inputs <- Starts
SPECIFICATION FairSpec
INVARIANT TypeOK
INVARIANT RateBounded
INVARIANT InFlightExact
INVARIANT FlagsWin
INVARIANT AuthComplete
PROPERTY Exits
CHECK_DEADLOCK FALSE
