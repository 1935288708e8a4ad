CONSTANTS
  Launchers = {l1, l2}
  None = None
  DriverLists <- MCDriverLists
  DriverStarts = {"failed", "no link", "running"}
  MaxPolls = 2
  MaxStops = 1
SPECIFICATION FairSpec
INVARIANTS OneGame CacheIsWhole
PROPERTY WaitsEnd
CHECK_DEADLOCK FALSE
