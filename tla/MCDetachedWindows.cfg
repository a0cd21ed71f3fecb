SPECIFICATION WindowsSpec
CONSTANTS
  Windows <- MCWindows
  Addressed = {"transcript"}
  Commands = {"c1"}
  Looks = {"solid", "dim"}
  DefaultLook = "solid"
  Remembered <- MCRemembered
  MaxRequests = 1
INVARIANTS
  PointerRestored
  RowRemembered
PROPERTY
  LaunchEnds
CHECK_DEADLOCK FALSE
