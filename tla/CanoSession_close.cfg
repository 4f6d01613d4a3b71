SPECIFICATION Spec
CONSTANTS
  ReconnectDeadline = 1
  StableLive = 1
  BackoffSecs <- MCBackoff
  TokenSpace = 4
  main = main
  opener = opener
  Procs = {p1, p2, p3, p4}
  Jobs = {j1, j2, j3}
  Origins = {"first", "boot", "kept"}
  SpawnMayFail = TRUE
SYMMETRY MCSymmetry
INVARIANTS
  OneCano
  ClosedWhileWaitingStaysClosed
  LiveIsTrue
\* The session may be closed and every thread done; spawns are bounded.
CHECK_DEADLOCK FALSE
