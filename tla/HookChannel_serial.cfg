SPECIFICATION Spec
CONSTANTS
  Servers = {s1, s2}
  NoServer = NoServer
  Hooks = {h1}
  MaxInflight = 1
  Attempts = 2
  Kinds = {"PreToolUse", "PermissionRequest", "Other"}
  Sessions = {"agent", "shell"}
  Overlap = FALSE
INVARIANTS
  WakeReachesOwner
  ServerIsReachable
PROPERTIES
  StopReturns
  HookIsServedOrEnds
\* Every server may have been opened, every hook be done and the session be gone.
CHECK_DEADLOCK FALSE
