SPECIFICATION Spec
CONSTANTS
  Servers = {s1, s2}
  NoServer = NoServer
  Hooks = {h1}
  MaxInflight = 1
  Attempts = 2
  Kinds = {"PreToolUse", "Other"}
  Sessions = {"agent", "shell"}
  Overlap = TRUE
SYMMETRY MCSymmetry
INVARIANTS
  TypeOK
  FailClosed
  SlotsAreExact
\* Every server may have been opened, every hook be done and the session be gone.
CHECK_DEADLOCK FALSE
