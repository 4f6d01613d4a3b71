SPECIFICATION Spec
CONSTANTS
  Subagents = {a, b, c}
  Types = {general}
  TypeOf <- MCTypeOf
  NoOne = NoOne
  Orchestrator = main
  MaxTurns = 2
  Overlap = FALSE
SYMMETRY MCSymmetry
INVARIANTS
  TypeOK
  WorkIsShown
  WorkIsCounted
  DoneIsOver
  NewWorkSwallowsAlert
CHECK_DEADLOCK FALSE
