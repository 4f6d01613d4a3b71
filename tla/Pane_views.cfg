SPECIFICATION Spec
CONSTANTS
  Windows = {w1,w2}
  Views = {v1,v2}
  Typeahead = FALSE
  MaxEcho = 4
  MaxCommands = 1
  MaxGlyphs = 2
  MaxPipe = 4
  MaxToggles = 1
  MaxMounts = 2
  MaxSpawns = 2
SYMMETRY AnyViews
INVARIANTS
  DrawnOnce
  AttachedIsHeard
CHECK_DEADLOCK FALSE
