SPECIFICATION Spec
CONSTANTS
  Windows = {w1}
  Views = {v1}
  Typeahead = TRUE
  MaxEcho = 4
  MaxCommands = 2
  MaxGlyphs = 3
  MaxPipe = 9
  MaxToggles = 0
  MaxMounts = 1
  MaxSpawns = 1
SYMMETRY AnyViews
INVARIANTS
  NothingLost
  BlocksAreFaithful
  CommandStateIsTrue
CHECK_DEADLOCK FALSE
