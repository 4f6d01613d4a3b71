SPECIFICATION Spec
CONSTANTS
  Nothing = Nothing
  Views = {"settings"}
  terminal = terminal
  other = other
  claude = claude
  Shells = {terminal, other}
  Ssh = {}
  Agents = {claude}
  Containers = {}
  Saved <- MCSaved
  MaxTabs = 2
  MaxEvents = 2
INVARIANTS
  PlacedOnce
  FocusExists
  DisposedLeavesNothing
  SavedIsCurrent
  RoundTrip
PROPERTIES
  BootKeepsLayout
CHECK_DEADLOCK FALSE
