SPECIFICATION Spec
CONSTANTS
  Nothing = Nothing
  Views = {"settings"}
  terminal = terminal
  other = other
  claude = claude
  box = box
  Shells = {terminal, other}
  Ssh = {}
  Agents = {claude}
  Containers = {box}
  Saved <- MCSaved
  MaxTabs = 2
  MaxEvents = 1
PROPERTIES
  LayoutSurvivesBoot
CHECK_DEADLOCK FALSE
