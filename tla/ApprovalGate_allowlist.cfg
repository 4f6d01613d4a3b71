SPECIFICATION Spec
CONSTANTS
  build = build
  push = push
  trunk = trunk
  list = list
  Risk <- MCRisk
  Refused <- MCRefused
  Sessions = {s1}
  Commands = {build}
  Hooks = {h1}
  MaxUiRequests = 0
  MaxResumes = 1
INVARIANTS
  AllowlistDiesWithSession
\* Every hook may have replied and every session be gone.
CHECK_DEADLOCK FALSE
