SPECIFICATION Spec
CONSTANTS
  build = build
  push = push
  trunk = trunk
  list = list
  Risk <- MCRisk
  Refused <- MCRefused
  Sessions = {s1, s2}
  Commands = {build, trunk, list}
  Hooks = {h1, h2}
  MaxUiRequests = 0
  MaxResumes = 0
SYMMETRY MCSymmetry
INVARIANTS
  TypeOK
  ConsentRequired
  RefusedNeverAllowed
  BlockedIsReachable
  InboxIsOpen
PROPERTIES
  AnsweredOnce
\* Every hook may have replied and every session be gone.
CHECK_DEADLOCK FALSE
