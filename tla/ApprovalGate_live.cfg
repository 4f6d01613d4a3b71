SPECIFICATION FairSpec
CONSTANTS
  build = build
  push = push
  trunk = trunk
  list = list
  Risk <- MCRisk
  Refused <- MCRefused
  Sessions = {s1}
  Commands = {build, push}
  Hooks = {h1}
  MaxUiRequests = 1
  MaxResumes = 1
PROPERTIES
  TeardownReleasesBlocked
\* Every hook may have replied and every session be gone.
CHECK_DEADLOCK FALSE
