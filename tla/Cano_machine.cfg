SPECIFICATION FairSpec
CONSTANTS
  ReconnectDeadline = 300
  StableLive = 30
  BackoffSecs <- MCBackoff
  TokenSpace = 4
INVARIANTS
  TypeOK
  SomebodyDrives
  AttemptsArePaced
  FailureIsShown
PROPERTIES
  InsistsWithinDeadline
  KeepsPromise
  DropComesToAnEnd
