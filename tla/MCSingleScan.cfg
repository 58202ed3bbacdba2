SPECIFICATION FairSpec
CONSTANTS
  FrameCap = 1
  BufSize = 1
  ListenFd = 7
  OtherSocketErrors = TRUE
INVARIANTS
  TypeOK
  SavedIsExposed
  IdleIsClean
  OneAnswer
PROPERTIES
  DoneIsLast
  ImplementsImageCommand
  DeliveredAbortIsAnswered
  PublishedHandshakeReturns
