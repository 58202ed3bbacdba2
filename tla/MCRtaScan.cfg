SPECIFICATION Spec
CONSTANTS
  MaxImages = 2
  BufSize = 1
  FrameCap = 3
  ListenFd = 7
  OtherSocketErrors = TRUE
INVARIANTS
  TypeOK
  OkMeansComplete
  IdleIsClean
  ReporterOutlastsSeries
  OneAnswer
PROPERTIES
  DoneIsLast
  ImplementsImageCommand
