SPECIFICATION FairSpec
CONSTANTS
  MaxImages = 3
  FrameCap = 3
  BufSize = 1
INVARIANTS
  TypeOK
  FilesInOrder
  OkHasLastImage
  IdleIsClean
  ReporterOutlastsWait
PROPERTY
  ReporterIsJoined
