SPECIFICATION SpecHistory
CONSTANTS
  MaxImages = 2
  BufSize = 1
  FrameCap = 3
  ListenFd = 7
  OtherSocketErrors = FALSE
PROPERTY NoWaitAfterAbort
