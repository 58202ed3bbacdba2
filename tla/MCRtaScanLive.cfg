SPECIFICATION FairSpec
CONSTANTS
  MaxImages = 1
  BufSize = 1
  FrameCap = 2
  ListenFd = 7
  OtherSocketErrors = TRUE
PROPERTIES
  DeliveredAbortIsAnswered
  PublishedHandshakeReturns
