SPECIFICATION Spec
CONSTANTS
  MAX_PIXELS_IN_DIM = 4
  Numbers <- MCNumbers
  OptionCap = 3
INVARIANTS
  TypeOK
  BufferFitsImage
  CameraObeysCommand
  NimagesDecides
  InvalidIsLeftover
  GainIsTold
