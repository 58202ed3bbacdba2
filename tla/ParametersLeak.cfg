SPECIFICATION Spec
CONSTANTS
  MAX_PIXELS_IN_DIM = 4
  Numbers <- MCNumbers
  OptionCap = 1
INVARIANT AcceptedIsValid
