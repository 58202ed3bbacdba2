SPECIFICATION Spec
CONSTANTS
  TriesCap = 2
  FccHeaders <- MCFccHeaders
  Bases = {"flat0101", "sky0102"}
  IndexCap = 2
  ImageCap = 2
  Capacity = 3
INVARIANTS
  TypeOK
  NamesCountUp
  ConnectionsBounded
PROPERTIES
  ImplementsImageFiles
  CommandReturns
