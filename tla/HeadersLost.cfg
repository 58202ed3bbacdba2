SPECIFICATION Spec
CONSTANTS
  TriesCap = 1
  FccHeaders <- MCFccHeaders
  Bases = {"flat0101"}
  IndexCap = 1
  ImageCap = 1
  Capacity = 3
INVARIANT HeadersReachFile
