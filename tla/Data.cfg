SPECIFICATION Spec
CONSTANTS
  LLists = {1, 2}
  LNodes = {3, 4, 5}
  LMaxData = 3
  MKeys = {1, 2, 3}
  MMaxData = 4
  SLength = 2
  SMaxAdds = 5
  TCols = 2
  TRows = 2
  TMaxRow = 3
  TPrefetch = 2
  TResults = {0, 1, 2, 3, 4, 5}
  GSize = 2
  GWidth = 64
  GChunks = {1, 2, 3, 5}
  GMaxBytes = 7
  GBuffer = 4
  NBuffer = 2
  NMaxText = 5
  XMaxText = 5
  XMaxOther = 2
  XLong = 4
  CBase = 2
  CBytes = {1, 6, 8, 15}
  CMaxBytes = 7
  CIndex = 10
  CBlock = 3
  CLength = 1
  UItems = {i1, i2, i3}
  UNames = {a}
  UValues = {0, 7}
SYMMETRY Symmetric
CHECK_DEADLOCK FALSE
INVARIANTS ListsKeep TablesKeep BytesKeep TreeOwned TextsReturn
