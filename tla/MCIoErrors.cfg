\* sb_bread may fail at any call.
CONSTANTS
  root = root
  o1 = o1
  o2 = o2
  Objs = {root, o1, o2}
  RootObj = root
  n1 = n1
  n2 = n2
  Names = {n1, n2}
  Stored <- StoredNames
  Dot = Dot
  DotDot = DotDot
  NoName = NoName
  FileBytes = FileBytes
  InodeTotal = 4
  BlockTotal = 7
  DataStart = 3
  ByteBits = 3
  BlockSize = 2
  BlockPerFile = 2
  RecordsPerBlock = 2
  WriteLens = {2}
  TruncSizes = {}
  IoErrors = TRUE
SPECIFICATION Spec
SYMMETRY Symmetry
INVARIANTS
  PointersPacked
  
  
