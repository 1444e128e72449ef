\* Reclaim, write-back and remount.
CONSTANTS
  root = root
  o1 = o1
  o2 = o2
  Objs = {root, o1, o2}
  RootObj = root
  n1 = n1
  Names = {n1}
  Stored <- StoredNames
  Dot = Dot
  DotDot = DotDot
  NoName = NoName
  FileBytes = FileBytes
  InodeTotal = 3
  BlockTotal = 7
  DataStart = 4
  ByteBits = 2
  BlockSize = 2
  BlockPerFile = 1
  RecordsPerBlock = 3
  WriteLens = {2}
  TruncSizes = {}
  RecordSize = 1
  MaxLinks = 3
  IoErrors = FALSE
SPECIFICATION StoreSpec
SYMMETRY Symmetry
INVARIANTS
  
  
  
  ReferencesBalance
