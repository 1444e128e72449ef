\* A directory at its last block: one block of two records.
CONSTANTS
  root = root
  o1 = o1
  o2 = o2
  o3 = o3
  Objs = {root, o1, o2, o3}
  RootObj = root
  n1 = n1
  n2 = n2
  Names = {n1, n2}
  Stored <- StoredNames
  Dot = Dot
  DotDot = DotDot
  NoName = NoName
  FileBytes = FileBytes
  InodeTotal = 5
  BlockTotal = 7
  DataStart = 3
  ByteBits = 2
  BlockSize = 2
  BlockPerFile = 1
  RecordsPerBlock = 2
  WriteLens = {}
  TruncSizes = {}
  IoErrors = FALSE
SPECIFICATION Spec
SYMMETRY Symmetry
INVARIANTS
  NamesAreRecorded
