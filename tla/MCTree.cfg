\* Directories, files and blocks while no sb_bread fails: files written,
\* truncated and unlinked while open; directories that cannot overflow.
CONSTANTS
  root = root
  o1 = o1
  o2 = o2
  Objs = {root, o1, o2}
  RootObj = root
  n1 = n1
  n2 = n2
  Names = {n1, n2}
  Stored <- StoredNames
  Dot = Dot
  DotDot = DotDot
  NoName = NoName
  FileBytes = FileBytes
  InodeTotal = 5
  BlockTotal = 7
  DataStart = 3
  ByteBits = 2
  BlockSize = 2
  BlockPerFile = 2
  RecordsPerBlock = 3
  WriteLens = {1, 2}
  TruncSizes = {0}
  IoErrors = FALSE
SPECIFICATION Spec
SYMMETRY Symmetry
INVARIANTS
  TypeOK
  
  
  NamesAreRecorded
  RecordsAreLive
  DotEntries
  NoSharedBlock
  OwnedBlocksMarked
  ReadsReachTheEnd
PROPERTIES
  
  FileBlocksStay
  RecordsFollowNames
