\* Two open files, three inodes, two data blocks.
CONSTANTS
  o1 = o1
  o2 = o2
  Objs = {o1, o2}
  None = None
  InodesCount = 3
  DataStart = 2
  BlocksCount = 4
  SamePage = {0, 1}
  BlockSize = 2
  DirectBlocks = 2
  WriteLens = {2}
SPECIFICATION Spec
SYMMETRY Symmetry
INVARIANTS
  TypeOK
  BlocksOwnedOnce
  DeviceOwnedOnce
  SizeEndsInBlock
  CountsNotAbove
  WrittenIsRead
  NumbersDistinct
