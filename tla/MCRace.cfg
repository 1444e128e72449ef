\* Three processes create and remove in one directory; one of them may also
\* write to its file.
CONSTANTS
  root = root
  home = home
  p1 = p1
  p2 = p2
  p3 = p3
  NoProc = NoProc
  Procs = {p1, p2, p3}
  Parents = {root}
  ParentOf <- SameParent
  Writers = {p1}
  MaxBlocks = 2
  InodeTotal = 4
  BlockTotal = 6
  DataStart = 3
  ByteBits = 2
SPECIFICATION Spec
INVARIANTS
  NumbersDistinct
  NumbersMarked
  LockKeepsBlocks
