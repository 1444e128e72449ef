\* Two processes create in two directories.
CONSTANTS
  root = root
  home = home
  p1 = p1
  p2 = p2
  NoProc = NoProc
  Procs = {p1, p2}
  Parents = {root, home}
  ParentOf <- OtherParent
  Writers = {}
  MaxBlocks = 2
  InodeTotal = 4
  BlockTotal = 6
  DataStart = 3
  ByteBits = 2
SPECIFICATION Spec
INVARIANTS
  NumbersDistinct
