\* Bytes of three bits; neither total is a whole number of bytes.
CONSTANTS
  InodeTotal = 7
  BlockTotal = 8
  DataStart = 4
  ByteBits = 3
  BitmapBytes = 3
SPECIFICATION Spec
INVARIANTS
  FindAgrees
  AllocAgrees
PROPERTIES
  OneBitAtATime
