\* An image with an inode table of two blocks.
CONSTANTS
  TableStart = 4
  DataStart = 6
  LastBlock = 7
SPECIFICATION MkfsSpec
CHECK_DEADLOCK FALSE
INVARIANTS
  LayoutIsWritten
