\* Two devices, two names, three inode numbers: enough for two calls that
\* overlap and a third that would get a number again.
CONSTANTS
  Mounts = {m1, m2}
  Names = {a, b}
  Readers = {m1}
  FirstIno = 100
  LastIno = 102
SPECIFICATION FairSpec
INVARIANTS
  TypeOK
  RootLinkCount
  NumbersDistinct
PROPERTIES
  ListingEnds
