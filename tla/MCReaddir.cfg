\* One device, one reader.
CONSTANTS
  Mounts = {m1}
  README = README
  example = example
  Cut = cut
  Names = {a}
  DirNames = {a}
  LongNames = {}
  Readers = {m1}
  FirstIno = 100
  LastIno = 102
SPECIFICATION FairSpec
PROPERTIES
  ListingEnds
