\* Two devices; a user may ask for README and for a name of 30 bytes.
CONSTANTS
  Mounts = {m1, m2}
  README = README
  example = example
  Cut = cut
  Names = {README, long, a}
  DirNames = {a}
  LongNames = {long}
  Readers = {m1}
  FirstIno = 100
  LastIno = 102
SPECIFICATION Spec
INVARIANTS
  TypeOK
  
  ListFollowsNames
  ExamplesStay
