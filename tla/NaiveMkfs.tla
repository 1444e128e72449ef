----------------------------- MODULE NaiveMkfs -----------------------------
(***************************************************************************)
(* mkfs.naive formats an image with a row of write and lseek calls whose   *)
(* results it never looks at.  A block holds one value naming what was     *)
(* last written to it; every write of the program fills the block it       *)
(* starts in (the superblock is 20 + 492 = 512 bytes) or is the only one   *)
(* to touch it.  A write may fail, and then the file offset stays.         *)
(***************************************************************************)
EXTENDS Integers, Sequences

CONSTANTS TableStart,   \* inode_table_block_no
          DataStart,    \* data_block_no
          LastBlock     \* the image's last block

VARIABLES disk,    \* [0 .. LastBlock -> what the block holds]
          pos,     \* the file offset, in blocks
          step,    \* the next call of Calls
          failed   \* history: a write failed

mvars == <<disk, pos, step, failed>>

Write(what) == [call |-> "write", what |-> what]
Seek(block) == [call |-> "lseek", block |-> block]

\* format_disk.  The block bitmap is written twice: second with the bit of
\* the root's data block.
Calls == <<Write("boot"), Write("super"), Seek(1), Write("bmap"), Write("imap"),
           Seek(TableStart), Write("root inode"), Seek(DataStart), Write("dots"),
           Seek(2), Write("bmap, root block marked")>>

\* setup.sh fills a new image with zeros; later tests format it again.
Blank  == [b \in 0 .. LastBlock |-> "zero"]
Usable == [Blank EXCEPT ![1] = "super", ![2] = "bmap", ![3] = "imap",
                        ![TableStart] = "root inode", ![DataStart] = "dots"]
MkfsInit == disk \in {Blank, Usable} /\ pos = 0 /\ step = 1 /\ failed = FALSE

Current == Calls[step]

DoWrite ==
  /\ step <= Len(Calls) /\ Current.call = "write"
  /\ disk' = [disk EXCEPT ![pos] = Current.what] /\ pos' = pos + 1
  /\ step' = step + 1 /\ UNCHANGED failed

FailWrite ==
  /\ step <= Len(Calls) /\ Current.call = "write"
  /\ step' = step + 1 /\ failed' = TRUE
  /\ UNCHANGED <<disk, pos>>

DoSeek ==
  /\ step <= Len(Calls) /\ Current.call = "lseek"
  /\ pos' = Current.block /\ step' = step + 1
  /\ UNCHANGED <<disk, failed>>

MkfsNext == DoWrite \/ FailWrite \/ DoSeek
MkfsSpec == MkfsInit /\ [][MkfsNext]_mvars

----------------------------------------------------------------------------
\* "Block 0: boot, block 1: superblock, block 2: block bitmap, block 3: inode
\* bitmap" (mkfs.naive.c:69): that is what an image holds when every write of
\* format_disk succeeded, so that naive_fill_super finds the magic number.
LayoutIsWritten ==
  step > Len(Calls) /\ ~ failed =>
     /\ disk[0] = "boot" /\ disk[1] = "super"
     /\ disk[2] = "bmap, root block marked" /\ disk[3] = "imap"
============================================================================
