---------------------------- MODULE NaiveAlloc ----------------------------
(***************************************************************************)
(* The two in-memory allocation bitmaps of the split Naive file system     *)
(* (src/naive/naivefs_super.c), seen as sets: imap holds the inode numbers *)
(* whose bit is set, bmap the data blocks whose bit is set.  Both scans    *)
(* walk whole bytes only ("i < total / 8"), so the bits of a last partial  *)
(* byte are never handed out, and both take the lowest clear bit.          *)
(* NaiveBitmap checks these operators against the byte loops.              *)
(***************************************************************************)
EXTENDS Integers

CONSTANTS InodeTotal,   \* inode_total of the superblock
          BlockTotal,   \* block_total of the superblock
          DataStart,    \* data_block_no: the first block of the data area
          ByteBits      \* bits per bitmap byte: 8 in the code, scaled in runs

ASSUME AllocAssumption ==
    /\ InodeTotal \in Nat \ {0} /\ BlockTotal \in Nat /\ ByteBits \in Nat \ {0}
    /\ DataStart \in Nat \ {0} /\ DataStart < BlockTotal

Inos   == 1 .. InodeTotal
Blocks == DataStart .. (BlockTotal - 1)

RootIno == 1

\* Faulty: the scan starts at block 0.
ScannedBlocksFromZero == 0 .. (ByteBits * (BlockTotal \div ByteBits) - 1)

\* The bits the two scans look at.
ScannedInos   == 1 .. (ByteBits * (InodeTotal \div ByteBits))
ScannedBlocks == DataStart .. (ByteBits * (BlockTotal \div ByteBits) - 1)

FreeInos(im)   == {i \in ScannedInos : i \notin im}
FreeBlocks(bm) == {b \in ScannedBlocks : b \notin bm}

\* Faulty: the number of the bit, not of the inode.
FindFreeInodeZeroBased(im) == {i - 1 : i \in {k \in FreeInos(im) : \A l \in FreeInos(im) : k <= l}}

\* Faulty: the inode scan's "+ 1" in the block scan.
AllocBlockOneBased(bm) == {b + 1 : b \in {c \in FreeBlocks(bm) : \A l \in FreeBlocks(bm) : c <= l}}

\* The number the scan returns: a set of one element, or {} where the code
\* returns 0 or -ENOSPC.
FindFreeInode(im) == {i \in FreeInos(im) : \A k \in FreeInos(im) : i <= k}
AllocBlock(bm)    == {b \in FreeBlocks(bm) : \A c \in FreeBlocks(bm) : b <= c}
============================================================================
