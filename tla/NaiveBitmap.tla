---------------------------- MODULE NaiveBitmap ----------------------------
(***************************************************************************)
(* The byte loops of naive_find_free_inode, naive_alloc_block and          *)
(* naive_free_block (src/naive/naivefs_super.c) on arrays of bytes, a byte *)
(* being the set of its bits that are 1.  The loops are compared with the  *)
(* operators on sets that the other modules use.                           *)
(***************************************************************************)
EXTENDS NaiveAlloc, FiniteSets

CONSTANTS BitmapBytes   \* bytes of a bitmap: one block, 512, in the code

ASSUME BitmapAssumption ==
  /\ BitmapBytes \in Nat
  /\ BitmapBytes * ByteBits >= BlockTotal /\ BitmapBytes * ByteBits >= InodeTotal

Bits   == 0 .. (ByteBits - 1)
Bitmap == [0 .. (BitmapBytes - 1) -> SUBSET Bits]

VARIABLES block_bitmap, inode_bitmap

vars == <<block_bitmap, inode_bitmap>>

\* Faulty: the start bit is ignored.
ClearBitFromZero(bytes, i, from) ==
  {j \in Bits : j \notin bytes[i] /\ \A k \in Bits : k \notin bytes[i] => j <= k}

\* The first clear bit of byte i at or after bit from, as a set.
ClearBit(bytes, i, from) ==
  {j \in Bits : j >= from /\ j \notin bytes[i] /\ \A k \in Bits : k >= from /\ k \notin bytes[i] => j <= k}

\* naive_find_free_inode: the loop from byte i on.
ScanInodes(bytes) ==
  LET last == InodeTotal \div ByteBits
      scan[i \in 0 .. last] ==
        IF i = last THEN 0
        ELSE IF ClearBit(bytes, i, 0) = {} THEN scan[i + 1]
        ELSE LET ino == i * ByteBits + (CHOOSE j \in ClearBit(bytes, i, 0) : TRUE) + 1
             IN  IF ino > InodeTotal THEN 0 ELSE ino
  IN  scan[0]

\* naive_alloc_block: the first byte is entered at the first data block's bit;
\* -1 is the error return.
ScanBlocks(bytes) ==
  LET last  == BlockTotal \div ByteBits
      first == DataStart \div ByteBits
      scan[i \in first .. (last + first)] ==
        LET clear == ClearBit(bytes, i, IF i = first THEN DataStart % ByteBits ELSE 0) IN
        IF i >= last THEN -1
        ELSE IF clear = {} THEN scan[i + 1]
        ELSE LET no == i * ByteBits + (CHOOSE j \in clear : TRUE)
             IN  IF no >= BlockTotal THEN -1 ELSE no
  IN  scan[first]

\* Faulty: "=" in place of "|=".
SetOnly(bytes, n) == [bytes EXCEPT ![n \div ByteBits] = {n % ByteBits}]

SetBit(bytes, n)   == [bytes EXCEPT ![n \div ByteBits] = @ \cup {n % ByteBits}]
ClearBitOf(bytes, n) == [bytes EXCEPT ![n \div ByteBits] = @ \ {n % ByteBits}]

\* Any image's bitmaps.
Init == \E b \in Bitmap : block_bitmap = b /\ inode_bitmap = SetBit(b, RootIno - 1)

AllocInode ==   \* create and mkdir: find, then "|="
  /\ ScanInodes(inode_bitmap) # 0
  /\ inode_bitmap' = SetBit(inode_bitmap, ScanInodes(inode_bitmap) - 1)
  /\ UNCHANGED block_bitmap

FreeInode(i) ==   \* unlink and rmdir: "&= ~"
  /\ inode_bitmap' = ClearBitOf(inode_bitmap, i - 1)
  /\ UNCHANGED block_bitmap

AllocABlock ==
  /\ ScanBlocks(block_bitmap) # -1
  /\ block_bitmap' = SetBit(block_bitmap, ScanBlocks(block_bitmap))
  /\ UNCHANGED inode_bitmap

FreeABlock(b) ==   \* naive_free_block, b a block a file points to
  /\ block_bitmap' = ClearBitOf(block_bitmap, b)
  /\ UNCHANGED inode_bitmap

Next == \/ AllocInode \/ AllocABlock
        \/ \E i \in Inos : FreeInode(i)
        \/ \E b \in Blocks : FreeABlock(b)

Spec == Init /\ [][Next]_vars
----------------------------------------------------------------------------
ImapSet == {i \in Inos : (i - 1) % ByteBits \in inode_bitmap[(i - 1) \div ByteBits]}
BmapSet == {b \in Blocks : b % ByteBits \in block_bitmap[b \div ByteBits]}

\* The inode loop returns the lowest clear number of the whole bytes, and 0
\* exactly when there is none.
FindAgrees ==
  LET i == ScanInodes(inode_bitmap) IN
  FindFreeInode(ImapSet) = IF i = 0 THEN {} ELSE {i}

\* The block loop never returns a block below the data area, a marked one or
\* one past the last whole byte, takes the lowest, and fails exactly when the
\* area has none: the start bit applies to the first byte only.
AllocAgrees ==
  LET b == ScanBlocks(block_bitmap) IN
  AllocBlock(BmapSet) = IF b = -1 THEN {} ELSE {b}

\* Allocating and freeing change the one bit they name: the other numbers of
\* the byte keep theirs.
OneBitAtATime ==
  [][/\ Cardinality((BmapSet \ BmapSet') \cup (BmapSet' \ BmapSet)) <= 1
     /\ Cardinality((ImapSet \ ImapSet') \cup (ImapSet' \ ImapSet)) <= 1]_vars
============================================================================
