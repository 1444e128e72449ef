-------------------------- MODULE NaiveMonoProofs --------------------------
(***************************************************************************)
(* Theorems about NaiveMono, for every number of inodes and blocks, every  *)
(* block size and any number of open files, through every way the write    *)
(* loop may end, every failed create and every remount: the properties of  *)
(* its run (MonoIsSound).                                                  *)
(*                                                                         *)
(* The properties speak of the buffers or of the device.  The inductive    *)
(* invariant speaks of both at once, since a mount makes the device's      *)
(* state the buffers' again:                                               *)
(*   - every disk inode, in a buffer and on the device, is Sound by itself *)
(*   - a pointer of either is the only one to its block among the pointers *)
(*     of both, and the block's bit is set in the buffer (Apart); so a     *)
(*     block the device still knows is not handed out again                *)
(*   - a bit set in the buffer is set on the device: only clears of a bit  *)
(*     go unmarked.                                                        *)
(***************************************************************************)
EXTENDS NaiveMono, FiniteSetTheorems, TLAPS

----------------------------------------------------------------------------
(* Arithmetic of blocks.                                                   *)

\* The greater and the lesser of two numbers.
LEMMA MaxMinOfTwo ==
  ASSUME NEW a \in Int, NEW b \in Int
  PROVE  /\ Max({a, b}) = IF a >= b THEN a ELSE b
         /\ Min({a, b}) = IF a <= b THEN a ELSE b
<1>1. \E x \in {a, b} : \A y \in {a, b} : x >= y
  OBVIOUS
<1>2. \E x \in {a, b} : \A y \in {a, b} : x <= y
  OBVIOUS
<1>3. Max({a, b}) \in {a, b} /\ \A y \in {a, b} : Max({a, b}) >= y
  BY <1>1 DEF Max
<1>4. Min({a, b}) \in {a, b} /\ \A y \in {a, b} : Min({a, b}) <= y
  BY <1>2 DEF Min
<1>5. QED  BY <1>3, <1>4

\* A byte lies in the block its position divided by the block size names.
LEMMA BlockOfByte ==
  ASSUME NEW b \in Nat
  PROVE  /\ b \div BlockSize \in Nat
         /\ (b \div BlockSize) * BlockSize <= b
         /\ b < (b \div BlockSize + 1) * BlockSize
         /\ \A k \in Nat : k * BlockSize <= b /\ b < (k + 1) * BlockSize => b \div BlockSize = k
<1> DEFINE q == b \div BlockSize
<1>1. BlockSize \in Nat /\ BlockSize > 0
  BY MonoAssumption
<1>2. q \in Nat /\ BlockSize * q <= b /\ b < BlockSize * (q + 1)
  BY <1>1
<1> HIDE DEF q
<1>3. ASSUME NEW k \in Nat, k * BlockSize <= b, b < (k + 1) * BlockSize
      PROVE  q = k
  <2>1. CASE q >= k + 1
    <3>1. BlockSize * q >= BlockSize * (k + 1)
      BY <1>1, <1>2, <2>1
    <3>2. QED  BY <1>1, <1>2, <1>3, <3>1
  <2>2. CASE k >= q + 1
    <3>1. BlockSize * k >= BlockSize * (q + 1)
      BY <1>1, <1>2, <2>2
    <3>2. QED  BY <1>1, <1>2, <1>3, <3>1
  <2>3. QED  BY <1>2, <2>1, <2>2
<1>4. QED  BY <1>1, <1>2, <1>3 DEF q

\* A byte below the largest size is in a block that has a pointer.
LEMMA ByteIsIndexed ==
  ASSUME NEW b \in Nat, b < MaxFileSize
  PROVE  b \div BlockSize \in Index
<1> DEFINE q == b \div BlockSize
<1>1. BlockSize \in Nat /\ BlockSize > 0 /\ DirectBlocks \in Nat
  BY MonoAssumption
<1>2. q \in Nat /\ q * BlockSize <= b
  BY BlockOfByte
<1> HIDE DEF q
<1>3. CASE q >= DirectBlocks
  <2>1. q * BlockSize >= DirectBlocks * BlockSize
    BY <1>1, <1>2, <1>3
  <2>2. QED  BY <1>1, <1>2, <2>1 DEF MaxFileSize
<1>4. QED  BY <1>1, <1>2, <1>3 DEF Index, q

\* Where the loop stands when it comes to a block.
LEMMA ReachesIs ==
  ASSUME NEW pos \in 0 .. MaxFileSize, NEW k \in Index
  PROVE  /\ Reaches(pos, k) = IF pos >= k * BlockSize THEN pos ELSE k * BlockSize
         /\ Reaches(pos, k) \in pos .. MaxFileSize
         /\ MaxFileSize \in Nat /\ k * BlockSize \in Nat
<1>1. BlockSize \in Nat /\ DirectBlocks \in Nat /\ k \in Nat /\ k < DirectBlocks
  BY MonoAssumption DEF Index
<1>2. k * BlockSize \in Nat /\ MaxFileSize \in Nat /\ k * BlockSize <= MaxFileSize
  <2>1. k * BlockSize <= DirectBlocks * BlockSize
    BY <1>1
  <2>2. QED  BY <1>1, <2>1 DEF MaxFileSize
<1>3. QED  BY <1>2, MaxMinOfTwo DEF Reaches

----------------------------------------------------------------------------
(* One disk inode.                                                         *)

Counted(n)   == n.blocks \in 0 .. Cardinality(Index \ Zeros(n, Index))
EndInBlock(n) == n.size > 0 => n.ptr[(n.size - 1) \div BlockSize] # 0

Sound(n) == n \in DiskInode /\ EndInBlock(n) /\ Counted(n)

\* Byte b of the file is in a block and below its size.
Holds(n, b) == b < n.size /\ n.ptr[b \div BlockSize] # 0

\* The sets the constants make.
LEMMA SizesAndBlocks ==
  /\ MaxFileSize \in Nat /\ Blocks \subseteq Nat /\ 0 \notin Blocks
  /\ Index \subseteq Nat /\ IsFiniteSet(Index)
  /\ Inos \subseteq Nat /\ RootBit \in Inos /\ None \notin Inos
<1>1. MaxFileSize \in Nat /\ Blocks \subseteq Nat /\ 0 \notin Blocks /\ Index \subseteq Nat
  BY MonoAssumption DEF MaxFileSize, Blocks, Index
<1>2. IsFiniteSet(Index)
  BY MonoAssumption, FS_Interval DEF Index
<1>3. Inos \subseteq Nat /\ RootBit \in Inos /\ None \notin Inos
  BY MonoAssumption DEF Inos, RootBit
<1>4. QED  BY <1>1, <1>2, <1>3

\* The blocks a set of pointers counts.
LEMMA PointersAreCounted ==
  ASSUME NEW n, NEW ks \in SUBSET Index
  PROVE  /\ IsFiniteSet(Zeros(n, ks)) /\ Cardinality(Zeros(n, ks)) \in Nat
         /\ IsFiniteSet(Index \ Zeros(n, Index))
         /\ Cardinality(Index \ Zeros(n, Index)) \in Nat
  BY SizesAndBlocks, FS_Subset, FS_CardinalityType DEF Zeros

\* A disk inode with other pointers and another count.
LEMMA OtherPointers ==
  ASSUME NEW n \in DiskInode, NEW p, NEW c
  PROVE  [n EXCEPT !.ptr = p, !.blocks = c] = [size |-> n.size, blocks |-> c, ptr |-> p]
<1> DEFINE m == [n EXCEPT !.ptr = p]
<1>1. m = [size |-> n.size, blocks |-> n.blocks, ptr |-> p]
  BY DEF DiskInode
<1> HIDE DEF m
<1>2. [m EXCEPT !.blocks = c] = [size |-> n.size, blocks |-> c, ptr |-> p]
  BY <1>1
<1>3. QED  BY <1>2, Zenon DEF m

\* A disk inode that was zeroed, or lost its pointers, is sound.
LEMMA EmptyIsSound ==
  ASSUME NEW n \in DiskInode, n.size = 0, n.blocks = 0
  PROVE  Sound(n)
  BY PointersAreCounted, SizesAndBlocks DEF Sound, EndInBlock, Counted

\* i_blocks alone may be reset in a sound disk inode.
LEMMA UncountedIsSound ==
  ASSUME NEW n, Sound(n)
  PROVE  LET n2 == [n EXCEPT !.blocks = 0] IN
         Sound(n2) /\ n2.size = n.size /\ n2.ptr = n.ptr
<1> DEFINE n2 == [n EXCEPT !.blocks = 0]
<1>1. n2 \in DiskInode /\ n2.size = n.size /\ n2.ptr = n.ptr /\ n2.blocks = 0
  BY DEF Sound, DiskInode
<1> HIDE DEF n2
<1>2. Counted(n2)
  BY <1>1, PointersAreCounted DEF Counted
<1>3. EndInBlock(n2)
  BY <1>1 DEF Sound, EndInBlock
<1>4. QED  BY <1>1, <1>2, <1>3 DEF n2, Sound

\* The blocks found for some of a file's empty pointers: free ones, one each.
LEMMA FoundBlocks ==
  ASSUME NEW m, NEW ks, NEW g \in FindFreeBlocks(m, ks)
  PROVE  /\ DOMAIN g = ks
         /\ \A k \in ks : g[k] \in Blocks \ m
         /\ Range(g) = {g[k] : k \in ks}
  BY DEF FindFreeBlocks, Range

\* They differ from each other.
LEMMA FoundBlocksDiffer ==
  ASSUME NEW m, NEW ks \in SUBSET Index, NEW g \in FindFreeBlocks(m, ks),
         NEW k \in ks, NEW l \in ks, g[k] = g[l]
  PROVE  k = l
<1>1. k \in Nat /\ l \in Nat /\ g[k] \in Nat
  BY SizesAndBlocks, FoundBlocks
<1>2. /\ k < l => g[k] < g[l]
      /\ l < k => g[l] < g[k]
  BY DEF FindFreeBlocks
<1>3. QED  BY <1>1, <1>2

\* A sound disk inode with blocks found for its empty pointers among ks.
LEMMA AttachFacts ==
  ASSUME NEW n, Sound(n), NEW m, NEW ks \in SUBSET Index,
         NEW g \in FindFreeBlocks(m, Zeros(n, ks))
  PROVE  LET n2 == Attach(n, g) IN
         /\ n2 \in DiskInode
         /\ n2.size = n.size
         /\ n2.blocks = n.blocks + Cardinality(Zeros(n, ks))
         /\ n2.ptr = [k \in Index |-> IF k \in Zeros(n, ks) THEN g[k] ELSE n.ptr[k]]
         /\ \A k \in ks : n2.ptr[k] # 0
         /\ Sound(n2)
<1> DEFINE n2 == Attach(n, g)
           zs == Zeros(n, ks)
<1>1. /\ n \in DiskInode /\ n.blocks \in Int /\ n.ptr \in [Index -> Blocks \cup {0}]
      /\ n.size \in 0 .. MaxFileSize
  BY DEF Sound, DiskInode
<1>2. /\ DOMAIN g = zs /\ zs \subseteq Index /\ Cardinality(zs) \in Nat
      /\ \A k \in zs : g[k] \in Blocks /\ n.ptr[k] = 0
  <2>1. DOMAIN g = zs /\ \A k \in zs : g[k] \in Blocks
    BY FoundBlocks
  <2>2. Cardinality(zs) \in Nat
    BY PointersAreCounted
  <2>3. zs \subseteq Index /\ \A k \in zs : n.ptr[k] = 0
    BY DEF Zeros
  <2>4. QED  BY <2>1, <2>2, <2>3
<1> DEFINE p == [k \in Index |-> IF k \in DOMAIN g THEN g[k] ELSE n.ptr[k]]
           c == n.blocks + Cardinality(DOMAIN g)
<1>p. c = n.blocks + Cardinality(zs) /\ p = [k \in Index |-> IF k \in zs THEN g[k] ELSE n.ptr[k]]
  BY <1>2
<1>q. p \in [Index -> Blocks \cup {0}] /\ c \in Int
  BY <1>1, <1>2
<1>r. n2 = [n EXCEPT !.ptr = p, !.blocks = c]
  BY DEF Attach
<1> HIDE DEF p, c, n2
<1>s. n2 = [size |-> n.size, blocks |-> c, ptr |-> p]
  BY <1>1, <1>r, OtherPointers, Zenon
<1>3. /\ n2.size = n.size
      /\ n2.blocks = n.blocks + Cardinality(zs)
      /\ n2.ptr = [k \in Index |-> IF k \in zs THEN g[k] ELSE n.ptr[k]]
  BY <1>p, <1>s
<1>4. n2 \in DiskInode
  BY <1>1, <1>q, <1>s DEF DiskInode
<1>5. \A k \in ks : n2.ptr[k] # 0
  <2>1. ASSUME NEW k \in ks PROVE n2.ptr[k] # 0
    <3>1. CASE k \in zs
      BY <1>2, <1>3, <3>1, SizesAndBlocks
    <3>2. CASE k \notin zs
      <4>1. n.ptr[k] # 0
        BY <3>2 DEF Zeros
      <4>2. n2.ptr[k] = n.ptr[k]
        BY <1>3, <3>2
      <4>3. QED  BY <4>1, <4>2
    <3>3. QED  BY <3>1, <3>2
  <2>2. QED  BY <2>1
<1>6. EndInBlock(n2)
  <2>1. \A k \in Index : n.ptr[k] # 0 => n2.ptr[k] = n.ptr[k]
    BY <1>2, <1>3
  <2>2. n.size > 0 => (n.size - 1) \div BlockSize \in Index
    BY <1>1, ByteIsIndexed, SizesAndBlocks
  <2>3. QED  BY <1>3, <2>1, <2>2 DEF Sound, EndInBlock
<1>7. Counted(n2)
  <2> DEFINE had == Index \ Zeros(n, Index)
             has == Index \ Zeros(n2, Index)
  <2>1. has = had \cup zs /\ had \cap zs = {}
    BY <1>2, <1>3, SizesAndBlocks DEF Zeros
  <2>2. IsFiniteSet(had) /\ IsFiniteSet(zs) /\ Cardinality(had) \in Nat
    BY PointersAreCounted
  <2> HIDE DEF had, has
  <2>3. Cardinality(has) = Cardinality(had) + Cardinality(zs)
    <3>1. Cardinality(had \cup zs) = Cardinality(had) + Cardinality(zs) - Cardinality(had \cap zs)
      BY <2>2, FS_Union
    <3>2. Cardinality(had \cap zs) = 0
      BY <2>1, FS_EmptySet
    <3>3. QED  BY <1>2, <2>1, <2>2, <3>1, <3>2
  <2>4. n.blocks \in 0 .. Cardinality(had)
    BY DEF Sound, Counted, had
  <2>5. n2.blocks \in 0 .. Cardinality(has)
    BY <1>2, <1>3, <2>2, <2>3, <2>4
  <2>6. QED  BY <2>5 DEF Counted, has
<1>8. QED  BY <1>3, <1>4, <1>5, <1>6, <1>7 DEF n2, Sound

\* The size the loop leaves: it ends in a block if what was written last does.
LEMMA GrownFacts ==
  ASSUME NEW n, Sound(n), NEW pos \in 0 .. MaxFileSize, NEW end \in 0 .. MaxFileSize,
         end > pos => n.ptr[(end - 1) \div BlockSize] # 0
  PROVE  LET n2 == Grown(n, pos, end) IN
         /\ Sound(n2) /\ n2.ptr = n.ptr /\ n2.blocks = n.blocks
         /\ n2.size >= n.size
         /\ end > pos => n2.size >= end
         /\ n2.size = n.size \/ (end > pos /\ n2.size = end)
<1> DEFINE n2 == Grown(n, pos, end)
           s  == IF end > pos THEN Max({n.size, end}) ELSE n.size
<1>1. n \in DiskInode /\ n.size \in 0 .. MaxFileSize /\ MaxFileSize \in Nat
  BY SizesAndBlocks DEF Sound, DiskInode
<1>2. s = IF end > pos /\ end > n.size THEN end ELSE n.size
  BY <1>1, MaxMinOfTwo
<1>3. n2 = [n EXCEPT !.size = s]
  BY DEF Grown
<1> HIDE DEF s, n2
<1>4. s \in 0 .. MaxFileSize
  BY <1>1, <1>2
<1>5. n2 \in DiskInode /\ n2.ptr = n.ptr /\ n2.blocks = n.blocks /\ n2.size = s
  BY <1>1, <1>3, <1>4 DEF DiskInode
<1>6. EndInBlock(n2)
  BY <1>1, <1>2, <1>5 DEF Sound, EndInBlock
<1>7. Counted(n2)
  BY <1>5 DEF Sound, Counted, Zeros
<1>8. QED  BY <1>1, <1>2, <1>5, <1>6, <1>7 DEF n2, Sound

\* The last block attached is given back: nothing of the file ended in it.
LEMMA DetachFacts ==
  ASSUME NEW n, Sound(n), NEW k \in Index, n.ptr[k] # 0, n.blocks > 0,
         n.size > 0 => (n.size - 1) \div BlockSize # k
  PROVE  LET n2 == Detach(n, k) IN
         /\ Sound(n2) /\ n2.size = n.size /\ n2.ptr = [n.ptr EXCEPT ![k] = 0]
<1> DEFINE n2 == Detach(n, k)
<1>1. /\ n \in DiskInode /\ n.ptr \in [Index -> Blocks \cup {0}]
      /\ n.size \in 0 .. MaxFileSize /\ n.blocks \in Int
  BY DEF Sound, DiskInode
<1>2. /\ n2 \in DiskInode /\ n2.size = n.size /\ n2.blocks = n.blocks - 1
      /\ n2.ptr = [n.ptr EXCEPT ![k] = 0]
  <2> DEFINE p == [n.ptr EXCEPT ![k] = 0]
             c == n.blocks - 1
  <2>1. n2 = [n EXCEPT !.ptr = p, !.blocks = c]
    BY <1>1, Zenon DEF Detach
  <2>2. p \in [Index -> Blocks \cup {0}] /\ c \in Int
    BY <1>1
  <2> HIDE DEF p, c, n2
  <2>3. n2 = [size |-> n.size, blocks |-> c, ptr |-> p]
    BY <1>1, <2>1, OtherPointers, Zenon
  <2>4. QED  BY <1>1, <2>2, <2>3 DEF p, c, DiskInode
<1> HIDE DEF n2
<1>3. EndInBlock(n2)
  <2>1. n.size > 0 => (n.size - 1) \div BlockSize \in Index
    BY <1>1, ByteIsIndexed, SizesAndBlocks
  <2>2. QED  BY <1>1, <1>2, <2>1 DEF Sound, EndInBlock
<1>4. Counted(n2)
  <2> DEFINE had == Index \ Zeros(n, Index)
             has == Index \ Zeros(n2, Index)
  <2>1. has = had \ {k} /\ k \in had
    BY <1>1, <1>2 DEF Zeros
  <2>2. IsFiniteSet(had) /\ Cardinality(had) \in Nat
    BY PointersAreCounted
  <2> HIDE DEF had, has
  <2>3. Cardinality(has) = Cardinality(had) - 1
    BY <2>1, <2>2, FS_RemoveElement
  <2>4. n.blocks \in 0 .. Cardinality(had)
    BY DEF Sound, Counted, had
  <2>5. n2.blocks \in 0 .. Cardinality(has)
    BY <1>1, <1>2, <2>2, <2>3, <2>4
  <2>6. QED  BY <2>5 DEF Counted, has
<1>5. QED  BY <1>2, <1>3, <1>4 DEF n2, Sound

\* The bytes before block k are in the blocks the loop is through with.
LEMMA BytesBefore ==
  ASSUME NEW pos \in 0 .. MaxFileSize, NEW end \in Nat, NEW k \in Span(pos, end)
  PROVE  \A b \in pos .. Reaches(pos, k) - 1 : b \div BlockSize \in {j \in Span(pos, end) : j < k}
<1> SUFFICES ASSUME NEW b \in pos .. Reaches(pos, k) - 1
             PROVE  b \div BlockSize \in {j \in Span(pos, end) : j < k}
  OBVIOUS
<1> DEFINE q == b \div BlockSize
<1>1. /\ BlockSize \in Nat /\ BlockSize > 0 /\ k \in Index /\ k \in Nat /\ k * BlockSize < end
      /\ k < DirectBlocks /\ DirectBlocks \in Nat
  BY MonoAssumption DEF Span, Index
<1>2. b \in Nat /\ b >= pos /\ b < k * BlockSize
  BY <1>1, ReachesIs
<1>3. q \in Nat /\ q * BlockSize <= b /\ b < (q + 1) * BlockSize
  BY <1>2, BlockOfByte
<1> HIDE DEF q
<1>4. q < k
  <2>1. CASE q >= k
    <3>1. q * BlockSize >= k * BlockSize
      BY <1>1, <1>3, <2>1
    <3>2. QED  BY <1>1, <1>2, <1>3, <3>1
  <2>2. QED  BY <1>1, <1>3, <2>1
<1>5. q * BlockSize < end /\ (q + 1) * BlockSize > pos
  BY <1>1, <1>2, <1>3
<1>6. q \in Index
  BY <1>1, <1>3, <1>4 DEF Index
<1>7. QED  BY <1>4, <1>5, <1>6 DEF Span, q

\* All bytes of a write are in the blocks its loop visits.
LEMMA BytesOfSpan ==
  ASSUME NEW pos \in Nat, NEW end \in 0 .. MaxFileSize
  PROVE  \A b \in pos .. end - 1 : b \div BlockSize \in Span(pos, end)
<1> SUFFICES ASSUME NEW b \in pos .. end - 1
             PROVE  b \div BlockSize \in Span(pos, end)
  OBVIOUS
<1> DEFINE q == b \div BlockSize
<1>1. b \in Nat /\ b < MaxFileSize /\ b < end /\ b >= pos /\ BlockSize \in Nat
  BY SizesAndBlocks, MonoAssumption
<1>2. q \in Index /\ q \in Nat /\ q * BlockSize <= b /\ b < (q + 1) * BlockSize
  BY <1>1, BlockOfByte, ByteIsIndexed
<1> HIDE DEF q
<1>3. q * BlockSize < end /\ (q + 1) * BlockSize > pos
  BY <1>1, <1>2
<1>4. QED  BY <1>2, <1>3 DEF Span, q

----------------------------------------------------------------------------
(* Buffers and device.                                                     *)

\* Pointer k of inode i, in a buffer or on the device, is to block b.
HasPtr(c, d, i, k, b) == b # 0 /\ (c.table[i].ptr[k] = b \/ d.table[i].ptr[k] = b)

Apart(c, d, is) ==
  /\ c.bmap \subseteq d.bmap
  /\ \A i, j \in is : \A k, l \in Index : \A b :
        HasPtr(c, d, i, k, b) => b \in c.bmap /\ (HasPtr(c, d, j, l, b) => i = j /\ k = l)

\* Pointers that were there already stay apart, as long as their bits are set.
LEMMA FewerPointers ==
  ASSUME NEW c, NEW d, NEW is, Apart(c, d, is), NEW c2, NEW d2, NEW js,
         c2.bmap \subseteq d2.bmap,
         \A i \in js : \A k \in Index : \A b :
            HasPtr(c2, d2, i, k, b) => i \in is /\ HasPtr(c, d, i, k, b) /\ b \in c2.bmap
  PROVE  Apart(c2, d2, js)
  BY DEF Apart

\* So do new pointers of one inode to different blocks that were free.
LEMMA NewPointers ==
  ASSUME NEW c, NEW d, NEW is, Apart(c, d, is), NEW c2, NEW d2, NEW i \in is, NEW f,
         c2.bmap \subseteq d2.bmap, c.bmap \subseteq c2.bmap,
         \A j \in is : \A k \in Index : \A b :
            HasPtr(c2, d2, j, k, b) =>
              \/ HasPtr(c, d, j, k, b)
              \/ j = i /\ b = f[k] /\ b \in c2.bmap \ c.bmap,
         \A k, l \in Index : f[k] = f[l] /\ f[k] \in c2.bmap \ c.bmap => k = l
  PROVE  Apart(c2, d2, is)
<1> SUFFICES ASSUME NEW j \in is, NEW h \in is, NEW k \in Index, NEW l \in Index, NEW b,
                    HasPtr(c2, d2, j, k, b)
             PROVE  b \in c2.bmap /\ (HasPtr(c2, d2, h, l, b) => j = h /\ k = l)
  BY DEF Apart
<1>1. b \in c2.bmap
  BY DEF Apart
<1>2. ASSUME HasPtr(c2, d2, h, l, b) PROVE j = h /\ k = l
  <2>1. CASE b \in c.bmap
    BY <1>2, <2>1 DEF Apart
  <2>2. CASE b \notin c.bmap
    <3>1. j = i /\ b = f[k] /\ h = i /\ b = f[l]
      BY <1>2, <2>2 DEF Apart
    <3>2. QED  BY <1>1, <2>2, <3>1
  <2>3. QED  BY <2>1, <2>2
<1>3. QED  BY <1>1, <1>2

\* What a flush leaves on the device.
LEMMA FlushIs ==
  ASSUME NEW c \in Contents, NEW m \in Contents, NEW d \in Marks
  PROVE  /\ Flush(c, m, d) \in Contents
         /\ Flush(c, m, d).bmap = IF d.bmap THEN m.bmap ELSE c.bmap
         /\ \A j \in Inos : Flush(c, m, d).table[j] = IF j \in d.table THEN m.table[j] ELSE c.table[j]
<1> DEFINE t == [i \in Inos |-> IF i \in d.table THEN m.table[i] ELSE c.table[i]]
           im == IF d.imap THEN m.imap ELSE c.imap
           bm == IF d.bmap THEN m.bmap ELSE c.bmap
<1>1. t \in [Inos -> DiskInode] /\ im \in SUBSET Inos /\ bm \in SUBSET Blocks
  BY DEF Contents
<1>2. Flush(c, m, d) = [imap |-> im, bmap |-> bm, table |-> t]
  BY DEF Flush
<1>3. \A j \in Inos : t[j] = IF j \in d.table THEN m.table[j] ELSE c.table[j]
  OBVIOUS
<1> HIDE DEF t, im, bm
<1>4. Flush(c, m, d).bmap = bm /\ Flush(c, m, d).table = t
  BY <1>2
<1>5. Flush(c, m, d) \in Contents
  BY <1>1, <1>2 DEF Contents
<1>6. QED  BY <1>3, <1>4, <1>5 DEF bm

\* What a handler leaves: the device has of each inode what the buffer has or
\* what it had before.
Leaves(m, d, marked) ==
  /\ mem' = m /\ dirty' \in Marks /\ disk' \in Contents
  /\ m.bmap \subseteq disk'.bmap
  /\ \A j \in Inos : disk'.table[j] = m.table[j] \/ (j \notin marked /\ disk'.table[j] = d.table[j])

\* A handler that does not sleep: a bit it sets is marked.
LEMMA LeaveFacts ==
  ASSUME disk \in Contents, mem.bmap \subseteq disk.bmap,
         NEW m \in Contents, NEW d \in Marks, Leave(m, d),
         d.bmap \/ m.bmap \subseteq mem.bmap
  PROVE  Leaves(m, disk, d.table)
<1>1. mem' = m /\ dirty' = d /\ disk' = Flush(disk, m, d)
  BY DEF Leave
<1> DEFINE after == Flush(disk, m, d)
<1>2. /\ after \in Contents
      /\ after.bmap = IF d.bmap THEN m.bmap ELSE disk.bmap
      /\ \A j \in Inos : after.table[j] = IF j \in d.table THEN m.table[j] ELSE disk.table[j]
  BY FlushIs
<1>3. disk' = after
  BY <1>1
<1> HIDE DEF after
<1>4. m.bmap \subseteq disk'.bmap
  BY <1>2, <1>3
<1>5. QED  BY <1>1, <1>2, <1>3, <1>4 DEF Leaves

\* One that does: what it changes after its sleep is marked, or a cleared bit.
LEMMA LeaveAfterFacts ==
  ASSUME disk \in Contents, mem.bmap \subseteq disk.bmap,
         NEW m1 \in Contents, NEW d1 \in Marks, NEW m2 \in Contents, NEW d2 \in Marks,
         LeaveAfter(m1, d1, m2, d2),
         m2.bmap \subseteq m1.bmap, d1.bmap \/ m2.bmap \subseteq mem.bmap,
         \A j \in Inos \ d2.table : m1.table[j] = m2.table[j]
  PROVE  Leaves(m2, disk, d2.table)
<1> DEFINE d3 == [imap |-> d1.imap \/ d2.imap, bmap |-> d1.bmap \/ d2.bmap,
                  table |-> d1.table \cup d2.table]
<1>1. d3 \in Marks /\ (d3.bmap <=> d1.bmap \/ d2.bmap) /\ d3.table = d1.table \cup d2.table
  <2>1. /\ d1.imap \in BOOLEAN /\ d2.imap \in BOOLEAN /\ d1.bmap \in BOOLEAN /\ d2.bmap \in BOOLEAN
        /\ d1.table \subseteq Inos /\ d2.table \subseteq Inos
    BY DEF Marks
  <2>2. /\ d1.imap \/ d2.imap \in BOOLEAN
        /\ d1.bmap \/ d2.bmap \in BOOLEAN
    BY <2>1
  <2>3. QED  BY <2>1, <2>2 DEF Marks
<1>2. CASE Leave(m2, d3)
  <2>1. d3.bmap \/ m2.bmap \subseteq mem.bmap
    BY <1>1
  <2> HIDE DEF d3
  <2>2. Leaves(m2, disk, d3.table)
    BY <1>1, <1>2, <2>1, LeaveFacts
  <2>3. QED  BY <1>1, <2>2 DEF Leaves
<1>3. CASE mem' = m2 /\ dirty' = d2 /\ disk' = Flush(Flush(disk, m1, d1), m2, d2)
  <2> DEFINE between == Flush(disk, m1, d1)
  <2>1. /\ between \in Contents
        /\ between.bmap = IF d1.bmap THEN m1.bmap ELSE disk.bmap
        /\ \A j \in Inos : between.table[j] = IF j \in d1.table THEN m1.table[j] ELSE disk.table[j]
    BY FlushIs
  <2>2. disk' = Flush(between, m2, d2)
    BY <1>3
  <2> HIDE DEF between
  <2>3. /\ disk' \in Contents
        /\ disk'.bmap = IF d2.bmap THEN m2.bmap ELSE between.bmap
        /\ \A j \in Inos : disk'.table[j] = IF j \in d2.table THEN m2.table[j] ELSE between.table[j]
    <3> DEFINE after == Flush(between, m2, d2)
    <3>1. /\ after \in Contents
          /\ after.bmap = IF d2.bmap THEN m2.bmap ELSE between.bmap
          /\ \A j \in Inos : after.table[j] = IF j \in d2.table THEN m2.table[j] ELSE between.table[j]
      BY <2>1, FlushIs
    <3> HIDE DEF after
    <3>2. QED  BY <2>2, <3>1 DEF after
  <2>4. m2.bmap \subseteq disk'.bmap
    BY <2>1, <2>3
  <2>5. QED  BY <1>3, <2>1, <2>3, <2>4 DEF Leaves
<1>4. QED  BY <1>2, <1>3 DEF LeaveAfter

----------------------------------------------------------------------------
(* The invariant.                                                          *)

AllSound(t) == \A i \in Inos : Sound(t[i])

\* The inodes whose pointers count: a mount zeroes the root's.
InUse(up) == IF up THEN Inos ELSE Files

\* What was written through an object is in blocks of its inode.
Kept(os, t) ==
  \A o \in Objs : os[o].ino # None => \A b \in os[o].wrote : Holds(t[os[o].ino], b)

\* Only a mounted file system has files, and a linked one has a number.
Control(os, up) ==
  \A o \in Objs : (os[o].linked => os[o].ino # None) /\ (~ up => os[o].ino = None)

\* Until the first unlink the root's bit is set and numbers are distinct.
Numbered(os, im, up, del) ==
  ~ del => /\ up => RootBit \in im
           /\ \A o \in Objs : os[o].ino # None =>
                /\ os[o].ino # RootBit /\ os[o].ino \in im
                /\ \A q \in Objs : os[q].ino = os[o].ino => q = o

Inv ==
  /\ TypeOK
  /\ Control(obj, mounted)
  /\ AllSound(mem.table) /\ AllSound(disk.table)
  /\ Apart(mem, disk, InUse(mounted))
  /\ Kept(obj, mem.table)
  /\ Numbered(obj, mem.imap, mounted, deleted)

\* What Kept says makes a read return every byte.
LEMMA KeptIsRead ==
  ASSUME NEW n, n.size \in Nat, NEW p \in Nat, NEW q \in Nat, p <= q, q < n.size,
         \A b \in p .. q : Holds(n, b)
  PROVE  ReadStop(n, p, q - p + 1) = q + 1
<1> DEFINE end   == Min({p + (q - p + 1), n.size})
           holes == {k \in Span(p, end) : n.ptr[k] = 0}
<1>1. end = q + 1
  <2>1. p + (q - p + 1) = q + 1 /\ q + 1 <= n.size /\ q + 1 \in Int /\ n.size \in Int
    OBVIOUS
  <2>2. Min({q + 1, n.size}) = q + 1
    BY <2>1, MaxMinOfTwo
  <2>3. QED  BY <2>1, <2>2
<1> HIDE DEF end
<1>2. ASSUME NEW k \in Span(p, q + 1) PROVE n.ptr[k] # 0
  <2> DEFINE b == IF p >= k * BlockSize THEN p ELSE k * BlockSize
  <2>1. /\ k \in Nat /\ BlockSize \in Nat /\ k * BlockSize \in Nat
        /\ k * BlockSize < q + 1 /\ (k + 1) * BlockSize > p /\ BlockSize > 0
    BY MonoAssumption DEF Span, Index
  <2>2. b \in p .. q /\ b \in Nat /\ k * BlockSize <= b
    BY <2>1
  <2>3. b < (k + 1) * BlockSize
    <3>1. k * BlockSize < (k + 1) * BlockSize
      BY <2>1
    <3>2. QED  BY <2>1, <3>1
  <2> HIDE DEF b
  <2>4. b \div BlockSize = k
    BY <2>1, <2>2, <2>3, BlockOfByte
  <2>5. QED  BY <2>2, <2>4 DEF Holds
<1>3. holes = {}
  BY <1>1, <1>2
<1> HIDE DEF holes
<1>4. ~ (p >= n.size)
  OBVIOUS
<1>5. QED  BY <1>1, <1>3, <1>4 DEF ReadStop, end, holes

\* The invariant gives the properties of the run.
LEMMA InvIsProperties ==
  ASSUME Inv
  PROVE  /\ TypeOK /\ BlocksOwnedOnce /\ DeviceOwnedOnce /\ SizeEndsInBlock
         /\ CountsNotAbove /\ WrittenIsRead /\ NumbersDistinct
<1>1. TypeOK /\ mem.bmap \subseteq disk.bmap
  BY DEF Inv, Apart
<1>2. BlocksOwnedOnce
  BY DEF Inv, Apart, HasPtr, InUse, BlocksOwnedOnce, OwnedOnce
<1>3. DeviceOwnedOnce
  BY DEF Inv, Apart, HasPtr, InUse, DeviceOwnedOnce, OwnedOnce
<1>4. SizeEndsInBlock
  BY DEF Inv, AllSound, Sound, EndInBlock, SizeEndsInBlock
<1>5. CountsNotAbove
  BY DEF Inv, AllSound, Sound, Counted, CountsNotAbove, Files
<1>6. WrittenIsRead
  <2> SUFFICES ASSUME NEW o \in Live, NEW p \in obj[o].wrote, NEW q \in obj[o].wrote,
                      p .. q \subseteq obj[o].wrote, p <= q
               PROVE  ReadStop(mem.table[obj[o].ino], p, q - p + 1) = q + 1
    BY DEF WrittenIsRead
  <2> DEFINE n == mem.table[obj[o].ino]
  <2>1. o \in Objs /\ obj[o].ino \in Inos /\ obj[o].wrote \subseteq Nat
    BY <1>1, SizesAndBlocks DEF TypeOK, Object, Live
  <2>2. n \in DiskInode /\ n.size \in Nat
    <3>1. mem.table \in [Inos -> DiskInode]
      BY <1>1 DEF TypeOK, Contents
    <3>2. n \in DiskInode
      BY <2>1, <3>1
    <3> HIDE DEF n
    <3>3. QED  BY <3>2, SizesAndBlocks DEF DiskInode
  <2>3. \A b \in obj[o].wrote : Holds(n, b)
    BY <2>1 DEF Inv, Kept, Live
  <2>4. q < n.size
    BY <2>3 DEF Holds
  <2> HIDE DEF n
  <2>5. QED  BY <2>1, <2>2, <2>3, <2>4, KeptIsRead DEF n
<1>7. NumbersDistinct
  BY DEF Inv, Numbered, NumbersDistinct, Live
<1>8. QED  BY <1>1, <1>2, <1>3, <1>4, <1>5, <1>6, <1>7

\* The image of the repository.
LEMMA InitInv == Init => Inv
<1> SUFFICES ASSUME Init PROVE Inv
  OBVIOUS
<1> DEFINE one  == [Zeroed EXCEPT !.blocks = 1]
           root == [one EXCEPT !.ptr[0] = DataStart]
<1>0. /\ 0 \in Index /\ DataStart \in Blocks /\ DataStart # 0
      /\ MaxFileSize \in Nat /\ RootBit \in Inos
  BY MonoAssumption, SizesAndBlocks DEF Index, Blocks
<1>1. /\ Zeroed \in DiskInode /\ Zeroed.size = 0 /\ Zeroed.blocks = 0
      /\ \A k \in Index : Zeroed.ptr[k] = 0
  BY SizesAndBlocks DEF Zeroed, DiskInode
<1>2. root = [size |-> 0, blocks |-> 1, ptr |-> [k \in Index |-> IF k = 0 THEN DataStart ELSE 0]]
  <2>1. one = [size |-> 0, blocks |-> 1, ptr |-> [k \in Index |-> 0]]
    BY DEF Zeroed
  <2> HIDE DEF one
  <2>2. root = [size |-> 0, blocks |-> 1, ptr |-> [[k \in Index |-> 0] EXCEPT ![0] = DataStart]]
    BY <2>1
  <2>3. QED  BY <1>0, <2>2
<1>3. root \in DiskInode /\ root.size = 0 /\ root.blocks = 1 /\ root.ptr[0] # 0
  <2> DEFINE p == [k \in Index |-> IF k = 0 THEN DataStart ELSE 0]
  <2>1. p \in [Index -> Blocks \cup {0}] /\ p[0] # 0
    BY <1>0
  <2> HIDE DEF p, root
  <2>2. root = [size |-> 0, blocks |-> 1, ptr |-> p]
    BY <1>2 DEF p
  <2>3. 0 \in 0 .. MaxFileSize
    BY <1>0
  <2>4. QED  BY <2>1, <2>2, <2>3 DEF DiskInode
<1>4. Sound(Zeroed)
  BY <1>1, EmptyIsSound
<1>5. Sound(root)
  <2>1. Index \ Zeros(root, Index) = {0}
    BY <1>0, <1>2 DEF Zeros
  <2>2. Cardinality(Index \ Zeros(root, Index)) = 1
    BY <2>1, FS_Singleton
  <2> HIDE DEF root
  <2>3. QED  BY <1>3, <2>2 DEF Sound, EndInBlock, Counted
<1> DEFINE t == [[i \in Inos |-> Zeroed] EXCEPT ![RootBit] = root]
<1>6. disk = [imap |-> {RootBit}, bmap |-> {}, table |-> t] /\ mem = disk
  BY DEF Init
<1> HIDE DEF root
<1>7. t = [i \in Inos |-> IF i = RootBit THEN root ELSE Zeroed]
  BY <1>0
<1> HIDE DEF t
<1>8. t \in [Inos -> DiskInode] /\ \A i \in Inos : t[i] = IF i = RootBit THEN root ELSE Zeroed
  BY <1>1, <1>3, <1>7
<1>9. disk \in Contents /\ disk.table = t /\ disk.bmap = {} /\ disk.imap = {RootBit}
  BY <1>0, <1>6, <1>8 DEF Contents
<1>10. \A o \in Objs : /\ obj[o] = Unused /\ obj[o].ino = None /\ ~ obj[o].linked
                        /\ obj[o].wrote = {}
  BY DEF Init, Unused
<1>11. TypeOK
  <2>1. dirty \in Marks
    BY DEF Init, Marks, Clean
  <2>2. obj \in [Objs -> Object]
    BY DEF Init, Unused, Object
  <2>3. QED  BY <1>6, <1>9, <2>1, <2>2 DEF Init, TypeOK
<1>12. AllSound(t)
  BY <1>4, <1>5, <1>8 DEF AllSound
<1>13. Apart(mem, disk, InUse(mounted))
  <2>1. \A i \in Files : \A k \in Index : t[i].ptr[k] = 0
    BY <1>1, <1>8 DEF Files
  <2>2. InUse(mounted) = Files
    BY DEF Init, InUse
  <2>3. QED  BY <1>6, <1>9, <2>1, <2>2 DEF Apart, HasPtr
<1>14. Control(obj, mounted) /\ Kept(obj, mem.table) /\ Numbered(obj, mem.imap, mounted, deleted)
  BY <1>10 DEF Init, Control, Kept, Numbered
<1>15. QED  BY <1>6, <1>9, <1>11, <1>12, <1>13, <1>14 DEF Inv

----------------------------------------------------------------------------
(* The operations on a disk inode and on the objects.                      *)

\* The invariant's types, field by field.
LEMMA InvTypes ==
  ASSUME Inv
  PROVE  /\ mem \in Contents /\ disk \in Contents /\ dirty \in Marks
         /\ mem = [imap |-> mem.imap, bmap |-> mem.bmap, table |-> mem.table]
         /\ disk = [imap |-> disk.imap, bmap |-> disk.bmap, table |-> disk.table]
         /\ dirty = [imap |-> dirty.imap, bmap |-> dirty.bmap, table |-> dirty.table]
         /\ mem.imap \subseteq Inos /\ disk.imap \subseteq Inos
         /\ mem.bmap \subseteq Blocks /\ disk.bmap \subseteq Blocks
         /\ mem.bmap \subseteq disk.bmap
         /\ mem.table \in [Inos -> DiskInode] /\ disk.table \in [Inos -> DiskInode]
         /\ dirty.bmap \in BOOLEAN /\ dirty.imap \in BOOLEAN /\ dirty.table \subseteq Inos
         /\ obj \in [Objs -> Object]
         /\ mounted \in BOOLEAN /\ deleted \in BOOLEAN /\ stopped \in BOOLEAN
  BY DEF Inv, TypeOK, Contents, Marks, Apart

\* Buffers, or marks, with one part replaced.
LEMMA PartReplaced ==
  ASSUME NEW c, c \in Contents \/ c \in Marks, NEW x
  PROVE  /\ [c EXCEPT !.imap = x] = [imap |-> x, bmap |-> c.bmap, table |-> c.table]
         /\ [c EXCEPT !.bmap = x] = [imap |-> c.imap, bmap |-> x, table |-> c.table]
         /\ [c EXCEPT !.table = x] = [imap |-> c.imap, bmap |-> c.bmap, table |-> x]
<1>1. CASE c \in Contents
  BY <1>1 DEF Contents
<1>2. CASE c \in Marks
  BY <1>2 DEF Marks
<1>3. QED  BY <1>1, <1>2

\* Taking a number, and its marks.
LEMMA TakeNumberIs ==
  ASSUME Inv, NEW i \in Inos
  PROVE  /\ TakeNumber(i) = [imap |-> mem.imap \cup {i}, bmap |-> mem.bmap, table |-> mem.table]
         /\ TakeNumber(i) \in Contents
         /\ NumberMarked = [imap |-> TRUE, bmap |-> dirty.bmap, table |-> dirty.table]
         /\ NumberMarked \in Marks
<1>1. /\ TakeNumber(i) = [imap |-> mem.imap \cup {i}, bmap |-> mem.bmap, table |-> mem.table]
      /\ NumberMarked = [imap |-> TRUE, bmap |-> dirty.bmap, table |-> dirty.table]
  BY InvTypes, PartReplaced, Zenon DEF TakeNumber, NumberMarked
<1>2. TakeNumber(i) \in Contents
  BY <1>1, InvTypes DEF Contents
<1>3. NumberMarked \in Marks
  BY <1>1, InvTypes DEF Marks
<1>4. QED  BY <1>1, <1>2, <1>3

\* A disk inode is zeroed, and the next one loses its count at most.
LEMMA ZeroedFacts ==
  ASSUME NEW t \in [Inos -> DiskInode], AllSound(t), NEW i \in Inos, NEW r,
         r = ZeroDiskInode(t, i)
  PROVE  /\ r \in [Inos -> DiskInode] /\ AllSound(r)
         /\ \A k \in Index : r[i].ptr[k] = 0
         /\ \A j \in Inos : j # i => r[j].ptr = t[j].ptr /\ r[j].size = t[j].size
<1>1. \A j \in Inos : r[j] = IF j = i THEN Zeroed
                             ELSE IF j = i + 1 /\ i \in SamePage THEN [t[j] EXCEPT !.blocks = 0]
                             ELSE t[j]
  BY DEF ZeroDiskInode
<1>2. Zeroed \in DiskInode /\ Zeroed.size = 0 /\ Zeroed.blocks = 0 /\ \A k \in Index : Zeroed.ptr[k] = 0
  BY SizesAndBlocks DEF Zeroed, DiskInode
<1>3. Sound(Zeroed)
  BY <1>2, EmptyIsSound
<1>4. ASSUME NEW j \in Inos, j # i
      PROVE  Sound(r[j]) /\ r[j].ptr = t[j].ptr /\ r[j].size = t[j].size
  <2>1. Sound(t[j])
    BY DEF AllSound
  <2> DEFINE u == [t[j] EXCEPT !.blocks = 0]
  <2>2. Sound(u) /\ u.size = t[j].size /\ u.ptr = t[j].ptr
    BY <2>1, UncountedIsSound
  <2>3. r[j] = u \/ r[j] = t[j]
    BY <1>1, <1>4
  <2> HIDE DEF u
  <2>4. QED  BY <2>1, <2>2, <2>3
<1>5. AllSound(r)
  <2>1. \A j \in Inos : Sound(r[j])
    BY <1>1, <1>3, <1>4
  <2>2. QED  BY <2>1 DEF AllSound
<1>6. r \in [Inos -> DiskInode]
  <2>1. r = [j \in Inos |-> r[j]]
    BY DEF ZeroDiskInode
  <2>2. \A j \in Inos : r[j] \in DiskInode
    BY <1>5 DEF AllSound, Sound
  <2>3. QED  BY <2>1, <2>2
<1>7. QED  BY <1>1, <1>2, <1>4, <1>5, <1>6

\* When an inode is made or unmade, its bytes are forgotten and nothing else.
LEMMA ForgetFacts ==
  ASSUME NEW os \in [Objs -> Object], NEW i, NEW r, r = Forget(os, i)
  PROVE  /\ r \in [Objs -> Object]
         /\ \A q \in Objs : /\ r[q].ino = os[q].ino /\ r[q].linked = os[q].linked
                            /\ os[q].ino = i => r[q].wrote = {}
                            /\ os[q].ino # i => r[q] = os[q]
<1>1. \A q \in Objs : os[q] \in Object
  OBVIOUS
<1>2. \A q \in Objs : r[q] = IF os[q].ino = i THEN [os[q] EXCEPT !.wrote = {}] ELSE os[q]
  BY DEF Forget
<1>3. ASSUME NEW q \in Objs
      PROVE  LET e == [os[q] EXCEPT !.wrote = {}] IN
             e \in Object /\ e.ino = os[q].ino /\ e.linked = os[q].linked /\ e.wrote = {}
  BY <1>1 DEF Object
<1>4. \A q \in Objs : r[q] \in Object
  BY <1>1, <1>2, <1>3
<1>5. r \in [Objs -> Object]
  BY <1>4 DEF Forget
<1>6. QED  BY <1>2, <1>3, <1>5

\* What the invariant needs of the buffers and the device after a step.
LEMMA BuffersStep ==
  ASSUME Inv, NEW m \in Contents, AllSound(m.table), NEW S, Leaves(m, disk, S)
  PROVE  /\ mem' \in Contents /\ disk' \in Contents /\ dirty' \in Marks
         /\ AllSound(mem.table)' /\ AllSound(disk.table)'
<1>1. \A j \in Inos : Sound(disk'.table[j])
  <2>1. \A j \in Inos : disk'.table[j] = m.table[j] \/ disk'.table[j] = disk.table[j]
    BY DEF Leaves
  <2>2. QED  BY <2>1 DEF Inv, AllSound
<1>2. QED  BY <1>1 DEF Leaves, AllSound

\* Inode i is zeroed in the buffer: what is written there keeps apart.
LEMMA ZeroedApart ==
  ASSUME Inv, NEW i \in Inos, NEW m, NEW S, Leaves(m, disk, S), m.bmap = mem.bmap,
         \A k \in Index : m.table[i].ptr[k] = 0,
         \A j \in Inos : j # i => m.table[j].ptr = mem.table[j].ptr,
         mounted
  PROVE  Apart(mem', disk', Inos)
<1>1. Apart(mem, disk, Inos)
  BY DEF Inv, InUse
<1>2. mem' = m /\ m.bmap \subseteq disk'.bmap
  BY DEF Leaves
<1>3. ASSUME NEW j \in Inos, NEW k \in Index, NEW b, HasPtr(m, disk', j, k, b)
      PROVE  HasPtr(mem, disk, j, k, b) /\ b \in m.bmap
  <2>1. HasPtr(mem, disk, j, k, b)
    BY <1>3 DEF HasPtr, Leaves
  <2>2. QED  BY <1>1, <2>1 DEF Apart
<1>4. QED  BY <1>1, <1>2, <1>3, FewerPointers
----------------------------------------------------------------------------
(* create.                                                                 *)

\* The number create finds is free.
LEMMA FoundNumber ==
  ASSUME NEW im, NEW i \in FindFreeInode(im)
  PROVE  i \in Inos \ im
  BY DEF FindFreeInode

\* naive_create
LEMMA CreateInv == ASSUME Inv, NEW o \in Objs, Create(o) PROVE Inv'
<1> USE InvTypes
<1>1. PICK i \in FindFreeInode(mem.imap) :
        /\ Leave([TakeNumber(i) EXCEPT !.table = ZeroDiskInode(@, i)],
                 [NumberMarked EXCEPT !.table = @ \cup {i}])
        /\ obj' = [Forget(obj, i) EXCEPT ![o] = [ino |-> i, linked |-> TRUE, wrote |-> {}]]
  BY DEF Create
<1>2. /\ i \in Inos /\ i \notin mem.imap /\ mounted /\ obj[o].ino = None
      /\ UNCHANGED <<mounted, deleted, stopped>>
  BY FoundNumber DEF Create
<1> DEFINE t == ZeroDiskInode(mem.table, i)
           m == [imap |-> mem.imap \cup {i}, bmap |-> mem.bmap, table |-> t]
           d == [imap |-> TRUE, bmap |-> dirty.bmap, table |-> dirty.table \cup {i}]
           f == Forget(obj, i)
           new == [ino |-> i, linked |-> TRUE, wrote |-> {}]
<1>3. /\ TakeNumber(i) = [imap |-> mem.imap \cup {i}, bmap |-> mem.bmap, table |-> mem.table]
      /\ TakeNumber(i) \in Contents /\ NumberMarked \in Marks
      /\ NumberMarked = [imap |-> TRUE, bmap |-> dirty.bmap, table |-> dirty.table]
  BY <1>2, TakeNumberIs
<1>4. [TakeNumber(i) EXCEPT !.table = ZeroDiskInode(@, i)] = m
  <2>1. /\ TakeNumber(i).imap = mem.imap \cup {i} /\ TakeNumber(i).bmap = mem.bmap
        /\ TakeNumber(i).table = mem.table
    BY <1>3
  <2>2. [TakeNumber(i) EXCEPT !.table = ZeroDiskInode(@, i)]
          = [imap |-> TakeNumber(i).imap, bmap |-> TakeNumber(i).bmap,
             table |-> ZeroDiskInode(TakeNumber(i).table, i)]
    BY <1>3, PartReplaced, Zenon
  <2>3. QED  BY <2>1, <2>2, Zenon
<1>5. [NumberMarked EXCEPT !.table = @ \cup {i}] = d
  <2>1. /\ NumberMarked.imap = TRUE /\ NumberMarked.bmap = dirty.bmap
        /\ NumberMarked.table = dirty.table
    BY <1>3
  <2>2. [NumberMarked EXCEPT !.table = @ \cup {i}]
          = [imap |-> NumberMarked.imap, bmap |-> NumberMarked.bmap,
             table |-> NumberMarked.table \cup {i}]
    <3>1. NumberMarked \in Marks
      BY <1>3
    <3>2. QED  BY ONLY <3>1, PartReplaced, Zenon
  <2>3. QED  BY <2>1, <2>2, Zenon
<1>6. /\ t \in [Inos -> DiskInode] /\ AllSound(t) /\ \A k \in Index : t[i].ptr[k] = 0
      /\ \A j \in Inos : j # i => t[j].ptr = mem.table[j].ptr /\ t[j].size = mem.table[j].size
  BY <1>2, ZeroedFacts DEF Inv
<1>7. /\ f \in [Objs -> Object]
      /\ \A q \in Objs : /\ f[q].ino = obj[q].ino /\ f[q].linked = obj[q].linked
                         /\ obj[q].ino = i => f[q].wrote = {}
                         /\ obj[q].ino # i => f[q] = obj[q]
  BY ForgetFacts
<1> HIDE DEF t, f
<1>8. m \in Contents /\ d \in Marks /\ m.bmap = mem.bmap /\ m.table = t /\ m.imap = mem.imap \cup {i}
  BY <1>2, <1>6 DEF Contents, Marks
<1>9. Leave(m, d)
  BY <1>1, <1>4, <1>5
<1> HIDE DEF m, d
<1>10. Leaves(m, disk, d.table)
  BY <1>8, <1>9, LeaveFacts
<1>11. mem' = m
  BY <1>10 DEF Leaves
<1>12. obj' = [f EXCEPT ![o] = new]
  BY <1>1 DEF f
<1>13. \A q \in Objs : obj'[q] = IF q = o THEN new ELSE f[q]
  BY <1>7, <1>12
<1>14. TypeOK' /\ AllSound(mem.table)' /\ AllSound(disk.table)'
  <2>1. /\ mem' \in Contents /\ disk' \in Contents /\ dirty' \in Marks
        /\ AllSound(mem.table)' /\ AllSound(disk.table)'
    BY <1>6, <1>8, <1>10, BuffersStep
  <2>2. new \in Object
    BY <1>2 DEF Object
  <2>3. obj' \in [Objs -> Object]
    BY <1>7, <1>12, <2>2
  <2>4. QED  BY <1>2, <2>1, <2>3 DEF TypeOK
<1>15. Control(obj, mounted)'
  <2>1. new.ino # None
    BY <1>2, SizesAndBlocks
  <2>2. QED  BY <1>2, <1>7, <1>13, <2>1 DEF Inv, Control
<1>16. Apart(mem', disk', InUse(mounted'))
  BY <1>2, <1>6, <1>8, <1>10, ZeroedApart DEF InUse
<1>17. Kept(obj', mem'.table)
  <2> SUFFICES ASSUME NEW q \in Objs, obj'[q].ino # None, NEW b \in obj'[q].wrote
               PROVE  Holds(t[obj'[q].ino], b)
    BY <1>8, <1>11 DEF Kept
  <2>1. q # o /\ obj[q].ino # i /\ obj'[q] = obj[q]
    BY <1>7, <1>13
  <2>2. obj[q].ino \in Inos
    BY <2>1 DEF Object
  <2>3. Holds(mem.table[obj[q].ino], b)
    BY <2>1 DEF Inv, Kept
  <2>4. QED  BY <1>6, <2>1, <2>2, <2>3 DEF Holds
<1>18. Numbered(obj', mem'.imap, mounted', deleted')
  <2> SUFFICES ASSUME ~ deleted
               PROVE  /\ RootBit \in mem'.imap
                      /\ \A q \in Objs : obj'[q].ino # None =>
                           /\ obj'[q].ino # RootBit /\ obj'[q].ino \in mem'.imap
                           /\ \A r \in Objs : obj'[r].ino = obj'[q].ino => r = q
    BY <1>2 DEF Numbered
  <2>1. RootBit \in mem.imap /\ i # RootBit /\ i # None
    BY <1>2, SizesAndBlocks DEF Inv, Numbered
  <2>2. \A q \in Objs : obj[q].ino # None =>
           /\ obj[q].ino # RootBit /\ obj[q].ino \in mem.imap
           /\ \A r \in Objs : obj[r].ino = obj[q].ino => r = q
    BY DEF Inv, Numbered
  <2>3. \A q \in Objs : obj'[q].ino = IF q = o THEN i ELSE obj[q].ino
    BY <1>7, <1>13
  <2>4. mem'.imap = mem.imap \cup {i}
    BY <1>8, <1>11
  <2>5. QED  BY <1>2, <2>1, <2>2, <2>3, <2>4
<1>19. QED  BY <1>14, <1>15, <1>16, <1>17, <1>18 DEF Inv

\* Only the buffers changed, not a table's pointer or size, nor a bit of a
\* block or of the inodes.
LEMMA SameBuffers ==
  ASSUME Inv, NEW S, Leaves(mem, disk, S), UNCHANGED <<obj, mounted, deleted, stopped>>, mounted
  PROVE  Inv'
<1>1. mem' = mem /\ mem.bmap \subseteq disk'.bmap
  BY DEF Leaves
<1>2. AllSound(mem.table)
  BY DEF Inv
<1>3. TypeOK' /\ AllSound(mem.table)' /\ AllSound(disk.table)'
  BY <1>2, InvTypes, BuffersStep DEF TypeOK, Inv
<1>4. Apart(mem', disk', InUse(mounted'))
  <2>1. Apart(mem, disk, Inos) /\ InUse(mounted') = Inos
    BY DEF Inv, InUse
  <2>2. ASSUME NEW j \in Inos, NEW k \in Index, NEW b, HasPtr(mem, disk', j, k, b)
        PROVE  HasPtr(mem, disk, j, k, b) /\ b \in mem.bmap
    <3>1. HasPtr(mem, disk, j, k, b)
      BY <2>2 DEF HasPtr, Leaves
    <3>2. QED  BY <2>1, <3>1 DEF Apart
  <2>3. QED  BY <1>1, <2>1, <2>2, FewerPointers
<1>5. QED  BY <1>1, <1>3, <1>4 DEF Inv

\* naive_create, failing
LEMMA CreateFailsInv == ASSUME Inv, CreateFails PROVE Inv'
<1> USE InvTypes
<1>1. PICK i \in FindFreeInode(mem.imap) :
        \/ /\ LeaveAfter(TakeNumber(i), NumberMarked, mem, Clean)
           /\ UNCHANGED obj
        \/ /\ LET table == ZeroDiskInode(mem.table, i) IN
              LeaveAfter([TakeNumber(i) EXCEPT !.table = table], NumberMarked,
                         [mem EXCEPT !.table = table], Clean)
           /\ obj' = Forget(obj, i)
  BY DEF CreateFails
<1>2. /\ i \in Inos /\ i \notin mem.imap /\ mounted
      /\ UNCHANGED <<mounted, deleted, stopped>>
  BY FoundNumber DEF CreateFails
<1>3. /\ TakeNumber(i) = [imap |-> mem.imap \cup {i}, bmap |-> mem.bmap, table |-> mem.table]
      /\ TakeNumber(i) \in Contents /\ NumberMarked \in Marks
  BY <1>2, TakeNumberIs
<1>4. Clean \in Marks
  BY DEF Clean, Marks
<1>5. CASE LeaveAfter(TakeNumber(i), NumberMarked, mem, Clean) /\ UNCHANGED obj
  <2> DEFINE m1 == TakeNumber(i)
  <2>1. m1.bmap = mem.bmap /\ m1.table = mem.table
    BY <1>3
  <2>2. m1 \in Contents /\ LeaveAfter(m1, NumberMarked, mem, Clean)
    BY <1>3, <1>5
  <2> HIDE DEF m1
  <2>3. Leaves(mem, disk, Clean.table)
    BY <1>3, <1>4, <2>1, <2>2, LeaveAfterFacts
  <2>4. QED  BY <1>2, <1>5, <2>3, SameBuffers
<1>6. CASE /\ LET table == ZeroDiskInode(mem.table, i) IN
              LeaveAfter([TakeNumber(i) EXCEPT !.table = table], NumberMarked,
                         [mem EXCEPT !.table = table], Clean)
           /\ obj' = Forget(obj, i)
  <2> DEFINE t == ZeroDiskInode(mem.table, i)
             m1 == [TakeNumber(i) EXCEPT !.table = t]
             m2 == [mem EXCEPT !.table = t]
             f == Forget(obj, i)
  <2>1. /\ t \in [Inos -> DiskInode] /\ AllSound(t) /\ \A k \in Index : t[i].ptr[k] = 0
        /\ \A j \in Inos : j # i => t[j].ptr = mem.table[j].ptr /\ t[j].size = mem.table[j].size
    BY <1>2, ZeroedFacts DEF Inv
  <2>2. /\ f \in [Objs -> Object]
        /\ \A q \in Objs : /\ f[q].ino = obj[q].ino /\ f[q].linked = obj[q].linked
                           /\ obj[q].ino = i => f[q].wrote = {}
                           /\ obj[q].ino # i => f[q] = obj[q]
    BY ForgetFacts
  <2>3. LeaveAfter(m1, NumberMarked, m2, Clean) /\ obj' = f
    BY <1>6
  <2> HIDE DEF t, f
  <2>4. m2 = [imap |-> mem.imap, bmap |-> mem.bmap, table |-> t]
    BY PartReplaced, Zenon
  <2>5. m1 = [imap |-> TakeNumber(i).imap, bmap |-> TakeNumber(i).bmap, table |-> t]
    BY <1>3, PartReplaced, Zenon
  <2>6. TakeNumber(i).imap = mem.imap \cup {i} /\ TakeNumber(i).bmap = mem.bmap
    BY <1>3
  <2> HIDE DEF m1, m2
  <2>7. /\ m2 \in Contents /\ m2.bmap = mem.bmap /\ m2.table = t /\ m2.imap = mem.imap
    BY <2>1, <2>4 DEF Contents
  <2>8. /\ m1 \in Contents /\ m1.bmap = mem.bmap /\ m1.table = t
    BY <1>2, <2>1, <2>5, <2>6 DEF Contents
  <2>9. Leaves(m2, disk, Clean.table)
    BY <1>3, <1>4, <2>3, <2>7, <2>8, LeaveAfterFacts
  <2>10. mem' = m2
    BY <2>9 DEF Leaves
  <2>11. TypeOK' /\ AllSound(mem.table)' /\ AllSound(disk.table)'
    <3>1. /\ mem' \in Contents /\ disk' \in Contents /\ dirty' \in Marks
          /\ AllSound(mem.table)' /\ AllSound(disk.table)'
      BY <2>1, <2>7, <2>9, BuffersStep
    <3>2. QED  BY <1>2, <2>2, <2>3, <3>1 DEF TypeOK
  <2>12. Control(obj, mounted)' /\ Numbered(obj', mem'.imap, mounted', deleted')
    BY <1>2, <2>2, <2>3, <2>7, <2>10 DEF Inv, Control, Numbered
  <2>13. Apart(mem', disk', InUse(mounted'))
    BY <1>2, <2>1, <2>7, <2>9, ZeroedApart DEF InUse
  <2>14. Kept(obj', mem'.table)
    <3> SUFFICES ASSUME NEW q \in Objs, obj'[q].ino # None, NEW b \in obj'[q].wrote
                 PROVE  Holds(t[obj'[q].ino], b)
      BY <2>7, <2>10 DEF Kept
    <3>1. obj[q].ino # i /\ obj'[q] = obj[q]
      BY <2>2, <2>3
    <3>2. obj[q].ino \in Inos
      BY <3>1 DEF Object
    <3>3. Holds(mem.table[obj[q].ino], b)
      BY <3>1 DEF Inv, Kept
    <3>4. QED  BY <2>1, <3>1, <3>2, <3>3 DEF Holds
  <2>15. QED  BY <2>11, <2>12, <2>13, <2>14 DEF Inv
<1>7. QED  BY <1>1, <1>5, <1>6

----------------------------------------------------------------------------
(* unlink and the last close.                                              *)

\* The disk inode unlink leaves.
LEMMA UnlinkedInode ==
  ASSUME NEW n \in DiskInode
  PROVE  LET u == [FreePointers(n) EXCEPT !.size = 0, !.blocks = 0] IN
         /\ Sound(u) /\ \A k \in Index : u.ptr[k] = 0
<1> DEFINE u == [FreePointers(n) EXCEPT !.size = 0, !.blocks = 0]
           p == [k \in Index |-> 0]
           v == [size |-> n.size, blocks |-> 0, ptr |-> p]
<1>1. [n EXCEPT !.blocks = 0] = [size |-> n.size, blocks |-> 0, ptr |-> n.ptr]
  BY DEF DiskInode
<1>2. [[n EXCEPT !.blocks = 0] EXCEPT !.ptr = p] = v
  <2> DEFINE w == [n EXCEPT !.blocks = 0]
  <2>1. w = [size |-> n.size, blocks |-> 0, ptr |-> n.ptr]
    BY <1>1
  <2> HIDE DEF w, p
  <2>2. [w EXCEPT !.ptr = p] = [size |-> n.size, blocks |-> 0, ptr |-> p]
    BY <2>1
  <2>3. QED  BY <2>2, Zenon DEF w
<1>3. FreePointers(n) = v
  BY <1>2, Zenon DEF FreePointers
<1>4. [v EXCEPT !.size = 0] = [size |-> 0, blocks |-> 0, ptr |-> p]
  OBVIOUS
<1>5. [[v EXCEPT !.size = 0] EXCEPT !.blocks = 0] = [size |-> 0, blocks |-> 0, ptr |-> p]
  BY <1>4
<1>6. u = [size |-> 0, blocks |-> 0, ptr |-> p]
  BY <1>3, <1>5, Zenon
<1> HIDE DEF u, v
<1>7. u \in DiskInode /\ u.size = 0 /\ u.blocks = 0 /\ \A k \in Index : u.ptr[k] = 0
  BY <1>6, SizesAndBlocks DEF DiskInode
<1>8. QED  BY <1>7, EmptyIsSound DEF u

\* naive_unlink
LEMMA UnlinkInv == ASSUME Inv, NEW o \in Objs, Unlink(o) PROVE Inv'
<1> USE InvTypes
<1> DEFINE i == obj[o].ino
           n == mem.table[i]
           u == [FreePointers(n) EXCEPT !.size = 0, !.blocks = 0]
           t == [mem.table EXCEPT ![i] = u]
           m == [imap  |-> mem.imap \ ClearedBit(i), bmap |-> mem.bmap \ Range(n.ptr), table |-> t]
           d == [imap |-> TRUE, bmap |-> TRUE, table |-> dirty.table \cup {i}]
           f == Forget(obj, i)
<1>1. /\ Leave(m, d) /\ obj' = [f EXCEPT ![o].linked = FALSE]
      /\ mounted /\ deleted' = TRUE /\ UNCHANGED <<mounted, stopped>> /\ obj[o].linked
  BY DEF Unlink
<1>2. obj[o] \in Object /\ i \in Inos
  BY <1>1 DEF Inv, Control, Object
<1>3. n \in DiskInode /\ n.ptr \in [Index -> Blocks \cup {0}]
  BY <1>2 DEF DiskInode
<1>4. Range(n.ptr) = {n.ptr[k] : k \in Index}
  BY <1>3 DEF Range
<1>5. Sound(u) /\ u \in DiskInode /\ \A k \in Index : u.ptr[k] = 0
  BY <1>3, UnlinkedInode DEF Sound
<1>6. /\ f \in [Objs -> Object]
      /\ \A q \in Objs : /\ f[q].ino = i => f[q].wrote = {}
                         /\ f[q].ino = obj[q].ino /\ f[q].linked = obj[q].linked
                         /\ obj[q].ino # i => f[q] = obj[q]
  BY ForgetFacts
<1> HIDE DEF u, f
<1>7. t \in [Inos -> DiskInode] /\ \A j \in Inos : t[j] = IF j = i THEN u ELSE mem.table[j]
  BY <1>2, <1>5
<1>8. AllSound(t)
  BY <1>5, <1>7 DEF AllSound, Inv
<1> HIDE DEF t
<1>9. /\ m \in Contents /\ d \in Marks /\ m.table = t /\ d.bmap = TRUE /\ i \in d.table
      /\ m.bmap = mem.bmap \ Range(n.ptr)
  BY <1>2, <1>7 DEF Contents, Marks
<1> HIDE DEF m, d, n
<1>10. Leaves(m, disk, d.table)
  BY <1>1, <1>9, LeaveFacts
<1>11. mem' = m /\ disk'.table[i] = u /\ m.bmap \subseteq disk'.bmap
  BY <1>2, <1>7, <1>9, <1>10 DEF Leaves
<1>12. \A q \in Objs : /\ obj'[q] \in Object /\ obj'[q].ino = obj[q].ino
                       /\ obj'[q].wrote = f[q].wrote /\ (obj'[q].linked => obj[q].linked)
  <2>1. ASSUME NEW e \in Object
        PROVE  LET e2 == [e EXCEPT !.linked = FALSE] IN
               e2 \in Object /\ e2.ino = e.ino /\ e2.wrote = e.wrote /\ e2.linked = FALSE
    BY DEF Object
  <2> DEFINE e == [f[o] EXCEPT !.linked = FALSE]
  <2>2. obj' = [f EXCEPT ![o] = e]
    BY <1>1, Zenon
  <2>3. e \in Object /\ e.ino = f[o].ino /\ e.wrote = f[o].wrote /\ e.linked = FALSE
    BY <1>6, <2>1
  <2> HIDE DEF e
  <2>4. \A q \in Objs : obj'[q] = IF q = o THEN e ELSE f[q]
    BY <1>6, <2>2
  <2>5. QED  BY <1>6, <2>3, <2>4
<1>13. TypeOK' /\ AllSound(mem.table)' /\ AllSound(disk.table)'
  <2>1. /\ mem' \in Contents /\ disk' \in Contents /\ dirty' \in Marks
        /\ AllSound(mem.table)' /\ AllSound(disk.table)'
    BY <1>8, <1>9, <1>10, BuffersStep
  <2>2. obj' \in [Objs -> Object]
    <3>1. obj' = [q \in Objs |-> obj'[q]]
      BY <1>1, <1>6
    <3>2. QED  BY <1>12, <3>1
  <2>3. QED  BY <1>1, <2>1, <2>2 DEF TypeOK
<1>14. Control(obj, mounted)' /\ Numbered(obj', mem'.imap, mounted', deleted')
  BY <1>1, <1>12 DEF Inv, Control, Numbered
<1>15. Apart(mem', disk', InUse(mounted'))
  <2>1. Apart(mem, disk, Inos) /\ InUse(mounted') = Inos
    BY <1>1 DEF Inv, InUse
  <2>2. ASSUME NEW j \in Inos, NEW k \in Index, NEW b, HasPtr(m, disk', j, k, b)
        PROVE  HasPtr(mem, disk, j, k, b) /\ b \in m.bmap
    <3>1. j # i
      BY <1>5, <1>7, <1>9, <1>11, <2>2 DEF HasPtr
    <3>2. HasPtr(mem, disk, j, k, b)
      BY <1>7, <1>9, <1>10, <2>2, <3>1 DEF HasPtr, Leaves
    <3>3. b \in mem.bmap /\ b # 0
      BY <2>1, <3>2 DEF Apart, HasPtr
    <3>4. ASSUME NEW l \in Index, n.ptr[l] = b PROVE FALSE
      <4>1. HasPtr(mem, disk, i, l, b)
        BY <3>3, <3>4 DEF HasPtr, n
      <4>2. QED  BY <1>2, <2>1, <3>1, <3>2, <4>1 DEF Apart
    <3>5. QED  BY <1>4, <1>9, <3>2, <3>3, <3>4
  <2>3. QED  BY <1>11, <2>1, <2>2, FewerPointers
<1>16. Kept(obj', mem'.table)
  <2> SUFFICES ASSUME NEW q \in Objs, obj'[q].ino # None, NEW b \in obj'[q].wrote
               PROVE  Holds(t[obj'[q].ino], b)
    BY <1>9, <1>11 DEF Kept
  <2>1. obj[q].ino # i /\ b \in obj[q].wrote /\ obj'[q].ino = obj[q].ino
    BY <1>6, <1>12
  <2>2. obj[q].ino \in Inos
    BY <2>1 DEF Object
  <2>3. Holds(mem.table[obj[q].ino], b)
    BY <2>1 DEF Inv, Kept
  <2>4. QED  BY <1>7, <2>1, <2>2, <2>3 DEF Holds
<1>17. QED  BY <1>13, <1>14, <1>15, <1>16 DEF Inv

\* The last close.
LEMMA CloseInv == ASSUME Inv, NEW o \in Objs, Close(o) PROVE Inv'
<1> USE InvTypes
<1>1. /\ obj' = [obj EXCEPT ![o] = Unused]
      /\ UNCHANGED <<mem, disk, dirty, mounted, deleted, stopped>>
  BY DEF Close
<1>2. \A q \in Objs : obj'[q] = IF q = o THEN Unused ELSE obj[q]
  BY <1>1
<1>3. Unused \in Object /\ Unused.ino = None /\ ~ Unused.linked
  BY DEF Unused, Object
<1>4. TypeOK'
  BY <1>1, <1>3 DEF Inv, TypeOK
<1>5. Control(obj, mounted)' /\ Kept(obj', mem'.table) /\ Numbered(obj', mem'.imap, mounted', deleted')
  <2>1. Control(obj, mounted)'
    BY <1>1, <1>2, <1>3 DEF Inv, Control
  <2>2. Kept(obj', mem'.table)
    BY <1>1, <1>2, <1>3 DEF Inv, Kept
  <2>3. \A q \in Objs : obj'[q].ino # None => obj'[q].ino = obj[q].ino /\ q # o
    BY <1>2, <1>3
  <2>4. Numbered(obj', mem'.imap, mounted', deleted')
    BY <1>1, <2>3 DEF Inv, Numbered
  <2>5. QED  BY <2>1, <2>2, <2>4
<1>6. QED  BY <1>1, <1>4, <1>5 DEF Inv

----------------------------------------------------------------------------
(* Write.                                                                  *)

\* Disk inode n becomes n2 and the block bitmap m becomes m2: the blocks that
\* n2 has and n had not were free and are marked.
Gains(n, n2, m, m2) ==
  /\ Sound(n2) /\ n2.size >= n.size /\ m \subseteq m2 /\ m2 \subseteq Blocks
  /\ \A k \in Index : n2.ptr[k] = n.ptr[k] \/ (n.ptr[k] = 0 /\ n2.ptr[k] \in m2 \ m)
  /\ \A k, l \in Index :
        n.ptr[k] = 0 /\ n.ptr[l] = 0 /\ n2.ptr[k] = n2.ptr[l] /\ n2.ptr[k] # 0 => k = l

\* The buffers with one disk inode and the block bitmap replaced.
LEMMA WithIs ==
  ASSUME Inv, NEW i \in Inos, NEW n \in DiskInode, NEW m \in SUBSET Blocks, NEW c, c = With(i, n, m)
  PROVE  /\ c \in Contents /\ c.imap = mem.imap /\ c.bmap = m
         /\ \A j \in Inos : c.table[j] = IF j = i THEN n ELSE mem.table[j]
<1> DEFINE a == [mem EXCEPT !.bmap = m]
           t == [mem.table EXCEPT ![i] = n]
<1>1. a = [imap |-> mem.imap, bmap |-> m, table |-> mem.table]
  BY InvTypes, PartReplaced, Zenon
<1>2. c = [a EXCEPT !.table[i] = n]
  BY DEF With
<1> HIDE DEF a
<1>3. c = [imap |-> mem.imap, bmap |-> m, table |-> t]
  BY <1>1, <1>2
<1>4. t \in [Inos -> DiskInode] /\ \A j \in Inos : t[j] = IF j = i THEN n ELSE mem.table[j]
  BY InvTypes
<1> HIDE DEF t
<1>5. mem.imap \subseteq Inos
  BY InvTypes
<1>6. QED  BY <1>3, <1>4, <1>5 DEF Contents

\* A write promises nothing, or the bytes W.
Promises(o, W) == obj' = obj \/ obj' = [obj EXCEPT ![o].wrote = @ \cup W]

\* A write keeps the invariant, also for the other files that share the
\* inode's number.
LEMMA WriteStep ==
  ASSUME Inv, mounted, NEW o \in Objs, obj[o].ino # None, NEW i, i = obj[o].ino,
         NEW n2, NEW m2, Gains(mem.table[i], n2, mem.bmap, m2),
         NEW S, i \in S, Leaves(With(i, n2, m2), disk, S),
         NEW W \in SUBSET (0 .. MaxFileSize - 1), \A b \in W : Holds(n2, b),
         Promises(o, W),
         UNCHANGED <<mounted, deleted, stopped>>
  PROVE  Inv'
<1> USE InvTypes
<1> DEFINE n == mem.table[i]
           c == With(i, n2, m2)
<1>1. i \in Inos /\ n \in DiskInode
  BY DEF Object
<1>2. n2 \in DiskInode /\ Sound(n2) /\ m2 \in SUBSET Blocks
  BY DEF Gains, Sound
<1>3. /\ c \in Contents /\ c.imap = mem.imap /\ c.bmap = m2
      /\ \A j \in Inos : c.table[j] = IF j = i THEN n2 ELSE mem.table[j]
  BY <1>1, <1>2, WithIs
<1>4. Leaves(c, disk, S)
  OBVIOUS
<1> HIDE DEF c
<1>5. mem' = c
  BY <1>4 DEF Leaves
<1>6. \A q \in Objs : /\ obj'[q] \in Object /\ obj'[q].ino = obj[q].ino
                      /\ obj'[q].linked = obj[q].linked
                      /\ obj'[q].wrote \subseteq obj[q].wrote \cup {b \in W : q = o}
  <2>1. CASE obj' = obj
    BY <2>1
  <2>2. CASE obj' = [obj EXCEPT ![o].wrote = @ \cup W]
    <3> DEFINE e == [obj[o] EXCEPT !.wrote = @ \cup W]
    <3>1. obj' = [obj EXCEPT ![o] = e]
      BY <2>2, Zenon
    <3>2. obj[o] \in Object
      OBVIOUS
    <3>3. /\ e.ino = obj[o].ino /\ e.linked = obj[o].linked /\ e.wrote = obj[o].wrote \cup W
          /\ e \in Object
      BY <3>2 DEF Object
    <3> HIDE DEF e
    <3>4. \A q \in Objs : obj'[q] = IF q = o THEN e ELSE obj[q]
      BY <3>1
    <3>5. QED  BY <3>2, <3>3, <3>4
  <2>3. QED  BY <2>1, <2>2 DEF Promises
<1>7. obj' = [q \in Objs |-> obj'[q]]
  <2>1. CASE obj' = obj
    BY <2>1
  <2>2. CASE obj' = [obj EXCEPT ![o].wrote = @ \cup W]
    BY <2>2
  <2>3. QED  BY <2>1, <2>2 DEF Promises
<1>8. TypeOK' /\ AllSound(mem.table)' /\ AllSound(disk.table)'
  <2>1. AllSound(c.table)
    BY <1>2, <1>3 DEF Inv, AllSound
  <2>2. /\ mem' \in Contents /\ disk' \in Contents /\ dirty' \in Marks
        /\ AllSound(mem.table)' /\ AllSound(disk.table)'
    BY <1>3, <1>4, <2>1, BuffersStep
  <2>3. obj' \in [Objs -> Object]
    BY <1>6, <1>7
  <2>4. QED  BY <2>2, <2>3 DEF TypeOK
<1>9. Control(obj, mounted)' /\ Numbered(obj', mem'.imap, mounted', deleted')
  BY <1>3, <1>5, <1>6 DEF Inv, Control, Numbered
<1>10. Apart(mem', disk', InUse(mounted'))
  <2>1. Apart(mem, disk, Inos) /\ InUse(mounted') = Inos
    BY DEF Inv, InUse
  <2>2. mem.bmap \subseteq c.bmap /\ c.bmap \subseteq disk'.bmap
    BY <1>3, <1>4 DEF Gains, Leaves
  <2> DEFINE f == n2.ptr
  <2>3. ASSUME NEW j \in Inos, NEW k \in Index, NEW b, HasPtr(c, disk', j, k, b)
        PROVE  \/ HasPtr(mem, disk, j, k, b)
               \/ j = i /\ b = f[k] /\ b \in c.bmap \ mem.bmap
    <3>1. CASE j # i
      BY <1>3, <1>4, <2>3, <3>1 DEF HasPtr, Leaves
    <3>2. CASE j = i
      <4>1. disk'.table[i] = n2 /\ c.table[i] = n2
        BY <1>1, <1>3, <1>4 DEF Leaves
      <4>2. b # 0 /\ b = n2.ptr[k]
        BY <2>3, <3>2, <4>1 DEF HasPtr
      <4>3. n2.ptr[k] = n.ptr[k] \/ n2.ptr[k] \in m2 \ mem.bmap
        BY DEF Gains
      <4>4. QED  BY <1>3, <3>2, <4>2, <4>3 DEF HasPtr
    <3>3. QED  BY <3>1, <3>2
  <2>4. \A k, l \in Index : f[k] = f[l] /\ f[k] \in c.bmap \ mem.bmap => k = l
    <3> SUFFICES ASSUME NEW k \in Index, NEW l \in Index, f[k] = f[l], f[k] \in m2 \ mem.bmap
                 PROVE  k = l
      BY <1>3
    <3>1. f[k] # 0
      BY <1>2, SizesAndBlocks
    <3>2. ASSUME NEW h \in Index, n.ptr[h] # 0 PROVE n.ptr[h] \in mem.bmap
      <4>1. HasPtr(mem, disk, i, h, n.ptr[h])
        BY <3>2 DEF HasPtr
      <4>2. QED  BY <1>1, <2>1, <4>1 DEF Apart
    <3>3. n.ptr[k] = 0 /\ n.ptr[l] = 0
      BY <3>1, <3>2 DEF Gains
    <3>4. QED  BY <3>1, <3>3 DEF Gains
  <2> HIDE DEF f
  <2>5. Apart(c, disk', Inos)
    <3>1. \A j \in Inos : \A k \in Index : \A b :
            HasPtr(c, disk', j, k, b) =>
              \/ HasPtr(mem, disk, j, k, b)
              \/ j = i /\ b = f[k] /\ b \in c.bmap \ mem.bmap
      BY <2>3
    <3>2. QED  BY ONLY <1>1, <2>1, <2>2, <3>1, <2>4, NewPointers
  <2>6. QED  BY <1>5, <2>1, <2>5
<1>11. Kept(obj', mem'.table)
  <2> SUFFICES ASSUME NEW q \in Objs, obj'[q].ino # None, NEW b \in obj'[q].wrote
               PROVE  Holds(c.table[obj[q].ino], b)
    BY <1>5, <1>6 DEF Kept
  <2>1. obj[q].ino \in Inos /\ obj[q].ino # None
    BY <1>6 DEF Object
  <2>2. CASE b \in obj[q].wrote
    <3>1. Holds(mem.table[obj[q].ino], b)
      BY <2>1, <2>2 DEF Inv, Kept
    <3>2. CASE obj[q].ino # i
      BY <1>3, <2>1, <3>1, <3>2
    <3>3. CASE obj[q].ino = i
      <4>1. b < n.size /\ n.ptr[b \div BlockSize] # 0 /\ b \in Nat /\ b < MaxFileSize
        BY <2>2, <3>1, <3>3, SizesAndBlocks DEF Holds, Object
      <4>2. b \div BlockSize \in Index
        BY <4>1, ByteIsIndexed
      <4>3. n2.ptr[b \div BlockSize] # 0
        BY <4>1, <4>2 DEF Gains
      <4>4. b < n2.size
        <5>1. n.size \in Int /\ n2.size \in Int /\ n2.size >= n.size
          BY <1>1, <1>2 DEF DiskInode, Gains
        <5>2. QED  BY <4>1, <5>1
      <4>5. QED  BY <1>1, <1>3, <3>3, <4>3, <4>4 DEF Holds
    <3>4. QED  BY <3>2, <3>3
  <2>3. CASE b \notin obj[q].wrote
    <3>1. b \in W /\ q = o
      BY <1>6, <2>3
    <3>2. QED  BY <1>1, <1>3, <3>1
  <2>4. QED  BY <2>2, <2>3
<1>12. QED  BY <1>8, <1>9, <1>10, <1>11 DEF Inv

\* The marks of a write.
LEMMA MarkedForIs ==
  ASSUME Inv, NEW i \in Inos, NEW found \in BOOLEAN, NEW d, d = MarkedFor(i, found)
  PROVE  d \in Marks /\ i \in d.table /\ (d.bmap <=> dirty.bmap \/ found)
<1> DEFINE x == dirty.bmap \/ found
           a == [dirty EXCEPT !.bmap = x]
           y == dirty.table \cup {i}
<1>1. x \in BOOLEAN /\ dirty.imap \in BOOLEAN /\ y \subseteq Inos /\ i \in y
  BY InvTypes
<1>2. a = [imap |-> dirty.imap, bmap |-> x, table |-> dirty.table]
  BY InvTypes, PartReplaced, Zenon
<1>3. d = [a EXCEPT !.table = @ \cup {i}]
  BY Zenon DEF MarkedFor
<1> HIDE DEF a, x
<1>4. a.table = dirty.table
  BY <1>2
<1>5. d = [a EXCEPT !.table = y]
  BY <1>3, <1>4
<1> HIDE DEF y
<1>6. d = [imap |-> dirty.imap, bmap |-> x, table |-> y]
  BY <1>2, <1>5
<1>7. d \in Marks /\ i \in d.table /\ d.bmap = x
  BY <1>1, <1>6 DEF Marks
<1>8. QED  BY <1>7 DEF x

\* Disk inode n2 is n with blocks for its empty pointers among ks, and with
\* the size as it was or as the loop left it.
WrittenAs(n, n2, g, ks, pos, end) ==
  /\ n2.blocks = n.blocks + Cardinality(Zeros(n, ks))
  /\ n2.ptr = [k \in Index |-> IF k \in Zeros(n, ks) THEN g[k] ELSE n.ptr[k]]
  /\ n2.size = n.size \/ (end > pos /\ n2.size = end)

\* The disk inode once the loop is through with blocks ks, up to byte end.
LEMMA WrittenInode ==
  ASSUME NEW n, Sound(n), NEW m \in SUBSET Blocks, NEW ks \in SUBSET Index,
         NEW g \in FindFreeBlocks(m, Zeros(n, ks)),
         NEW pos \in 0 .. MaxFileSize, NEW end \in 0 .. MaxFileSize,
         \A b \in pos .. end - 1 : b \div BlockSize \in ks,
         NEW n2, n2 = Grown(Attach(n, g), pos, end)
  PROVE  /\ Gains(n, n2, m, m \cup Range(g))
         /\ \A b \in pos .. end - 1 : Holds(n2, b)
         /\ WrittenAs(n, n2, g, ks, pos, end)
<1> DEFINE a == Attach(n, g)
           zs == Zeros(n, ks)
<1>1. /\ a.size = n.size /\ Sound(a)
      /\ a.blocks = n.blocks + Cardinality(zs)
      /\ a.ptr = [k \in Index |-> IF k \in zs THEN g[k] ELSE n.ptr[k]]
      /\ \A k \in ks : a.ptr[k] # 0
  BY AttachFacts
<1>2. n2 = Grown(a, pos, end)
  OBVIOUS
<1> HIDE DEF a
<1>3. end > pos => a.ptr[(end - 1) \div BlockSize] # 0
  <2>1. end > pos => end - 1 \in pos .. end - 1
    BY SizesAndBlocks
  <2>2. QED  BY <1>1, <2>1
<1>4. /\ Sound(n2) /\ n2.ptr = a.ptr /\ n2.blocks = a.blocks
      /\ n2.size >= a.size
      /\ end > pos => n2.size >= end
      /\ n2.size = a.size \/ (end > pos /\ n2.size = end)
  BY <1>1, <1>2, <1>3, GrownFacts
<1>5. /\ zs \subseteq Index
      /\ \A k \in zs : g[k] \in Blocks \ m /\ n.ptr[k] = 0
      /\ Range(g) = {g[k] : k \in zs}
      /\ \A k, l \in zs : g[k] = g[l] => k = l
  <2>1. zs \in SUBSET Index /\ \A k \in zs : n.ptr[k] = 0
    BY DEF Zeros
  <2> HIDE DEF zs
  <2>2. g \in FindFreeBlocks(m, zs)
    BY DEF zs
  <2>3. \A k, l \in zs : g[k] = g[l] => k = l
    BY <2>1, <2>2, FoundBlocksDiffer
  <2>4. (\A k \in zs : g[k] \in Blocks \ m) /\ Range(g) = {g[k] : k \in zs}
    BY <2>2, FoundBlocks
  <2>5. QED  BY <2>1, <2>3, <2>4
<1> HIDE DEF zs
<1>6. Gains(n, n2, m, m \cup Range(g))
  <2>1. Sound(n2) /\ n2.size >= n.size
    BY <1>1, <1>4
  <2>2. m \subseteq m \cup Range(g) /\ m \cup Range(g) \subseteq Blocks
    BY <1>5
  <2>3. \A k \in Index : n2.ptr[k] = n.ptr[k] \/ (n.ptr[k] = 0 /\ n2.ptr[k] \in (m \cup Range(g)) \ m)
    BY <1>1, <1>4, <1>5
  <2>4. ASSUME NEW k \in Index, NEW l \in Index, n2.ptr[k] = n2.ptr[l],
               n2.ptr[k] # 0, n.ptr[k] = 0, n.ptr[l] = 0
        PROVE  k = l
    <3>1. k \in zs /\ l \in zs
      BY <1>1, <1>4, <2>4
    <3>2. g[k] = g[l]
      BY <1>1, <1>4, <2>4, <3>1
    <3>3. QED  BY <1>5, <3>1, <3>2
  <2>5. QED  BY <2>1, <2>2, <2>3, <2>4 DEF Gains
<1>7. ASSUME NEW b \in pos .. end - 1 PROVE Holds(n2, b)
  <2>1. end > pos /\ b < end /\ end \in Int /\ b \in Int
    BY SizesAndBlocks
  <2>2. n2.size \in Int /\ n2.size >= end
    BY <1>4, <2>1, SizesAndBlocks DEF Sound, DiskInode
  <2>3. n2.ptr[b \div BlockSize] # 0
    BY <1>1, <1>4
  <2>4. QED  BY <2>1, <2>2, <2>3 DEF Holds
<1>8. QED  BY <1>1, <1>4, <1>6, <1>7 DEF zs, WrittenAs

\* A write whose loop is through with blocks ks when it ends, and leaves.
LEMMA LoopEnds ==
  ASSUME Inv, mounted, NEW o \in Objs, obj[o].ino # None, NEW i, i = obj[o].ino,
         NEW ks \in SUBSET Index, NEW g \in FindFreeBlocks(mem.bmap, Zeros(mem.table[i], ks)),
         NEW pos \in 0 .. MaxFileSize, NEW end \in 0 .. MaxFileSize,
         \A b \in pos .. end - 1 : b \div BlockSize \in ks,
         Leave(With(i, Grown(Attach(mem.table[i], g), pos, end), mem.bmap \cup Range(g)),
               MarkedFor(i, DOMAIN g # {})),
         Promises(o, pos .. end - 1),
         UNCHANGED <<mounted, deleted, stopped>>
  PROVE  Inv'
<1> DEFINE n  == mem.table[i]
           n2 == Grown(Attach(n, g), pos, end)
           m2 == mem.bmap \cup Range(g)
           found == DOMAIN g # {}
           c == With(i, n2, m2)
           d == MarkedFor(i, found)
           W == pos .. end - 1
<1>1. i \in Inos /\ Sound(n) /\ mem.bmap \in SUBSET Blocks
  <2>1. obj[o] \in Object
    BY InvTypes
  <2>2. i \in Inos
    BY <2>1 DEF Object
  <2>3. QED  BY <2>2, InvTypes DEF Inv, AllSound
<1>2. /\ Gains(n, n2, mem.bmap, m2)
      /\ \A b \in W : Holds(n2, b)
  <2>1. /\ n2 = Grown(Attach(n, g), pos, end) /\ ks \in SUBSET Index
        /\ g \in FindFreeBlocks(mem.bmap, Zeros(n, ks))
        /\ pos \in 0 .. MaxFileSize /\ end \in 0 .. MaxFileSize
        /\ \A b \in pos .. end - 1 : b \div BlockSize \in ks
    OBVIOUS
  <2> HIDE DEF n, n2
  <2>2. /\ Gains(n, n2, mem.bmap, mem.bmap \cup Range(g))
        /\ \A b \in pos .. end - 1 : Holds(n2, b)
    BY ONLY <1>1, <2>1, WrittenInode
  <2>3. QED  BY <2>2
<1>3. Leave(c, d)
  OBVIOUS
<1>4. found \/ m2 = mem.bmap
  BY DEF Range
<1>5. W \in SUBSET (0 .. MaxFileSize - 1)
  BY SizesAndBlocks
<1>6. Promises(o, W)
  OBVIOUS
<1>7. n2 \in DiskInode /\ m2 \in SUBSET Blocks
  BY <1>2 DEF Gains, Sound
<1> HIDE DEF n2, m2, found, W
<1>8. c \in Contents /\ c.bmap = m2
  BY <1>1, <1>7, WithIs
<1>9. d \in Marks /\ i \in d.table /\ (d.bmap <=> dirty.bmap \/ found)
  <2>1. found \in BOOLEAN
    BY DEF found
  <2>2. QED  BY <1>1, <2>1, MarkedForIs
<1>10. Leaves(c, disk, d.table)
  <2>1. disk \in Contents /\ mem.bmap \subseteq disk.bmap
    BY InvTypes
  <2>2. d.bmap \/ c.bmap \subseteq mem.bmap
    BY <1>4, <1>8, <1>9
  <2> HIDE DEF c, d
  <2>3. QED  BY <1>3, <1>8, <1>9, <2>1, <2>2, LeaveFacts
<1> DEFINE S == d.table
<1>12. i \in S /\ Leaves(With(i, n2, m2), disk, S)
  BY <1>9, <1>10
<1> HIDE DEF S, c, d
<1>13. /\ Inv /\ mounted /\ o \in Objs /\ obj[o].ino # None /\ i = obj[o].ino
       /\ UNCHANGED <<mounted, deleted, stopped>>
  OBVIOUS
<1>14. Gains(mem.table[i], n2, mem.bmap, m2)
  BY <1>2
<1>15. QED  BY ONLY <1>2, <1>5, <1>6, <1>12, <1>13, <1>14, WriteStep

\* The positions of a write that may start, and of its loop.
LEMMA CanWriteFacts ==
  ASSUME Inv, NEW o, NEW pos \in 0 .. MaxFileSize, NEW len \in WriteLens, CanWrite(o, pos, len)
  PROVE  /\ mounted /\ o \in Objs /\ obj[o].ino # None
         /\ pos \in Nat /\ pos + len \in 0 .. MaxFileSize /\ pos + len \in Nat
         /\ Span(pos, pos + len) \in SUBSET Index
         /\ \A b \in pos .. (pos + len) - 1 : b \div BlockSize \in Span(pos, pos + len)
         /\ \A k \in Span(pos, pos + len) :
              /\ Reaches(pos, k) \in 0 .. MaxFileSize
              /\ \A b \in pos .. Reaches(pos, k) - 1 :
                    b \div BlockSize \in {j \in Span(pos, pos + len) : j < k}
<1>1. len \in Nat /\ MaxFileSize \in Nat
  BY MonoAssumption, SizesAndBlocks
<1>2. mounted /\ o \in Objs /\ obj[o].ino # None /\ pos + len <= MaxFileSize
  BY DEF CanWrite, Live
<1>3. pos \in Nat /\ pos + len \in 0 .. MaxFileSize /\ pos + len \in Nat
  BY <1>1, <1>2
<1> DEFINE end == pos + len
<1> HIDE DEF end
<1>4. end \in 0 .. MaxFileSize /\ end \in Nat
  BY <1>3 DEF end
<1>5. Span(pos, end) \in SUBSET Index
  BY DEF Span
<1>6. \A b \in pos .. end - 1 : b \div BlockSize \in Span(pos, end)
  BY <1>3, <1>4, BytesOfSpan
<1>7. \A k \in Span(pos, end) :
        /\ Reaches(pos, k) \in 0 .. MaxFileSize
        /\ \A b \in pos .. Reaches(pos, k) - 1 : b \div BlockSize \in {j \in Span(pos, end) : j < k}
  <2> SUFFICES ASSUME NEW k \in Span(pos, end)
               PROVE  /\ Reaches(pos, k) \in 0 .. MaxFileSize
                      /\ \A b \in pos .. Reaches(pos, k) - 1 :
                            b \div BlockSize \in {j \in Span(pos, end) : j < k}
    OBVIOUS
  <2>1. k \in Index
    BY <1>5
  <2>2. Reaches(pos, k) \in pos .. MaxFileSize
    BY <2>1, ReachesIs
  <2>3. Reaches(pos, k) \in 0 .. MaxFileSize
    BY <1>1, <1>3, <2>2
  <2>4. pos \in 0 .. MaxFileSize /\ k \in Span(pos, end)
    OBVIOUS
  <2>5. \A b \in pos .. Reaches(pos, k) - 1 : b \div BlockSize \in {j \in Span(pos, end) : j < k}
    BY ONLY <1>4, <2>4, BytesBefore
  <2>6. QED  BY <2>3, <2>5
<1>8. QED  BY <1>2, <1>3, <1>5, <1>6, <1>7 DEF end

\* naive_file_write, when every block was written
LEMMA WriteAllInv ==
  ASSUME Inv, NEW o, NEW pos \in 0 .. MaxFileSize, NEW len \in WriteLens, WriteAll(o, pos, len)
  PROVE  Inv'
<1> DEFINE i == obj[o].ino
           ks == Span(pos, pos + len)
           end == pos + len
<1>1. CanWrite(o, pos, len)
  BY DEF WriteAll
<1>2. PICK g \in FindFreeBlocks(mem.bmap, Zeros(mem.table[i], ks)) :
        Written(o, Attach(mem.table[i], g), mem.bmap \cup Range(g), DOMAIN g # {}, pos, end, TRUE)
  BY DEF WriteAll
<1>3. /\ Leave(With(i, Grown(Attach(mem.table[i], g), pos, end), mem.bmap \cup Range(g)),
               MarkedFor(i, DOMAIN g # {}))
      /\ Promises(o, pos .. end - 1)
      /\ UNCHANGED <<mounted, deleted, stopped>>
  BY <1>2 DEF Written, Promises
<1>4. /\ mounted /\ o \in Objs /\ obj[o].ino # None /\ end \in 0 .. MaxFileSize
      /\ ks \in SUBSET Index /\ \A b \in pos .. end - 1 : b \div BlockSize \in ks
  <2>1. /\ Inv /\ CanWrite(o, pos, len) /\ pos \in 0 .. MaxFileSize /\ len \in WriteLens
    BY <1>1
  <2>2. /\ mounted /\ o \in Objs /\ obj[o].ino # None /\ pos + len \in 0 .. MaxFileSize
        /\ Span(pos, pos + len) \in SUBSET Index
        /\ \A b \in pos .. (pos + len) - 1 : b \div BlockSize \in Span(pos, pos + len)
    BY ONLY <2>1, CanWriteFacts
  <2>3. QED  BY <2>2, Zenon
<1> HIDE DEF ks, i, end
<1>5. QED
  <2>1. i = obj[o].ino
    BY DEF i
  <2>2. QED  BY <1>2, <1>3, <1>4, <2>1, LoopEnds

\* naive_file_write, when no block is free
LEMMA WriteNoSpaceInv ==
  ASSUME Inv, NEW o, NEW pos \in 0 .. MaxFileSize, NEW len \in WriteLens,
         NEW k \in Span(pos, pos + len), WriteNoSpace(o, pos, len, k)
  PROVE  Inv'
<1> DEFINE i == obj[o].ino
           ks == {j \in Span(pos, pos + len) : j < k}
           end == Reaches(pos, k)
<1>1. CanWrite(o, pos, len)
  BY DEF WriteNoSpace
<1>2. PICK g \in FindFreeBlocks(mem.bmap, Zeros(mem.table[i], ks)) :
        Written(o, Attach(mem.table[i], g), mem.bmap \cup Range(g), DOMAIN g # {}, pos, end, TRUE)
  BY DEF WriteNoSpace
<1>3. /\ Leave(With(i, Grown(Attach(mem.table[i], g), pos, end), mem.bmap \cup Range(g)),
               MarkedFor(i, DOMAIN g # {}))
      /\ Promises(o, pos .. end - 1)
      /\ UNCHANGED <<mounted, deleted, stopped>>
  BY <1>2 DEF Written, Promises
<1>4. /\ mounted /\ o \in Objs /\ obj[o].ino # None /\ end \in 0 .. MaxFileSize
      /\ ks \in SUBSET Index /\ \A b \in pos .. end - 1 : b \div BlockSize \in ks
  BY <1>1, CanWriteFacts
<1> HIDE DEF ks, i, end
<1>5. QED
  <2>1. i = obj[o].ino
    BY DEF i
  <2>2. QED  BY <1>2, <1>3, <1>4, <2>1, LoopEnds

\* naive_file_write, when the user's bytes cannot be copied
LEMMA WriteBadAddressInv ==
  ASSUME Inv, NEW o, NEW pos \in 0 .. MaxFileSize, NEW len \in WriteLens,
         NEW k \in Span(pos, pos + len), WriteBadAddress(o, pos, len, k)
  PROVE  Inv'
<1> DEFINE i == obj[o].ino
           ks == {j \in Span(pos, pos + len) : j <= k}
           end == Reaches(pos, k)
<1>1. CanWrite(o, pos, len)
  BY DEF WriteBadAddress
<1>2. PICK g \in FindFreeBlocks(mem.bmap, Zeros(mem.table[i], ks)) :
        Written(o, Attach(mem.table[i], g), mem.bmap \cup Range(g), DOMAIN g # {}, pos, end, FALSE)
  BY DEF WriteBadAddress
<1>3. /\ Leave(With(i, Grown(Attach(mem.table[i], g), pos, end), mem.bmap \cup Range(g)),
               MarkedFor(i, DOMAIN g # {}))
      /\ Promises(o, pos .. end - 1)
      /\ UNCHANGED <<mounted, deleted, stopped>>
  BY <1>2 DEF Written, Promises
<1>4. /\ mounted /\ o \in Objs /\ obj[o].ino # None /\ end \in 0 .. MaxFileSize
      /\ Span(pos, pos + len) \in SUBSET Index
      /\ \A b \in pos .. end - 1 : b \div BlockSize \in {j \in Span(pos, pos + len) : j < k}
  BY <1>1, CanWriteFacts
<1>5. ks \in SUBSET Index /\ \A b \in pos .. end - 1 : b \div BlockSize \in ks
  <2>1. k \in Nat /\ Span(pos, pos + len) \subseteq Nat
    BY <1>4, SizesAndBlocks
  <2>2. \A j \in Span(pos, pos + len) : j < k => j <= k
    BY <2>1
  <2>3. {j \in Span(pos, pos + len) : j < k} \subseteq ks
    BY <2>2
  <2>4. QED  BY <1>4, <2>3
<1> HIDE DEF ks, i, end
<1>6. QED
  <2>1. i = obj[o].ino
    BY DEF i
  <2>2. QED  BY <1>2, <1>3, <1>4, <1>5, <2>1, LoopEnds

\* Of disk inode n and bitmap m, had has the blocks of g and left all but
\* block k's; the bytes from pos to end are in it.
GaveBack(n, had, left, m, g, k, pos, end) ==
  /\ had \in DiskInode /\ m \cup Range(g) \subseteq Blocks
  /\ Gains(n, left, m, (m \cup Range(g)) \ {g[k]})
  /\ \A b \in pos .. end - 1 : Holds(left, b)

\* The disk inode after a write whose last block was attached and given back.
LEMMA GivenBack ==
  ASSUME NEW n, Sound(n), NEW m \in SUBSET Blocks, NEW done \in SUBSET Index,
         NEW k \in Index \ done, n.ptr[k] = 0,
         NEW g \in FindFreeBlocks(m, Zeros(n, done \cup {k})),
         NEW pos \in 0 .. MaxFileSize, NEW end \in 0 .. MaxFileSize,
         \A b \in pos .. end - 1 : b \div BlockSize \in done,
         NEW had, had = Grown(Attach(n, g), pos, end), NEW left, left = Detach(had, k)
  PROVE  GaveBack(n, had, left, m, g, k, pos, end)
<1> DEFINE ks == done \cup {k}
           zs == Zeros(n, ks)
<1>1. /\ Gains(n, had, m, m \cup Range(g))
      /\ \A b \in pos .. end - 1 : Holds(had, b)
      /\ had.blocks = n.blocks + Cardinality(zs)
      /\ had.ptr = [j \in Index |-> IF j \in zs THEN g[j] ELSE n.ptr[j]]
      /\ had.size = n.size \/ (end > pos /\ had.size = end)
  <2>1. /\ ks \in SUBSET Index /\ \A b \in pos .. end - 1 : b \div BlockSize \in ks
        /\ g \in FindFreeBlocks(m, Zeros(n, ks)) /\ had = Grown(Attach(n, g), pos, end)
        /\ Sound(n) /\ m \in SUBSET Blocks /\ pos \in 0 .. MaxFileSize /\ end \in 0 .. MaxFileSize
    OBVIOUS
  <2> HIDE DEF ks
  <2>2. /\ Gains(n, had, m, m \cup Range(g))
        /\ \A b \in pos .. end - 1 : Holds(had, b)
        /\ WrittenAs(n, had, g, ks, pos, end)
    BY ONLY <2>1, WrittenInode
  <2>3. QED  BY <2>2, Zenon DEF WrittenAs
<1>2. k \in zs /\ zs \in SUBSET Index
  BY DEF Zeros
<1>3. /\ \A j \in zs : g[j] \in Blocks \ m /\ n.ptr[j] = 0
      /\ \A j \in zs : g[j] = g[k] => j = k
  <2>1. g \in FindFreeBlocks(m, zs)
    OBVIOUS
  <2>2. \A j \in zs : n.ptr[j] = 0
    BY DEF Zeros
  <2> HIDE DEF zs
  <2>3. QED  BY <1>2, <2>1, <2>2, FoundBlocks, FoundBlocksDiffer
<1>4. Cardinality(zs) \in Nat /\ Cardinality(zs) # 0
  <2>1. IsFiniteSet(zs) /\ Cardinality(zs) \in Nat
    BY PointersAreCounted
  <2> HIDE DEF zs
  <2>2. QED  BY <1>2, <2>1, FS_EmptySet
<1> HIDE DEF zs, ks
<1>5. Sound(had) /\ had.ptr[k] # 0 /\ had.blocks > 0
  <2>1. had.ptr[k] = g[k]
    BY <1>1, <1>2
  <2>2. n.blocks \in Int /\ n.blocks >= 0
    BY PointersAreCounted DEF Sound, Counted
  <2>3. had.blocks > 0
    BY <1>1, <1>4, <2>2
  <2>4. QED  BY <1>1, <1>2, <1>3, <2>1, <2>3, SizesAndBlocks DEF Gains
<1>6. had.size > 0 => (had.size - 1) \div BlockSize # k
  <2>1. CASE had.size = n.size
    BY <2>1 DEF Sound, EndInBlock
  <2>2. CASE end > pos /\ had.size = end
    <3>1. end - 1 \in pos .. end - 1
      BY <2>2, SizesAndBlocks
    <3>2. (end - 1) \div BlockSize \in done
      BY <3>1
    <3>3. QED  BY <2>2, <3>2
  <2>3. QED  BY <1>1, <2>1, <2>2
<1>7. Sound(left) /\ left.size = had.size /\ left.ptr = [had.ptr EXCEPT ![k] = 0]
  BY <1>5, <1>6, DetachFacts
<1>8. \A j \in Index : left.ptr[j] = IF j = k THEN 0 ELSE had.ptr[j]
  BY <1>1, <1>7
<1>9. Gains(n, left, m, (m \cup Range(g)) \ {g[k]})
  <2>1. m \subseteq (m \cup Range(g)) \ {g[k]} /\ (m \cup Range(g)) \ {g[k]} \subseteq Blocks
    BY <1>1, <1>2, <1>3 DEF Gains
  <2>2. ASSUME NEW j \in Index
        PROVE  \/ left.ptr[j] = n.ptr[j]
               \/ n.ptr[j] = 0 /\ left.ptr[j] \in ((m \cup Range(g)) \ {g[k]}) \ m
    <3>1. CASE j = k
      BY <1>8, <3>1
    <3>2. CASE j # k /\ j \in zs
      <4>1. left.ptr[j] = g[j] /\ g[j] # g[k] /\ g[j] \in Blocks \ m /\ n.ptr[j] = 0
        BY <1>1, <1>3, <1>8, <3>2
      <4>2. left.ptr[j] \in m \cup Range(g)
        BY <1>1, <1>8, <3>2, <4>1, SizesAndBlocks DEF Gains
      <4>3. QED  BY <4>1, <4>2
    <3>3. CASE j # k /\ j \notin zs
      BY <1>1, <1>8, <3>3
    <3>4. QED  BY <3>1, <3>2, <3>3
  <2>3. ASSUME NEW j \in Index, NEW l \in Index, n.ptr[j] = 0, n.ptr[l] = 0,
               left.ptr[j] = left.ptr[l], left.ptr[j] # 0
        PROVE  j = l
    <3>1. had.ptr[j] = had.ptr[l] /\ had.ptr[j] # 0
      BY <1>8, <2>3
    <3>2. QED  BY <1>1, <2>3, <3>1 DEF Gains
  <2>4. left.size >= n.size
    BY <1>1, <1>7 DEF Gains
  <2>5. QED  BY <1>7, <2>1, <2>2, <2>3, <2>4 DEF Gains
<1>10. ASSUME NEW b \in pos .. end - 1 PROVE Holds(left, b)
  <2>1. b \div BlockSize \in done /\ Holds(had, b)
    BY <1>1
  <2>2. QED  BY <1>7, <1>8, <2>1 DEF Holds
<1>11. had \in DiskInode /\ m \cup Range(g) \subseteq Blocks
  BY <1>1 DEF Gains, Sound
<1>12. QED  BY <1>9, <1>10, <1>11 DEF GaveBack

\* naive_file_write, when block k cannot be read
LEMMA WriteUnreadableInv ==
  ASSUME Inv, NEW o, NEW pos \in 0 .. MaxFileSize, NEW len \in WriteLens,
         NEW k \in Span(pos, pos + len), WriteUnreadable(o, pos, len, k)
  PROVE  Inv'
<1> DEFINE i == obj[o].ino
           n == mem.table[i]
           done == {j \in Span(pos, pos + len) : j < k}
           end == Reaches(pos, k)
<1>1. CanWrite(o, pos, len)
  BY DEF WriteUnreadable
<1>2. /\ mounted /\ o \in Objs /\ obj[o].ino # None /\ end \in 0 .. MaxFileSize
      /\ done \in SUBSET Index /\ \A b \in pos .. end - 1 : b \div BlockSize \in done
  BY <1>1, CanWriteFacts
<1>3. CASE /\ n.ptr[k] # 0
           /\ \E g \in FindFreeBlocks(mem.bmap, Zeros(n, done)) :
                Written(o, Attach(n, g), mem.bmap \cup Range(g), DOMAIN g # {}, pos, end, TRUE)
  <2>1. PICK g \in FindFreeBlocks(mem.bmap, Zeros(mem.table[i], done)) :
          Written(o, Attach(mem.table[i], g), mem.bmap \cup Range(g), DOMAIN g # {}, pos, end, TRUE)
    BY <1>3
  <2>2. /\ Leave(With(i, Grown(Attach(mem.table[i], g), pos, end), mem.bmap \cup Range(g)),
                 MarkedFor(i, DOMAIN g # {}))
        /\ Promises(o, pos .. end - 1)
        /\ UNCHANGED <<mounted, deleted, stopped>>
    BY <2>1 DEF Written, Promises
  <2>3. i = obj[o].ino
    OBVIOUS
  <2> HIDE DEF done, i, end
  <2>4. QED  BY <1>2, <2>1, <2>2, <2>3, LoopEnds
<1>4. ASSUME n.ptr[k] = 0, NEW g \in FindFreeBlocks(mem.bmap, Zeros(n, done \cup {k})),
             LET had  == Grown(Attach(n, g), pos, end)
                 left == Detach(had, k)
                 m    == mem.bmap \cup Range(g)
             IN  LeaveAfter(With(i, had, m), [dirty EXCEPT !.bmap = TRUE],
                            With(i, left, m \ {g[k]}), [Clean EXCEPT !.table = {i}]),
             obj' = [obj EXCEPT ![o].wrote = @ \cup (pos .. end - 1)],
             UNCHANGED <<mounted, deleted, stopped>>
      PROVE  Inv'
  <2> DEFINE had  == Grown(Attach(n, g), pos, end)
             left == Detach(had, k)
             m    == mem.bmap \cup Range(g)
             m2   == m \ {g[k]}
             d1   == [dirty EXCEPT !.bmap = TRUE]
             d2   == [Clean EXCEPT !.table = {i}]
             W    == pos .. end - 1
  <2>1. Promises(o, W)
    BY <1>4, Zenon DEF Promises
  <2>2. LeaveAfter(With(i, had, m), d1, With(i, left, m2), d2)
    BY <1>4
  <2>3. i \in Inos /\ Sound(n) /\ mem.bmap \in SUBSET Blocks
    <3>1. obj[o] \in Object
      BY <1>2, InvTypes
    <3>2. i \in Inos
      BY <1>2, <3>1 DEF Object
    <3>3. QED  BY <3>2, InvTypes DEF Inv, AllSound
  <2>4. k \in Index \ done
    BY SizesAndBlocks DEF Span
  <2>5. /\ had \in DiskInode /\ m \subseteq Blocks
        /\ Gains(n, left, mem.bmap, m2)
        /\ \A b \in W : Holds(left, b)
    <3>1. /\ g \in FindFreeBlocks(mem.bmap, Zeros(n, done \cup {k})) /\ n.ptr[k] = 0
          /\ had = Grown(Attach(n, g), pos, end) /\ left = Detach(had, k) /\ pos \in 0 .. MaxFileSize
      BY <1>4
    <3> HIDE DEF n, done, end, had, left
    <3>2. GaveBack(n, had, left, mem.bmap, g, k, pos, end)
      BY ONLY <1>2, <2>3, <2>4, <3>1, GivenBack
    <3>3. QED  BY <3>2 DEF GaveBack, m, m2, W
  <2>6. W \in SUBSET (0 .. MaxFileSize - 1)
    BY <1>2, SizesAndBlocks
  <2>7. d1 \in Marks /\ d1.bmap = TRUE
    <3>1. d1 = [imap |-> dirty.imap, bmap |-> TRUE, table |-> dirty.table]
      BY InvTypes, PartReplaced, Zenon
    <3> HIDE DEF d1
    <3>2. QED  BY <3>1, InvTypes DEF Marks
  <2>8. d2 \in Marks /\ d2.table = {i}
    BY <2>3 DEF Clean, Marks
  <2> HIDE DEF had, left, W, d1, d2, done, end
  <2>9. left \in DiskInode /\ m2 \in SUBSET Blocks /\ m \in SUBSET Blocks /\ m2 \subseteq m
    BY <2>5 DEF Gains, Sound
  <2> HIDE DEF m, m2
  <2> DEFINE c1 == With(i, had, m)
             c2 == With(i, left, m2)
  <2>10. /\ c1 \in Contents /\ c1.bmap = m
         /\ \A j \in Inos : c1.table[j] = IF j = i THEN had ELSE mem.table[j]
    BY <2>3, <2>5, <2>9, WithIs
  <2>11. /\ c2 \in Contents /\ c2.bmap = m2
         /\ \A j \in Inos : c2.table[j] = IF j = i THEN left ELSE mem.table[j]
    BY <2>3, <2>9, WithIs
  <2>12. LeaveAfter(c1, d1, c2, d2)
    BY <2>2
  <2>13. disk \in Contents /\ mem.bmap \subseteq disk.bmap
    BY InvTypes
  <2> HIDE DEF c1, c2
  <2>14. \A j \in Inos \ d2.table : c1.table[j] = c2.table[j]
    BY <2>8, <2>10, <2>11
  <2>15. Leaves(c2, disk, d2.table)
    BY ONLY <2>7, <2>8, <2>9, <2>10, <2>11, <2>12, <2>13, <2>14, LeaveAfterFacts
  <2> DEFINE S == d2.table
  <2>16. i \in S /\ Leaves(With(i, left, m2), disk, S)
    BY <2>8, <2>15 DEF c2
  <2>17. /\ Inv /\ i = obj[o].ino /\ Gains(mem.table[i], left, mem.bmap, m2)
         /\ UNCHANGED <<mounted, deleted, stopped>>
    BY <1>4, <2>5
  <2> HIDE DEF S, i, n
  <2>18. QED  BY ONLY <1>2, <2>1, <2>5, <2>6, <2>16, <2>17, WriteStep
<1>5. QED
  BY <1>3, <1>4 DEF WriteUnreadable

----------------------------------------------------------------------------
(* Mount, unmount and faults.                                              *)

\* What is on the device, or has its pointers there, keeps apart by itself.
LEMMA DeviceApart ==
  ASSUME Inv, NEW c, NEW d, c.bmap = disk.bmap, d.bmap = disk.bmap, NEW is,
         \A j \in is : \A k \in Index : \A b :
            HasPtr(c, d, j, k, b) => j \in Files /\ disk.table[j].ptr[k] = b
  PROVE  Apart(c, d, is)
<1>1. Apart(mem, disk, InUse(mounted)) /\ Files \subseteq InUse(mounted)
  BY DEF Inv, InUse, Files
<1>2. mem.bmap \subseteq disk.bmap
  BY <1>1 DEF Apart
<1>3. ASSUME NEW j \in is, NEW k \in Index, NEW b, HasPtr(c, d, j, k, b)
      PROVE  j \in InUse(mounted) /\ HasPtr(mem, disk, j, k, b) /\ b \in c.bmap
  <2>1. j \in InUse(mounted) /\ HasPtr(mem, disk, j, k, b)
    BY <1>1, <1>3 DEF HasPtr
  <2>2. QED  BY <1>1, <1>2, <2>1 DEF Apart
<1>4. QED  BY <1>1, <1>3, FewerPointers

\* After a step that leaves nothing mounted, the buffers are the device again.
LEMMA NothingMounted ==
  ASSUME Inv, NEW c \in Contents, AllSound(c.table), c.bmap = disk.bmap,
         \A j \in Files : c.table[j].ptr = disk.table[j].ptr,
         mem' = c, disk' = c, dirty' \in Marks, obj' \in [Objs -> Object],
         \A q \in Objs : obj'[q].ino = None /\ ~ obj'[q].linked,
         mounted' = FALSE, deleted' = deleted, stopped' \in BOOLEAN
  PROVE  Inv'
<1>1. TypeOK' /\ AllSound(mem.table)' /\ AllSound(disk.table)'
  BY InvTypes DEF TypeOK, AllSound
<1>2. Apart(c, c, Files)
  <2>1. \A j \in Files : \A k \in Index : \A b :
          HasPtr(c, c, j, k, b) => j \in Files /\ disk.table[j].ptr[k] = b
    BY DEF HasPtr
  <2>2. QED  BY <2>1, DeviceApart
<1>3. Apart(mem', disk', InUse(mounted'))
  BY <1>2 DEF InUse
<1>4. Control(obj, mounted)' /\ Kept(obj', mem'.table) /\ Numbered(obj', mem'.imap, mounted', deleted')
  BY DEF Control, Kept, Numbered
<1>5. QED  BY <1>1, <1>3, <1>4 DEF Inv

\* The machine goes down.
LEMMA StrayInv == ASSUME Inv, Stray PROVE Inv'
<1>1. /\ mem' = disk /\ disk' = disk /\ dirty' = Clean /\ obj' = [o \in Objs |-> Unused]
      /\ mounted' = FALSE /\ deleted' = deleted /\ stopped' = TRUE
  BY DEF Stray
<1>2. Unused \in Object /\ Unused.ino = None /\ ~ Unused.linked /\ Clean \in Marks
  BY DEF Unused, Object, Clean, Marks
<1>3. disk \in Contents /\ AllSound(disk.table)
  BY InvTypes DEF Inv
<1>4. dirty' \in Marks /\ obj' \in [Objs -> Object] /\ stopped' \in BOOLEAN
      /\ \A q \in Objs : obj'[q].ino = None /\ ~ obj'[q].linked
  BY <1>1, <1>2
<1>5. QED  BY <1>1, <1>3, <1>4, NothingMounted

\* naive_kill_sb
LEMMA UnmountInv == ASSUME Inv, Unmount PROVE Inv'
<1>1. /\ mem' = disk /\ disk' = disk /\ dirty' = Clean /\ obj' = obj
      /\ mounted' = FALSE /\ deleted' = deleted /\ stopped' = stopped
  BY DEF Unmount
<1>2. \A q \in Objs : obj[q].ino = None /\ ~ obj[q].linked
  <2>1. \A q \in Objs : obj[q].ino = None
    BY DEF Unmount, Live
  <2>2. QED  BY <2>1 DEF Inv, Control
<1>3. disk \in Contents /\ AllSound(disk.table)
  BY InvTypes DEF Inv
<1>4. dirty' \in Marks /\ obj' \in [Objs -> Object] /\ stopped' \in BOOLEAN
      /\ \A q \in Objs : obj'[q].ino = None /\ ~ obj'[q].linked
  <2>1. Clean \in Marks
    BY DEF Clean, Marks
  <2>2. QED  BY <1>1, <1>2, <2>1, InvTypes
<1>5. QED  BY <1>1, <1>3, <1>4, NothingMounted

\* A write-back only clears marks.
LEMMA WriteBackInv == ASSUME Inv, WriteBack PROVE Inv'
<1>1. dirty' = Clean /\ UNCHANGED <<mem, disk, obj, mounted, deleted, stopped>>
  BY DEF WriteBack
<1>2. Clean \in Marks
  BY DEF Clean, Marks
<1>3. TypeOK'
  BY <1>1, <1>2, InvTypes DEF TypeOK
<1>4. QED  BY <1>1, <1>3 DEF Inv

\* What a mount makes of the device's contents.
LEMMA RootFacts ==
  ASSUME Inv
  PROVE  /\ RootTaken \in Contents /\ RootTaken.table = disk.table /\ RootTaken.bmap = disk.bmap
         /\ RootMade \in Contents /\ RootMade.bmap = disk.bmap /\ AllSound(RootMade.table)
         /\ RootBit \in RootMade.imap
         /\ \A k \in Index : RootMade.table[RootBit].ptr[k] = 0
         /\ \A j \in Files : RootMade.table[j].ptr = disk.table[j].ptr
         /\ RootMarks \in Marks /\ RootMarks.bmap = FALSE /\ RootMarks.table = {RootBit}
<1> DEFINE t == ZeroDiskInode(disk.table, RootBit)
<1>1. RootTaken = [imap |-> disk.imap \cup {RootBit}, bmap |-> disk.bmap, table |-> disk.table]
  BY InvTypes, PartReplaced, Zenon DEF RootTaken
<1>2. /\ RootTaken \in Contents /\ RootTaken.table = disk.table /\ RootTaken.bmap = disk.bmap
      /\ RootBit \in RootTaken.imap
  BY <1>1, InvTypes, SizesAndBlocks DEF Contents
<1>3. /\ t \in [Inos -> DiskInode] /\ AllSound(t)
      /\ \A k \in Index : t[RootBit].ptr[k] = 0
      /\ \A j \in Inos : j # RootBit => t[j].ptr = disk.table[j].ptr
  BY InvTypes, SizesAndBlocks, ZeroedFacts DEF Inv
<1>4. RootMade = [RootTaken EXCEPT !.table = t]
  BY <1>2, Zenon DEF RootMade
<1> HIDE DEF t
<1>5. RootMade = [imap |-> RootTaken.imap, bmap |-> RootTaken.bmap, table |-> t]
  BY <1>2, <1>4, PartReplaced, Zenon
<1>6. RootMade \in Contents /\ RootMade.bmap = disk.bmap /\ RootMade.table = t /\ RootBit \in RootMade.imap
  BY <1>2, <1>3, <1>5 DEF Contents
<1>7. RootMarks \in Marks /\ RootMarks.bmap = FALSE /\ RootMarks.table = {RootBit}
  <2> DEFINE a == [Clean EXCEPT !.imap = TRUE]
  <2>1. a = [imap |-> TRUE, bmap |-> FALSE, table |-> {}]
    <3>1. Clean \in Marks /\ Clean.bmap = FALSE /\ Clean.table = {}
      BY DEF Clean, Marks
    <3>2. a = [imap |-> TRUE, bmap |-> Clean.bmap, table |-> Clean.table]
      BY <3>1, PartReplaced, Zenon
    <3>3. QED  BY <3>1, <3>2
  <2>2. RootMarks = [a EXCEPT !.table = {RootBit}]
    BY DEF RootMarks
  <2> HIDE DEF a
  <2>3. RootMarks = [imap |-> TRUE, bmap |-> FALSE, table |-> {RootBit}]
    BY <2>1, <2>2
  <2>4. QED  BY <2>3, SizesAndBlocks DEF Marks
<1>8. QED  BY <1>2, <1>3, <1>6, <1>7 DEF Files

\* What is on the device when a mount's marks have been written.
LEMMA RootFlushed ==
  ASSUME Inv, NEW d, d = Flush(disk, RootMade, RootMarks)
  PROVE  /\ d \in Contents /\ d.bmap = disk.bmap /\ AllSound(d.table)
         /\ \A k \in Index : d.table[RootBit].ptr[k] = 0
         /\ \A j \in Files : d.table[j].ptr = disk.table[j].ptr
<1>1. /\ d \in Contents
      /\ d.bmap = IF RootMarks.bmap THEN RootMade.bmap ELSE disk.bmap
      /\ \A j \in Inos : d.table[j] = IF j \in RootMarks.table THEN RootMade.table[j] ELSE disk.table[j]
  <2> DEFINE f == Flush(disk, RootMade, RootMarks)
  <2>1. disk \in Contents /\ RootMade \in Contents /\ RootMarks \in Marks
    BY InvTypes, RootFacts
  <2>2. /\ f \in Contents
        /\ f.bmap = IF RootMarks.bmap THEN RootMade.bmap ELSE disk.bmap
        /\ \A j \in Inos : f.table[j] = IF j \in RootMarks.table THEN RootMade.table[j] ELSE disk.table[j]
    BY ONLY <2>1, FlushIs
  <2>3. d = f
    OBVIOUS
  <2> HIDE DEF f
  <2>4. QED  BY <2>2, <2>3
<1>2. \A j \in Inos : d.table[j] = IF j = RootBit THEN RootMade.table[j] ELSE disk.table[j]
  BY <1>1, RootFacts
<1>3. AllSound(d.table)
  BY <1>2, RootFacts DEF Inv, AllSound
<1>4. QED  BY <1>1, <1>2, <1>3, RootFacts, SizesAndBlocks DEF Files

\* naive_fill_super
LEMMA MountInv == ASSUME Inv, Mount PROVE Inv'
<1> DEFINE d == Flush(disk, RootMade, RootMarks)
<1>1. /\ mem' = RootMade /\ dirty' = RootMarks /\ disk' = d /\ mounted' = TRUE
      /\ UNCHANGED <<obj, deleted, stopped>> /\ ~ mounted
  BY DEF Mount, Leave
<1>2. /\ d \in Contents /\ d.bmap = disk.bmap /\ AllSound(d.table)
      /\ \A k \in Index : d.table[RootBit].ptr[k] = 0
      /\ \A j \in Files : d.table[j].ptr = disk.table[j].ptr
  BY RootFlushed
<1> HIDE DEF d
<1>3. TypeOK' /\ AllSound(mem.table)' /\ AllSound(disk.table)'
  <2>1. TypeOK'
    BY <1>1, <1>2, RootFacts, InvTypes DEF TypeOK
  <2>2. QED  BY <1>1, <1>2, <2>1, RootFacts DEF AllSound
<1>4. Apart(RootMade, d, Inos)
  <2>1. \A j \in Inos : \A k \in Index : \A b :
          HasPtr(RootMade, d, j, k, b) => j \in Files /\ disk.table[j].ptr[k] = b
    BY <1>2, RootFacts DEF HasPtr, Files
  <2>2. QED  BY <1>2, <2>1, RootFacts, DeviceApart
<1>5. Apart(mem', disk', InUse(mounted'))
  BY <1>1, <1>4 DEF InUse
<1>6. \A q \in Objs : obj'[q].ino = None /\ ~ obj'[q].linked
  BY <1>1 DEF Inv, Control
<1>7. Control(obj, mounted)' /\ Kept(obj', mem'.table) /\ Numbered(obj', mem'.imap, mounted', deleted')
  BY <1>1, <1>6, RootFacts DEF Control, Kept, Numbered
<1>8. QED  BY <1>1, <1>3, <1>5, <1>7 DEF Inv

\* naive_fill_super, failing
LEMMA MountFailsInv == ASSUME Inv, MountFails PROVE Inv'
<1>1. /\ mem' = disk' /\ ~ mounted /\ UNCHANGED <<dirty, obj, mounted, deleted>>
      /\ stopped' \in BOOLEAN
      /\ disk' = disk \/ disk' = RootTaken \/ disk' = Flush(disk, RootMade, RootMarks)
  BY DEF MountFails
<1> DEFINE c == disk'
<1>2. /\ c \in Contents /\ AllSound(c.table) /\ c.bmap = disk.bmap
      /\ \A j \in Files : c.table[j].ptr = disk.table[j].ptr
  <2>1. CASE disk' = disk
    BY <2>1, InvTypes DEF Inv
  <2>2. CASE disk' = RootTaken
    <3>1. AllSound(disk.table)
      BY DEF Inv
    <3>2. QED  BY <2>2, <3>1, RootFacts
  <2>3. CASE disk' = Flush(disk, RootMade, RootMarks)
    BY <2>3, RootFlushed
  <2>4. QED  BY <1>1, <2>1, <2>2, <2>3
<1>3. mem' = c /\ disk' = c
  BY <1>1
<1>4. /\ dirty' \in Marks /\ obj' \in [Objs -> Object]
      /\ \A q \in Objs : obj'[q].ino = None /\ ~ obj'[q].linked
  BY <1>1, InvTypes DEF Inv, Control
<1>5. mounted' = FALSE /\ deleted' = deleted
  BY <1>1, InvTypes
<1> HIDE DEF c
<1>6. QED  BY <1>1, <1>2, <1>3, <1>4, <1>5, NothingMounted

----------------------------------------------------------------------------
(* The theorem.                                                            *)

\* Every step keeps the invariant.
LEMMA NextInv == Inv /\ [Next]_vars => Inv'
<1> SUFFICES ASSUME Inv, [Next]_vars PROVE Inv'
  OBVIOUS
<1>1. ASSUME NEW o \in Objs, Create(o) \/ Unlink(o) \/ Close(o) PROVE Inv'
  BY <1>1, CreateInv, UnlinkInv, CloseInv
<1>2. ASSUME NEW o \in Objs, NEW pos \in 0 .. MaxFileSize, NEW len \in WriteLens,
             WriteAll(o, pos, len)
      PROVE  Inv'
  BY <1>2, WriteAllInv
<1>3. ASSUME NEW o \in Objs, NEW pos \in 0 .. MaxFileSize, NEW len \in WriteLens,
             NEW k \in Span(pos, pos + len),
             WriteNoSpace(o, pos, len, k) \/ WriteBadAddress(o, pos, len, k)
               \/ WriteUnreadable(o, pos, len, k)
      PROVE  Inv'
  <2>1. CASE WriteNoSpace(o, pos, len, k)
    BY <2>1, WriteNoSpaceInv
  <2>2. CASE WriteBadAddress(o, pos, len, k)
    BY <2>2, WriteBadAddressInv
  <2>3. CASE WriteUnreadable(o, pos, len, k)
    BY <2>3, WriteUnreadableInv
  <2>4. QED  BY <1>3, <2>1, <2>2, <2>3
<1>4. CASE CreateFails \/ Stray \/ WriteBack \/ Mount \/ MountFails \/ Unmount
  BY <1>4, CreateFailsInv, StrayInv, WriteBackInv, MountInv, MountFailsInv, UnmountInv
<1>5. CASE UNCHANGED vars
  <2>1. UNCHANGED <<mem, disk, dirty, obj, mounted, deleted, stopped>>
    BY <1>5 DEF vars
  <2>2. TypeOK'
    BY <2>1, InvTypes DEF TypeOK
  <2>3. QED  BY <2>1, <2>2 DEF Inv
<1>6. CASE Stopped
  BY <1>5, <1>6 DEF Stopped
<1>7. QED  BY <1>1, <1>2, <1>3, <1>4, <1>5, <1>6 DEF Next

\* The properties of the run: blocks have one owner and a set bit, in the
\* buffers and on the device; sizes end in a block; block counts are not above
\* what a file has; what a write returned can be read; and files have numbers
\* of their own until the first unlink.
THEOREM MonoIsSound ==
  Spec => [](/\ TypeOK /\ BlocksOwnedOnce /\ DeviceOwnedOnce /\ SizeEndsInBlock
             /\ CountsNotAbove /\ WrittenIsRead /\ NumbersDistinct)
<1>1. Init => Inv
  BY InitInv
<1>2. Inv /\ [Next]_vars => Inv'
  BY NextInv
<1>3. Inv => /\ TypeOK /\ BlocksOwnedOnce /\ DeviceOwnedOnce /\ SizeEndsInBlock
             /\ CountsNotAbove /\ WrittenIsRead /\ NumbersDistinct
  BY InvIsProperties
<1>4. QED  BY <1>1, <1>2, <1>3, PTL DEF Spec
============================================================================
