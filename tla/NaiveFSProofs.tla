--------------------------- MODULE NaiveFSProofs ---------------------------
(***************************************************************************)
(* Theorems about NaiveFS for every geometry: types and packed pointers,   *)
(* the ownership of blocks while none is half added to a directory, and    *)
(* the names, link counts, inode numbers and file sizes.                   *)
(***************************************************************************)
EXTENDS NaiveFS, FiniteSetTheorems, TLAPS

----------------------------------------------------------------------------
(* The bitmaps.                                                            *)

\* A whole number of bytes is no more than the total it is cut from.
LEMMA WholeBytes ==
  ASSUME NEW n \in Nat, NEW d \in Nat \ {0}
  PROVE  d * (n \div d) <= n
  OBVIOUS

\* The scans stay within the inode numbers and within the data area.
LEMMA ScannedInRange == ScannedInos \subseteq Inos /\ ScannedBlocks \subseteq Blocks
  BY WholeBytes, AllocAssumption DEF ScannedInos, ScannedBlocks, Inos, Blocks

\* A number or block the scans return is in range and free, and no inode has
\* number 0, no block the pointer 0.
LEMMA AllocFacts ==
  ASSUME NEW im, NEW bm
  PROVE  /\ FindFreeInode(im) \subseteq Inos \ im
         /\ AllocBlock(bm) \subseteq Blocks \ bm
         /\ FreeBlocks(bm) \subseteq Blocks \ bm
         /\ 0 \notin Inos /\ 0 \notin Blocks /\ Inos \subseteq Nat /\ Blocks \subseteq Nat
<1>1. /\ FindFreeInode(im) \subseteq Inos \ im
      /\ FreeBlocks(bm) \subseteq Blocks \ bm
      /\ AllocBlock(bm) \subseteq FreeBlocks(bm)
  BY ScannedInRange DEF FindFreeInode, AllocBlock, FreeInos, FreeBlocks
<1>2. 0 \notin Inos /\ 0 \notin Blocks /\ Inos \subseteq Nat /\ Blocks \subseteq Nat
  BY AllocAssumption DEF Inos, Blocks
<1>3. QED  BY <1>1, <1>2

\* The allocation loop of naive_file_write counts a finite set.
LEMMA FreeBlocksCounted ==
  ASSUME NEW bm
  PROVE  Cardinality(FreeBlocks(bm)) \in Nat
<1>1. IsFiniteSet(Blocks)
  <2>1. DataStart \in Int /\ BlockTotal - 1 \in Int
    BY AllocAssumption
  <2>2. QED  BY <2>1, FS_Interval DEF Blocks
<1>2. IsFiniteSet(FreeBlocks(bm))
  BY <1>1, AllocFacts, FS_Subset
<1>3. QED  BY <1>2, FS_CardinalityType

----------------------------------------------------------------------------
(* Directory records.                                                      *)

BlockImages == [Blocks -> [Slot -> Record] \cup {FileBytes}]

\* An empty block holds records, none in use.
LEMMA ZeroBlockType == ZeroBlock \in [Slot -> Record] /\ EmptyRecord \in Record
  BY DEF ZeroBlock, EmptyRecord, Record

\* What new_inode and the handlers fill in is an inode.
LEMMA NewInodeType ==
  ASSUME NEW i \in Inos \cup {0}, NEW isdir \in BOOLEAN, NEW links \in Nat
  PROVE  NewInode(i, isdir, links) \in Inode
  BY DEF NewInode, Inode

\* A directory scan reads slots of blocks of the data area only.
LEMMA PlacesType ==
  ASSUME NEW node \in Inode, NEW p \in Places(node)
  PROVE  p[1] \in Index /\ p[2] \in Slot /\ node.ptr[p[1]] \in Blocks
  BY DEF Places, Inode

\* Writing a record keeps the blocks well formed.
LEMMA PutType ==
  ASSUME NEW bl \in BlockImages, NEW node \in Inode, NEW p \in Places(node), NEW rec \in Record
  PROVE  Put(bl, node, p, rec) \in BlockImages
<1>1. node.ptr[p[1]] \in Blocks /\ p[2] \in Slot
  BY PlacesType
<1>2. RecordsIn(bl, node.ptr[p[1]]) \in [Slot -> Record]
  BY <1>1, ZeroBlockType DEF RecordsIn, BlockImages
<1>3. QED  BY <1>1, <1>2 DEF Put, BlockImages

\* A new inode's number and the name a record keeps make a record.
LEMMA RecordType ==
  ASSUME NEW i \in Inos \cup {0}, NEW name \in Names
  PROVE  [ino |-> i, name |-> Stored[name]] \in Record
  BY FSAssumption DEF Record

SamePointers(old, node) == node.ptr = old.ptr /\ node.count = old.count

\* Updates of an inode that keep its type; MarkDirty keeps its pointers.
LEMMA InodeFields ==
  ASSUME NEW node \in Inode
  PROVE  /\ node.ino \in Inos \cup {0} /\ node.nlink \in Nat /\ node.size \in Nat
         /\ node.count \in Nat /\ node.ptr \in [Index -> Blocks \cup {0}]
  BY DEF Inode

\* i_size_write leaves the pointers alone.
LEMMA SetSize ==
  ASSUME NEW node \in Inode, NEW s \in Nat
  PROVE  /\ [node EXCEPT !.size = s] \in Inode
         /\ SamePointers(node, [node EXCEPT !.size = s])
  BY DEF Inode, SamePointers

\* inc_nlink and drop_nlink leave the pointers alone.
LEMMA SetLinks ==
  ASSUME NEW node \in Inode, NEW k \in Nat
  PROVE  /\ [node EXCEPT !.nlink = k] \in Inode
         /\ SamePointers(node, [node EXCEPT !.nlink = k])
  BY DEF Inode, SamePointers

\* mark_inode_dirty leaves the pointers alone.
LEMMA MarkDirtyType ==
  ASSUME NEW node \in Inode
  PROVE  MarkDirty(node) \in Inode /\ SamePointers(node, MarkDirty(node))
  BY DEF Inode, MarkDirty, SamePointers

\* Where add_entry hangs a new block, if anywhere: at the first zero pointer.
HungAt(old, node, b, k) ==
  /\ k \in Index /\ old.ptr[k] = 0 /\ \A l \in Index : old.ptr[l] = 0 => k <= l
  /\ node.ptr = [old.ptr EXCEPT ![k] = b] /\ node.count = old.count + 1

\* A new block is hung at the first zero pointer or nowhere.
LEMMA AttachOutcome ==
  ASSUME NEW node \in Inode, NEW b \in Blocks, NEW n \in Attach(node, b)
  PROVE  n \in Inode /\ (n = node \/ \E k \in Index : HungAt(node, n, b, k))
<1>1. CASE n = node
  BY <1>1
<1>2. CASE \E i \in Index : /\ node.ptr[i] = 0 /\ \A l \in Index : node.ptr[l] = 0 => i <= l
                           /\ n = [node EXCEPT !.ptr = [node.ptr EXCEPT ![i] = b],
                                                 !.count = @ + 1]
  <2>1. PICK i \in Index : /\ node.ptr[i] = 0 /\ \A l \in Index : node.ptr[l] = 0 => i <= l
                           /\ n = [node EXCEPT !.ptr = [node.ptr EXCEPT ![i] = b], !.count = @ + 1]
    BY <1>2
  <2>2. /\ [node.ptr EXCEPT ![i] = b] \in [Index -> Blocks \cup {0}]
        /\ node.count \in Nat /\ node.count + 1 \in Nat
    BY InodeFields
  <2>3. n \in Inode /\ n.ptr = [node.ptr EXCEPT ![i] = b] /\ n.count = node.count + 1
    <3> DEFINE pt == [node.ptr EXCEPT ![i] = b]
               c  == node.count + 1
    <3>1. n = [node EXCEPT !.ptr = pt, !.count = c]
      BY <2>1
    <3>2. pt \in [Index -> Blocks \cup {0}] /\ c \in Nat
      BY <2>2
    <3> HIDE DEF pt, c
    <3>3. /\ [node EXCEPT !.ptr = pt, !.count = c] \in Inode
          /\ [node EXCEPT !.ptr = pt, !.count = c].ptr = pt
          /\ [node EXCEPT !.ptr = pt, !.count = c].count = c
      BY <3>2 DEF Inode
    <3>4. QED  BY <3>1, <3>3 DEF pt, c
  <2>4. QED  BY <2>1, <2>3 DEF HungAt
<1>3. QED  BY <1>1, <1>2 DEF Attach

\* The ends of naive_add_entry: a free record is used, the call fails, a new
\* block is used, or the new block cannot be read.
AddEntryFills(node, new, bm, bl, r) == \E p \in FirstOf(FreePlaces(bl, node)) :
  r = [ok |-> TRUE, bmap |-> bm, node |-> node, blk |-> Put(bl, node, p, new)]

AddEntryFails(node, bm, bl, r) ==
  /\ r = [ok |-> FALSE, bmap |-> bm, node |-> node, blk |-> bl]
  /\ IoErrors \/ (FreePlaces(bl, node) = {} /\ AllocBlock(bm) = {})

AddEntryGrows(node, new, bm, bl, r) ==
  /\ FreePlaces(bl, node) = {}
  /\ \E b \in AllocBlock(bm) : \E n \in Attach(node, b) :
       r = [ok |-> TRUE, bmap |-> bm \cup {b},
            node |-> MarkDirty([n EXCEPT !.size = @ + BlockSize]),
            blk |-> [bl EXCEPT ![b] = [ZeroBlock EXCEPT ![1] = new]]]

AddEntryStops(node, bm, bl, r) == IoErrors /\ \E b \in AllocBlock(bm) : \E n \in Attach(node, b) :
  r = [ok |-> FALSE, bmap |-> bm, node |-> n, blk |-> bl]

\* There are no other ends.
LEMMA AddEntryCases ==
  ASSUME NEW node, NEW name, NEW i, NEW bm, NEW bl, NEW r \in AddEntry(node, name, i, bm, bl)
  PROVE  \/ AddEntryFills(node, [ino |-> i, name |-> Stored[name]], bm, bl, r)
         \/ AddEntryFails(node, bm, bl, r)
         \/ AddEntryGrows(node, [ino |-> i, name |-> Stored[name]], bm, bl, r)
         \/ AddEntryStops(node, bm, bl, r)
<1> DEFINE new == [ino |-> i, name |-> Stored[name]]
           free == FreePlaces(bl, node)
           Result(ok, m, n, d) == [ok |-> ok, bmap |-> m, node |-> n, blk |-> d]
           taken == {b \in AllocBlock(bm) : free = {}}
           S1 == {Result(TRUE, bm, node, Put(bl, node, p, new)) : p \in FirstOf(free)}
           S2 == {q \in {Result(FALSE, bm, node, bl)} :
                    \/ IoErrors /\ Places(node) # {}
                    \/ free = {} /\ AllocBlock(bm) = {}}
           Z3s(b) == {Result(TRUE, bm \cup {b}, MarkDirty([n EXCEPT !.size = @ + BlockSize]),
                             [bl EXCEPT ![b] = [ZeroBlock EXCEPT ![1] = new]])
                        : n \in Attach(node, b)}
           S3 == UNION {Z3s(b) : b \in taken}
           Z4s(b) == {Result(FALSE, bm, n, bl) : n \in Attach(node, b)}
           S4 == UNION {Z4s(b) : b \in {c \in taken : IoErrors}}
<1>1. r \in ((S1 \cup S2) \cup S3) \cup S4
  BY Zenon DEF AddEntry
<1>2. CASE r \in S1
  BY <1>2 DEF AddEntryFills
<1>3. CASE r \in S2
  BY <1>3 DEF AddEntryFails
<1>4. CASE r \in S3
  <2>1. PICK b \in taken : r \in Z3s(b)
    BY <1>4, Zenon
  <2>2. QED  BY <2>1 DEF AddEntryGrows
<1>5. CASE r \in S4
  <2>1. PICK b \in taken : IoErrors /\ r \in Z4s(b)
    BY <1>5, Zenon
  <2>2. QED  BY <2>1 DEF AddEntryStops
<1>6. QED  BY <1>1, <1>2, <1>3, <1>4, <1>5, Zenon

\* What naive_add_entry may do to the bitmap and to the directory's inode.
LEMMA AddEntryOutcome ==
  ASSUME NEW node \in Inode, NEW name \in Names, NEW i \in Inos,
         NEW bm \in SUBSET Blocks, NEW bl \in BlockImages,
         NEW r \in AddEntry(node, name, i, bm, bl)
  PROVE  /\ r.bmap \in SUBSET Blocks /\ bm \subseteq r.bmap
         /\ r.node \in Inode /\ r.blk \in BlockImages
         /\ \/ SamePointers(node, r.node)
            \/ \E b \in Blocks \ bm, k \in Index :
                 HungAt(node, r.node, b, k) /\ (r.ok => b \in r.bmap)
<1> DEFINE new == [ino |-> i, name |-> Stored[name]]
           free == FreePlaces(bl, node)
<1>1. \/ \E p \in FirstOf(free) :
           r = [ok |-> TRUE, bmap |-> bm, node |-> node, blk |-> Put(bl, node, p, new)]
      \/ r = [ok |-> FALSE, bmap |-> bm, node |-> node, blk |-> bl]
      \/ \E b \in AllocBlock(bm) : \E n \in Attach(node, b) :
           r = [ok |-> TRUE, bmap |-> bm \cup {b},
                node |-> MarkDirty([n EXCEPT !.size = @ + BlockSize]),
                blk |-> [bl EXCEPT ![b] = [ZeroBlock EXCEPT ![1] = new]]]
      \/ IoErrors /\ \E b \in AllocBlock(bm) : \E n \in Attach(node, b) :
           r = [ok |-> FALSE, bmap |-> bm, node |-> n, blk |-> bl]
  <2>1. \/ AddEntryFills(node, new, bm, bl, r) \/ AddEntryFails(node, bm, bl, r)
        \/ AddEntryGrows(node, new, bm, bl, r) \/ AddEntryStops(node, bm, bl, r)
    BY AddEntryCases, Zenon
  <2>2. QED  BY <2>1, Zenon DEF AddEntryFills, AddEntryFails, AddEntryGrows, AddEntryStops
<1>2. new \in Record
  BY RecordType
<1>3. CASE \E p \in FirstOf(free) :
             r = [ok |-> TRUE, bmap |-> bm, node |-> node, blk |-> Put(bl, node, p, new)]
  <2>1. PICK p \in Places(node) :
             r = [ok |-> TRUE, bmap |-> bm, node |-> node, blk |-> Put(bl, node, p, new)]
    BY <1>3 DEF FirstOf, FreePlaces
  <2>2. Put(bl, node, p, new) \in BlockImages
    BY <1>2, PutType
  <2>3. QED  BY <2>1, <2>2 DEF SamePointers
<1>4. CASE r = [ok |-> FALSE, bmap |-> bm, node |-> node, blk |-> bl]
  BY <1>4 DEF SamePointers
<1>5. CASE \E b \in AllocBlock(bm) : \E n \in Attach(node, b) :
             r = [ok |-> TRUE, bmap |-> bm \cup {b},
                  node |-> MarkDirty([n EXCEPT !.size = @ + BlockSize]),
                  blk |-> [bl EXCEPT ![b] = [ZeroBlock EXCEPT ![1] = new]]]
  <2>0. PICK b \in AllocBlock(bm) : \E n \in Attach(node, b) :
             r = [ok |-> TRUE, bmap |-> bm \cup {b},
                  node |-> MarkDirty([n EXCEPT !.size = @ + BlockSize]),
                  blk |-> [bl EXCEPT ![b] = [ZeroBlock EXCEPT ![1] = new]]]
    BY <1>5
  <2>1. PICK n \in Attach(node, b) :
             r = [ok |-> TRUE, bmap |-> bm \cup {b},
                  node |-> MarkDirty([n EXCEPT !.size = @ + BlockSize]),
                  blk |-> [bl EXCEPT ![b] = [ZeroBlock EXCEPT ![1] = new]]]
    BY <2>0
  <2>2. b \in Blocks \ bm
    BY AllocFacts
  <2>3. n \in Inode /\ (n = node \/ \E k \in Index : HungAt(node, n, b, k))
    BY <2>2, AttachOutcome
  <2>4. /\ r.node \in Inode /\ SamePointers(n, r.node)
    <3>1. n.size + BlockSize \in Nat
      BY <2>3, InodeFields, FSAssumption
    <3>2. /\ [n EXCEPT !.size = @ + BlockSize] \in Inode
          /\ SamePointers(n, [n EXCEPT !.size = @ + BlockSize])
      BY <2>3, <3>1, SetSize
    <3>3. QED  BY <2>1, <3>2, MarkDirtyType DEF SamePointers
  <2>5. r.blk \in BlockImages
    BY <1>2, <2>1, <2>2, ZeroBlockType DEF BlockImages
  <2>6. SamePointers(node, r.node) \/ \E k \in Index : HungAt(node, r.node, b, k)
    BY <2>3, <2>4 DEF SamePointers, HungAt
  <2>7. QED  BY <2>1, <2>2, <2>4, <2>5, <2>6
<1>6. CASE IoErrors /\ \E b \in AllocBlock(bm) : \E n \in Attach(node, b) :
             r = [ok |-> FALSE, bmap |-> bm, node |-> n, blk |-> bl]
  <2>0. PICK b \in AllocBlock(bm) : \E n \in Attach(node, b) :
             r = [ok |-> FALSE, bmap |-> bm, node |-> n, blk |-> bl]
    BY <1>6
  <2>1. PICK n \in Attach(node, b) :
             r = [ok |-> FALSE, bmap |-> bm, node |-> n, blk |-> bl]
    BY <2>0
  <2>2. b \in Blocks \ bm
    BY AllocFacts
  <2>3. n \in Inode /\ (n = node \/ \E k \in Index : HungAt(node, n, b, k))
    BY <2>2, AttachOutcome
  <2>4. QED  BY <1>6, <2>1, <2>2, <2>3 DEF SamePointers
<1>7. QED  BY <1>1, <1>3, <1>4, <1>5, <1>6

----------------------------------------------------------------------------
(* Packed pointers: the part of block ownership that holds with failing    *)
(* reads too, and that types need.                                         *)

Packed(node) ==
  /\ node.count \in 0 .. BlockPerFile
  /\ \A i \in Index : node.ptr[i] # 0 <=> i <= node.count

WellFormed(os) == os \in [Objs -> Inode] /\ \A o \in Objs : Packed(os[o])

\* The inductive invariant: types and packed pointers.
Good == /\ imap \subseteq Inos /\ bmap \subseteq Blocks
        /\ WellFormed(obj)
        /\ dent \subseteq Dentry /\ blk \in BlockImages

\* The inductive invariant says no more than the two properties of the runs.
LEMMA GoodIsTyped == Good <=> TypeOK /\ PointersPacked
  BY DEF Good, TypeOK, PointersPacked, WellFormed, Packed, BlockImages

\* add_entry fills the pointer after the last one in use.
LEMMA HungPacked ==
  ASSUME NEW old \in Inode, NEW node \in Inode, NEW b \in Blocks, NEW k \in Index,
         Packed(old), HungAt(old, node, b, k)
  PROVE  Packed(node) /\ k = old.count + 1
<1>1. old.ptr \in [Index -> Blocks \cup {0}] /\ old.count \in 0 .. BlockPerFile /\ BlockPerFile \in Nat
  BY InodeFields, FSAssumption DEF Packed
<1>2. \A i \in Index : old.ptr[i] # 0 <=> i <= old.count
  BY DEF Packed
<1>3. /\ old.ptr[k] = 0 /\ (\A l \in Index : old.ptr[l] = 0 => k <= l)
      /\ node.ptr = [old.ptr EXCEPT ![k] = b] /\ node.count = old.count + 1
  BY DEF HungAt
<1>4. k = old.count + 1
  BY <1>1, <1>2, <1>3 DEF Index
<1>5. b # 0
  BY AllocFacts
<1>6. QED  BY <1>1, <1>2, <1>3, <1>4, <1>5 DEF Packed, Index

\* Packing is a matter of the pointers and their count.
LEMMA SamePacked ==
  ASSUME NEW old, NEW node, Packed(old), SamePointers(old, node)
  PROVE  Packed(node)
  BY DEF Packed, SamePointers

\* A new inode has no block.
LEMMA NewInodePacked ==
  ASSUME NEW i, NEW isdir, NEW links
  PROVE  Packed(NewInode(i, isdir, links))
  BY FSAssumption DEF Packed, NewInode, Index

\* naive_add_entry keeps a directory's inode well formed.
LEMMA AddEntryPacked ==
  ASSUME NEW node \in Inode, NEW name \in Names, NEW i \in Inos,
         NEW bm \in SUBSET Blocks, NEW bl \in BlockImages,
         NEW r \in AddEntry(node, name, i, bm, bl), Packed(node)
  PROVE  Packed(r.node)
  BY AddEntryOutcome, HungPacked, SamePacked

\* Replacing some inodes by well formed ones.
LEMMA UpdateOne ==
  ASSUME NEW os, WellFormed(os), NEW o \in Objs, NEW n \in Inode, Packed(n)
  PROVE  WellFormed([os EXCEPT ![o] = n])
  BY DEF WellFormed

\* The same for a parent and a new child.
LEMMA UpdateTwo ==
  ASSUME NEW os, WellFormed(os), NEW d \in Objs, NEW m \in Inode, Packed(m),
         NEW o \in Objs, NEW n \in Inode, Packed(n)
  PROVE  WellFormed([os EXCEPT ![d] = m, ![o] = n])
  BY DEF WellFormed

----------------------------------------------------------------------------
(* Each operation keeps types and packed pointers.                         *)

\* naive_fill_super starts with well formed objects.
LEMMA InitGood == Init => Good
<1> SUFFICES ASSUME Init PROVE Good
  OBVIOUS
<1>1. RootIno \in Inos
  BY FSAssumption, ScannedInRange
<1>2. /\ NewInode(RootIno, TRUE, 2) \in Inode /\ NoInode \in Inode
      /\ Packed(NewInode(RootIno, TRUE, 2)) /\ Packed(NoInode)
  BY <1>1, NewInodeType, NewInodePacked DEF NoInode
<1>3. WellFormed(obj)
  BY <1>2 DEF Init, WellFormed
<1>4. QED  BY <1>1, <1>3, ZeroBlockType DEF Init, Good, BlockImages

\* Freeing an inode object leaves the others well formed.
LEMMA ForgetWellFormed ==
  ASSUME NEW os, WellFormed(os), NEW o \in Objs
  PROVE  WellFormed(Forget(os, o))
<1>1. NoInode \in Inode /\ Packed(NoInode)
  BY NewInodeType, NewInodePacked DEF NoInode
<1>2. QED  BY <1>1, UpdateOne DEF Forget

\* open and close change a flag.
LEMMA SetOpen ==
  ASSUME NEW node \in Inode, NEW f \in BOOLEAN, Packed(node)
  PROVE  [node EXCEPT !.open = f] \in Inode /\ Packed([node EXCEPT !.open = f])
  BY DEF Inode, Packed

\* open and close keep the invariant.
LEMMA OpenGood ==
  ASSUME Good, NEW o \in Objs, Open(o) \/ Close(o)
  PROVE  Good'
<1>1. obj[o] \in Inode /\ Packed(obj[o])
  BY DEF Good, WellFormed
<1>2. \A f \in BOOLEAN : WellFormed([obj EXCEPT ![o] = [obj[o] EXCEPT !.open = f]])
  BY <1>1, SetOpen, UpdateOne DEF Good
<1>3. CASE Open(o)
  <2>1. obj' = [obj EXCEPT ![o] = [obj[o] EXCEPT !.open = TRUE]]
    BY <1>3 DEF Open
  <2>2. WellFormed(obj')
    BY <1>2, <2>1
  <2>3. QED  BY <1>3, <2>2 DEF Open, Good, WellFormed
<1>4. CASE Close(o)
  <2> DEFINE closed == [obj EXCEPT ![o] = [obj[o] EXCEPT !.open = FALSE]]
  <2>1. obj' = IF Named(o) THEN closed ELSE Forget(closed, o)
    BY <1>4 DEF Close
  <2>2. WellFormed(closed)
    BY <1>2
  <2>3. WellFormed(obj')
    BY <2>1, <2>2, ForgetWellFormed
  <2>4. QED  BY <1>4, <2>3 DEF Close, Good, WellFormed
<1>5. QED  BY <1>3, <1>4

\* d_instantiate joins a directory, a name and an inode.
LEMMA DentryType ==
  ASSUME NEW d \in Objs, NEW name \in Names, NEW o \in Objs
  PROVE  [par |-> d, name |-> name, child |-> o] \in Dentry
  BY DEF Dentry

\* naive_create keeps the invariant, whether or not the entry was added.
LEMMA CreateGood ==
  ASSUME Good, NEW d \in Objs, NEW name \in Names, NEW o \in Objs, Create(d, name, o)
  PROVE  Good'
<1>1. PICK i \in FindFreeInode(imap) :
        /\ imap' = imap \cup {i}
        /\ \E r \in AddEntry(obj[d], name, i, bmap, blk) :
             /\ bmap' = r.bmap
             /\ blk' = r.blk
             /\ IF r.ok
                THEN /\ obj' = [obj EXCEPT ![d] = r.node, ![o] = NewInode(i, FALSE, 1)]
                     /\ dent' = dent \cup {[par |-> d, name |-> name, child |-> o]}
                ELSE /\ obj' = [obj EXCEPT ![d] = r.node]
                     /\ UNCHANGED dent
  BY DEF Create
<1>2. PICK r \in AddEntry(obj[d], name, i, bmap, blk) :
             /\ bmap' = r.bmap
             /\ blk' = r.blk
             /\ IF r.ok
                THEN /\ obj' = [obj EXCEPT ![d] = r.node, ![o] = NewInode(i, FALSE, 1)]
                     /\ dent' = dent \cup {[par |-> d, name |-> name, child |-> o]}
                ELSE /\ obj' = [obj EXCEPT ![d] = r.node]
                     /\ UNCHANGED dent
  BY <1>1
<1>3. i \in Inos
  BY AllocFacts
<1>4. obj[d] \in Inode /\ Packed(obj[d]) /\ bmap \in SUBSET Blocks /\ blk \in BlockImages
  BY DEF Good, WellFormed
<1>5. r.bmap \in SUBSET Blocks /\ r.node \in Inode /\ r.blk \in BlockImages /\ Packed(r.node)
  BY <1>3, <1>4, AddEntryOutcome, AddEntryPacked
<1>6. NewInode(i, FALSE, 1) \in Inode /\ Packed(NewInode(i, FALSE, 1))
  BY <1>3, NewInodeType, NewInodePacked
<1>7. WellFormed(obj)
  BY DEF Good
<1>8. WellFormed(obj')
  <2>1. CASE r.ok
    <3> DEFINE n == NewInode(i, FALSE, 1)
    <3>1. obj' = [obj EXCEPT ![d] = r.node, ![o] = n]
      BY <2>1, <1>2
    <3>2. n \in Inode /\ Packed(n)
      BY <1>6
    <3> HIDE DEF n
    <3>3. WellFormed([obj EXCEPT ![d] = r.node, ![o] = n])
      BY <3>2, <1>5, <1>7, UpdateTwo
    <3>4. QED  BY <3>1, <3>3
  <2>2. CASE ~ r.ok
    BY <2>2, <1>2, <1>5, <1>7, UpdateOne
  <2>3. QED  BY <2>1, <2>2
<1>9. dent' \subseteq Dentry
  <2>1. dent' = dent \/ dent' = dent \cup {[par |-> d, name |-> name, child |-> o]}
    BY <1>2
  <2>2. QED  BY <2>1, DentryType DEF Good
<1>10. QED  BY <1>1, <1>2, <1>3, <1>5, <1>8, <1>9 DEF Good, WellFormed

\* The inode of a new directory: one block, at the first pointer.
DirNode(i, b) == [NewInode(i, TRUE, 2) EXCEPT !.size = BlockSize, !.count = 1, !.ptr[1] = b]

\* That inode is well formed and its block is its only one.
LEMMA DirNodeType ==
  ASSUME NEW i \in Inos, NEW b \in Blocks
  PROVE  /\ DirNode(i, b) \in Inode /\ Packed(DirNode(i, b))
         /\ DirNode(i, b).ptr = [k \in Index |-> IF k = 1 THEN b ELSE 0]
         /\ DirNode(i, b).count = 1
<1>1. 1 \in Index /\ BlockPerFile \in Nat /\ BlockSize \in Nat /\ b # 0
  BY FSAssumption, AllocFacts DEF Index
<1>2. DirNode(i, b) = [ino |-> i, dir |-> TRUE, nlink |-> 2, size |-> BlockSize, count |-> 1,
                       ptr |-> [k \in Index |-> IF k = 1 THEN b ELSE 0],
                       open |-> FALSE, hashed |-> FALSE, dirty |-> FALSE]
  <2> DEFINE none == [k \in Index |-> 0]
             node == [ino |-> i, dir |-> TRUE, nlink |-> 2, size |-> 0, count |-> 0, ptr |-> none,
                      open |-> FALSE, hashed |-> FALSE, dirty |-> FALSE]
  <2>1. NewInode(i, TRUE, 2) = node
    BY DEF NewInode
  <2>2. [node.ptr EXCEPT ![1] = b] = [k \in Index |-> IF k = 1 THEN b ELSE 0]
    BY <1>1
  <2>3. DirNode(i, b) = [node EXCEPT !.size = BlockSize, !.count = 1, !.ptr = [node.ptr EXCEPT ![1] = b]]
    BY <2>1 DEF DirNode
  <2>4. QED  BY <2>2, <2>3
<1>3. DirNode(i, b) \in Inode
  BY <1>1, <1>2 DEF Inode
<1>4. Packed(DirNode(i, b))
  BY <1>1, <1>2 DEF Packed, Index
<1>5. QED  BY <1>2, <1>3, <1>4

\* "." and ".." make a block of records.
LEMMA DotBlockType ==
  ASSUME NEW i \in Inos, NEW p \in Inos \cup {0}
  PROVE  DotBlock(i, p) \in [Slot -> Record]
<1>1. [ino |-> i, name |-> Dot] \in Record /\ [ino |-> p, name |-> DotDot] \in Record
  BY DEF Record
<1>2. QED  BY <1>1, ZeroBlockType DEF DotBlock

\* naive_mkdir keeps the invariant, whether or not the entry was added.
LEMMA MkdirGood ==
  ASSUME Good, NEW d \in Objs, NEW name \in Names, NEW o \in Objs, Mkdir(d, name, o)
  PROVE  Good'
<1> DEFINE filled(i, b) == [blk EXCEPT ![b] = DotBlock(i, obj[d].ino)]
           Add(i, b, r) ==
             /\ blk' = r.blk
             /\ IF r.ok
                THEN /\ bmap' = r.bmap
                     /\ obj' = [obj EXCEPT ![d] = MarkDirty([r.node EXCEPT !.nlink = @ + 1]),
                                           ![o] = DirNode(i, b)]
                     /\ dent' = dent \cup {[par |-> d, name |-> name, child |-> o]}
                ELSE /\ bmap' = r.bmap \ {b}
                     /\ obj' = [obj EXCEPT ![d] = r.node]
                     /\ UNCHANGED dent
<1>1. PICK i \in FindFreeInode(imap) : \E b \in AllocBlock(bmap) :
        /\ imap' = imap \cup {i}
        /\ \E r \in AddEntry(obj[d], name, i, bmap \cup {b}, filled(i, b)) : Add(i, b, r)
  BY DEF Mkdir, DirNode
<1>2. PICK b \in AllocBlock(bmap) :
        /\ imap' = imap \cup {i}
        /\ \E r \in AddEntry(obj[d], name, i, bmap \cup {b}, filled(i, b)) : Add(i, b, r)
  BY <1>1
<1>3. PICK r \in AddEntry(obj[d], name, i, bmap \cup {b}, filled(i, b)) : Add(i, b, r)
  BY <1>2
<1>4. i \in Inos /\ b \in Blocks
  BY AllocFacts
<1>5. /\ obj[d] \in Inode /\ Packed(obj[d]) /\ obj[d].ino \in Inos \cup {0}
      /\ bmap \cup {b} \in SUBSET Blocks
  BY <1>4, InodeFields DEF Good, WellFormed
<1>6. filled(i, b) \in BlockImages
  BY <1>4, <1>5, DotBlockType DEF Good, BlockImages
<1> HIDE DEF filled
<1>7. r.bmap \in SUBSET Blocks /\ r.node \in Inode /\ r.blk \in BlockImages /\ Packed(r.node)
  BY <1>4, <1>5, <1>6, AddEntryOutcome, AddEntryPacked
<1>8. DirNode(i, b) \in Inode /\ Packed(DirNode(i, b))
  BY <1>4, DirNodeType
<1>9. WellFormed(obj)
  BY DEF Good
<1>10. CASE r.ok
  <2> DEFINE n1 == [r.node EXCEPT !.nlink = @ + 1]
             n2 == MarkDirty(n1)
  <2>1. r.node.nlink + 1 \in Nat
    BY <1>7, InodeFields
  <2>2. n1 \in Inode /\ SamePointers(r.node, n1)
    BY <1>7, <2>1, SetLinks
  <2>3. n2 \in Inode /\ SamePointers(n1, n2)
    BY <2>2, MarkDirtyType
  <2>4. Packed(n2)
    BY <1>7, <2>2, <2>3, SamePacked
  <2>5. obj' = [obj EXCEPT ![d] = n2, ![o] = DirNode(i, b)] /\ bmap' = r.bmap /\ blk' = r.blk
    BY <1>3, <1>10
  <2> HIDE DEF n2
  <2>6. WellFormed(obj')
    BY <1>8, <1>9, <2>3, <2>4, <2>5, UpdateTwo
  <2>7. dent' \subseteq Dentry
    BY <1>3, <1>10, DentryType DEF Good
  <2>8. QED  BY <1>2, <1>4, <1>7, <2>5, <2>6, <2>7 DEF Good, WellFormed
<1>11. CASE ~ r.ok
  <2>1. obj' = [obj EXCEPT ![d] = r.node] /\ bmap' = r.bmap \ {b} /\ blk' = r.blk /\ dent' = dent
    BY <1>3, <1>11
  <2>2. WellFormed(obj')
    BY <1>7, <1>9, <2>1, UpdateOne
  <2>3. QED  BY <1>2, <1>4, <1>7, <2>1, <2>2 DEF Good, WellFormed
<1>12. QED  BY <1>10, <1>11

\* unlink and rmdir leave the inode no pointer.
LEMMA ReleasedType ==
  ASSUME NEW node \in Inode, Packed(node)
  PROVE  /\ Released(node) \in Inode /\ Packed(Released(node))
         /\ Released(node).ptr = [i \in Index |-> 0]
<1>1. \A i \in Index : ~ (i <= node.count) => node.ptr[i] = 0
  BY DEF Packed
<1>2. BlockPerFile \in Nat /\ node.count \in Nat /\ node.ptr \in [Index -> Blocks \cup {0}]
  BY FSAssumption, InodeFields
<1> DEFINE pt == [i \in Index |-> IF i <= node.count THEN 0 ELSE node.ptr[i]]
<1>3. pt = [i \in Index |-> 0]
  BY <1>1
<1>4. Released(node) = [node EXCEPT !.ptr = pt, !.count = 0, !.nlink = 0, !.size = 0]
  BY DEF Released
<1>5. pt \in [Index -> Blocks \cup {0}]
  BY <1>3
<1> HIDE DEF pt
<1>6. [node EXCEPT !.ptr = pt, !.count = 0, !.nlink = 0, !.size = 0] \in Inode
  BY <1>5 DEF Inode
<1>7. /\ Released(node).ptr = pt /\ Released(node).count = 0
  BY <1>4 DEF Inode
<1>8. QED  BY <1>2, <1>3, <1>4, <1>6, <1>7 DEF Packed, Index

\* The common tail of unlink and rmdir keeps the invariant.
LEMMA RemoveGood ==
  ASSUME Good, NEW e \in dent, NEW p \in Places(obj[e.par]), NEW parent \in Inode,
         Packed(parent), Remove(e, p, parent)
  PROVE  Good'
<1>1. e.par \in Objs /\ e.child \in Objs
  BY DEF Good, Dentry
<1> DEFINE kept == [obj EXCEPT ![e.par] = parent]
           rel  == Released(kept[e.child])
<1>2. WellFormed(kept)
  BY <1>1, UpdateOne DEF Good
<1>3. kept[e.child] \in Inode /\ Packed(kept[e.child])
  BY <1>1, <1>2 DEF WellFormed
<1>4. rel \in Inode /\ Packed(rel)
  BY <1>3, ReleasedType
<1>5. WellFormed([kept EXCEPT ![e.child] = rel])
  BY <1>1, <1>2, <1>4, UpdateOne
<1>6. obj' = Forget([kept EXCEPT ![e.child] = rel], e.child)
  <2>1. [kept EXCEPT ![e.child] = Released(@)] = [kept EXCEPT ![e.child] = rel]
    OBVIOUS
  <2>2. obj' = Forget([kept EXCEPT ![e.child] = Released(@)], e.child)
    BY DEF Remove
  <2>3. QED  BY <2>1, <2>2
<1>7. WellFormed(obj')
  BY <1>1, <1>5, <1>6, ForgetWellFormed
<1>8. blk' \in BlockImages
  <2>1. obj[e.par] \in Inode /\ blk \in BlockImages
    BY <1>1 DEF Good, WellFormed
  <2>2. Put(blk, obj[e.par], p, EmptyRecord) \in BlockImages
    BY <2>1, PutType, ZeroBlockType
  <2>3. QED  BY <2>2 DEF Remove, ClearRecord
<1>9. QED  BY <1>7, <1>8 DEF Good, Remove, WellFormed

\* naive_unlink and naive_rmdir keep the invariant.
LEMMA UnlinkGood ==
  ASSUME Good, NEW e \in dent, Unlink(e) \/ Rmdir(e)
  PROVE  Good'
<1>1. e.par \in Objs /\ obj[e.par] \in Inode /\ Packed(obj[e.par])
  BY DEF Good, Dentry, WellFormed
<1>2. FirstOf(Matches(blk, obj[e.par], e.name)) \subseteq Places(obj[e.par])
  BY DEF FirstOf, Matches
<1>3. CASE Unlink(e)
  BY <1>1, <1>2, <1>3, RemoveGood DEF Unlink
<1>4. CASE Rmdir(e)
  <2> DEFINE n1 == [obj[e.par] EXCEPT !.nlink = Pred(@)]
  <2>1. Pred(obj[e.par].nlink) \in Nat
    BY <1>1, InodeFields DEF Pred
  <2>2. n1 \in Inode /\ SamePointers(obj[e.par], n1)
    BY <1>1, <2>1, SetLinks
  <2>3. MarkDirty(n1) \in Inode /\ SamePointers(n1, MarkDirty(n1))
    BY <2>2, MarkDirtyType
  <2>4. Packed(MarkDirty(n1))
    BY <1>1, <2>2, <2>3, SamePacked
  <2>5. PICK p \in Places(obj[e.par]) : Remove(e, p, MarkDirty(n1))
    BY <1>2, <1>4 DEF Rmdir
  <2> HIDE DEF n1
  <2>6. QED  BY <2>3, <2>4, <2>5, RemoveGood
<1>5. QED  BY <1>3, <1>4

\* Rounding the end up and the size down never gives a negative number.
LEMMA DivMonotonic ==
  ASSUME NEW a \in Nat, NEW b \in Nat, a <= b, NEW d \in Nat \ {0}
  PROVE  a \div d \in Nat /\ a \div d <= b \div d
<1> DEFINE q == a \div d
           r == b \div d
<1>1. q \in Nat /\ r \in Nat /\ d * q <= a /\ b < d * (r + 1)
  OBVIOUS
<1>2. d * q < d * (r + 1)
  BY <1>1
<1>3. q < r + 1
  BY <1>1, <1>2
<1>4. QED  BY <1>1, <1>3

\* needed_blocks is computed in unsigned numbers and never wraps.
LEMMA NeededIsNatural ==
  ASSUME NEW node \in Inode, NEW end \in Nat
  PROVE  NeededBlocks(node, end) \in Nat
<1>1. CASE end > node.size
  <2>1. node.size \in Nat /\ BlockSize \in Nat \ {0}
    BY InodeFields, FSAssumption
  <2>2. node.size <= end + BlockSize - 1 /\ end + BlockSize - 1 \in Nat
    BY <1>1, <2>1
  <2>3. /\ node.size \div BlockSize \in Nat
        /\ node.size \div BlockSize <= (end + BlockSize - 1) \div BlockSize
        /\ (end + BlockSize - 1) \div BlockSize \in Nat
    BY <2>1, <2>2, DivMonotonic
  <2>4. QED  BY <1>1, <2>3 DEF NeededBlocks, CeilDiv
<1>2. CASE ~ (end > node.size)
  BY <1>2 DEF NeededBlocks
<1>3. QED  BY <1>1, <1>2

\* The new pointers of a file follow the old ones.
LEMMA ExtendType ==
  ASSUME NEW node \in Inode, Packed(node), NEW k \in 0 .. (BlockPerFile - node.count),
         NEW f \in [1 .. k -> Blocks]
  PROVE  /\ Extend(node, k, f) \in Inode /\ Packed(Extend(node, k, f))
         /\ Extend(node, k, f).ptr =
              [i \in Index |-> IF i > node.count /\ i <= node.count + k
                               THEN f[i - node.count] ELSE node.ptr[i]]
         /\ Extend(node, k, f).dir = node.dir /\ Extend(node, k, f).size = node.size
<1> DEFINE pt == [i \in Index |-> IF i > node.count /\ i <= node.count + k
                                   THEN f[i - node.count] ELSE node.ptr[i]]
           c  == node.count + k
<1>1. /\ BlockPerFile \in Nat /\ node.count \in 0 .. BlockPerFile
      /\ node.ptr \in [Index -> Blocks \cup {0}] /\ 0 \notin Blocks
  BY FSAssumption, InodeFields, AllocFacts DEF Packed
<1>2. \A i \in Index : i > node.count /\ i <= node.count + k => f[i - node.count] \in Blocks
  BY <1>1 DEF Index
<1>3. pt \in [Index -> Blocks \cup {0}] /\ c \in 0 .. BlockPerFile
  BY <1>1, <1>2
<1>4. \A i \in Index : pt[i] # 0 <=> i <= c
  <2> TAKE i \in Index
  <2>1. node.ptr[i] # 0 <=> i <= node.count
    BY DEF Packed
  <2>2. QED  BY <1>1, <1>2, <2>1 DEF Index
<1>5. Extend(node, k, f) = [node EXCEPT !.count = c, !.ptr = pt]
  BY DEF Extend
<1> HIDE DEF pt, c
<1>6. [node EXCEPT !.count = c, !.ptr = pt] \in Inode
  <2>1. c \in Nat
    BY <1>1, <1>3
  <2>2. QED  BY <1>3, <2>1 DEF Inode
<1>7. /\ Extend(node, k, f).ptr = pt /\ Extend(node, k, f).count = c
      /\ Extend(node, k, f).dir = node.dir /\ Extend(node, k, f).size = node.size
  BY <1>5 DEF Inode
<1>8. Extend(node, k, f) \in Inode /\ Packed(Extend(node, k, f))
  BY <1>3, <1>4, <1>5, <1>6, <1>7 DEF Packed
<1>9. QED  BY <1>7, <1>8 DEF pt

\* The number of blocks naive_file_write attaches: no more than the file has
\* room for, and each of them free.
Got(node, bm, end) ==
  Least(NeededBlocks(node, end), Least(BlockPerFile - node.count, Cardinality(FreeBlocks(bm))))

\* The allocation loop never takes more than the file has room for.
LEMMA GotInRange ==
  ASSUME NEW node \in Inode, Packed(node), NEW bm, NEW end \in Nat
  PROVE  Got(node, bm, end) \in 0 .. (BlockPerFile - node.count)
<1>1. /\ BlockPerFile \in Nat /\ node.count \in 0 .. BlockPerFile
      /\ NeededBlocks(node, end) \in Nat /\ Cardinality(FreeBlocks(bm)) \in Nat
  BY FSAssumption, NeededIsNatural, FreeBlocksCounted DEF Packed
<1>2. QED  BY <1>1 DEF Got, Least

\* What naive_file_write does to the inode and the block bitmap.
WriteStep(o, end, f, n) ==
  /\ bmap' = bmap \cup {f[i] : i \in 1 .. Got(obj[o], bmap, end)}
  /\ obj' = [obj EXCEPT ![o] = n]
  /\ n \in Inode /\ SamePointers(Extend(obj[o], Got(obj[o], bmap, end), f), n)
  /\ blk' \in BlockImages
  /\ UNCHANGED <<imap, dent>>

\* naive_file_write attaches blocks, may set the size, and writes file bytes.
LEMMA FileWriteOutcome ==
  ASSUME Good, NEW o \in Objs, NEW pos \in 0 .. MaxFileSize, NEW len \in WriteLens,
         FileWrite(o, pos, len)
  PROVE  /\ pos + len \in Nat
         /\ \E f \in LowestFree(bmap, Got(obj[o], bmap, pos + len)) :
              \E n \in Inode : WriteStep(o, pos + len, f, n)
<1> DEFINE end == pos + len
           got == Got(obj[o], bmap, end)
<1>1. pos \in Nat /\ len \in Nat /\ end \in Nat
  BY FSAssumption DEF MaxFileSize
<1>2. obj[o] \in Inode /\ Packed(obj[o]) /\ blk \in BlockImages
  BY DEF Good, WellFormed
<1>3. PICK f \in LowestFree(bmap, got) :
        LET node == Extend(obj[o], got, f) IN
        /\ bmap' = bmap \cup {f[i] : i \in 1 .. got}
        /\ IF got < NeededBlocks(obj[o], end)
           THEN obj' = [obj EXCEPT ![o] = node] /\ UNCHANGED blk
           ELSE \E stop \in StopsAt(node, pos, end) :
                  /\ obj' = [obj EXCEPT ![o] = IF stop > node.size
                               THEN MarkDirty([node EXCEPT !.size = stop]) ELSE node]
                  /\ blk' = [b \in Blocks |-> IF b \in Written(node, pos, stop)
                                              THEN FileBytes ELSE blk[b]]
  BY DEF FileWrite, Got
<1> DEFINE node == Extend(obj[o], got, f)
<1>4. got \in 0 .. (BlockPerFile - obj[o].count)
  BY <1>1, <1>2, GotInRange
<1>5. f \in [1 .. got -> Blocks]
  BY AllocFacts DEF LowestFree
<1> HIDE DEF got
<1>6. node \in Inode
  BY <1>2, <1>4, <1>5, ExtendType
<1>7. UNCHANGED <<imap, dent>>
  BY DEF FileWrite
<1>8. CASE got < NeededBlocks(obj[o], end)
  <2>1. obj' = [obj EXCEPT ![o] = node] /\ blk' = blk /\ bmap' = bmap \cup {f[i] : i \in 1 .. got}
    BY <1>3, <1>8
  <2>2. WriteStep(o, end, f, node)
    BY <1>2, <1>6, <1>7, <2>1 DEF WriteStep, SamePointers, got
  <2>3. QED  BY <1>1, <1>6, <2>2 DEF got
<1>9. CASE ~ (got < NeededBlocks(obj[o], end))
  <2>1. PICK stop \in StopsAt(node, pos, end) :
                  /\ obj' = [obj EXCEPT ![o] = IF stop > node.size
                               THEN MarkDirty([node EXCEPT !.size = stop]) ELSE node]
                  /\ blk' = [b \in Blocks |-> IF b \in Written(node, pos, stop)
                                              THEN FileBytes ELSE blk[b]]
    BY <1>3, <1>9
  <2>2. stop \in Nat
    <3>1. node.count * BlockSize \in Nat
      BY <1>6, InodeFields, FSAssumption
    <3>2. QED  BY <1>1, <3>1 DEF StopsAt, Least
  <2> DEFINE n == IF stop > node.size THEN MarkDirty([node EXCEPT !.size = stop]) ELSE node
  <2>3. n \in Inode /\ SamePointers(node, n)
    <3>1. /\ [node EXCEPT !.size = stop] \in Inode
          /\ SamePointers(node, [node EXCEPT !.size = stop])
      BY <1>6, <2>2, SetSize
    <3>2. QED  BY <1>6, <3>1, MarkDirtyType DEF SamePointers
  <2>4. blk' \in BlockImages
    BY <1>2, <2>1 DEF BlockImages
  <2>5. obj' = [obj EXCEPT ![o] = n]
    BY <2>1
  <2> HIDE DEF n
  <2>6. WriteStep(o, end, f, n)
    BY <1>3, <1>7, <2>3, <2>4, <2>5 DEF WriteStep, got
  <2>7. QED  BY <1>1, <2>3, <2>6 DEF got
<1>10. QED  BY <1>8, <1>9

\* naive_file_write keeps the invariant, also when it runs out of blocks.
LEMMA FileWriteGood ==
  ASSUME Good, NEW o \in Objs, NEW pos \in 0 .. MaxFileSize, NEW len \in WriteLens,
         FileWrite(o, pos, len)
  PROVE  Good'
<1> DEFINE end == pos + len
           got == Got(obj[o], bmap, end)
<1>1. end \in Nat
  BY FileWriteOutcome
<1>2. PICK f \in LowestFree(bmap, got) : \E n \in Inode : WriteStep(o, end, f, n)
  BY FileWriteOutcome
<1>3. PICK n \in Inode : WriteStep(o, end, f, n)
  BY <1>2
<1>4. obj[o] \in Inode /\ Packed(obj[o])
  BY DEF Good, WellFormed
<1>5. got \in 0 .. (BlockPerFile - obj[o].count) /\ f \in [1 .. got -> Blocks]
  BY <1>1, <1>4, GotInRange, AllocFacts DEF LowestFree
<1>6. Packed(Extend(obj[o], got, f))
  BY <1>4, <1>5, ExtendType
<1>7. Packed(n)
  BY <1>3, <1>6, SamePacked DEF WriteStep
<1>8. WellFormed(obj')
  BY <1>3, <1>7, UpdateOne DEF Good, WriteStep
<1>9. bmap' \subseteq Blocks
  BY <1>3, <1>5 DEF Good, WriteStep
<1>10. QED  BY <1>3, <1>8, <1>9 DEF Good, WriteStep, WellFormed

\* truncate keeps the invariant: it changes the size alone.
LEMMA TruncateGood ==
  ASSUME Good, NEW o \in Objs, NEW s \in TruncSizes, Truncate(o, s)
  PROVE  Good'
<1> DEFINE n1 == [obj[o] EXCEPT !.size = s]
<1>1. s \in Nat
  BY FSAssumption
<1>2. obj[o] \in Inode /\ Packed(obj[o])
  BY DEF Good, WellFormed
<1>3. n1 \in Inode /\ SamePointers(obj[o], n1)
  BY <1>1, <1>2, SetSize
<1>4. obj' = [obj EXCEPT ![o] = MarkDirty(n1)]
  BY DEF Truncate
<1> HIDE DEF n1
<1>5. MarkDirty(n1) \in Inode /\ Packed(MarkDirty(n1))
  BY <1>2, <1>3, MarkDirtyType, SamePacked
<1>6. WellFormed(obj')
  BY <1>4, <1>5, UpdateOne DEF Good
<1>7. QED  BY <1>6 DEF Good, Truncate, WellFormed

\* The invariant is inductive.
LEMMA NextGood == Good /\ [Next]_vars => Good'
<1> SUFFICES ASSUME Good, [Next]_vars PROVE Good'
  OBVIOUS
<1>1. CASE \E d \in Objs, o \in Objs, n \in Names : Create(d, n, o) \/ Mkdir(d, n, o)
  BY <1>1, CreateGood, MkdirGood
<1>2. CASE \E e \in dent : Unlink(e) \/ Rmdir(e)
  BY <1>2, UnlinkGood
<1>3. CASE \E o \in Objs : Open(o) \/ Close(o)
  BY <1>3, OpenGood
<1>4. CASE \E o \in Objs, pos \in 0 .. MaxFileSize, len \in WriteLens : FileWrite(o, pos, len)
  BY <1>4, FileWriteGood
<1>5. CASE \E o \in Objs, s \in TruncSizes : Truncate(o, s)
  BY <1>5, TruncateGood
<1>6. CASE UNCHANGED vars
  BY <1>6 DEF vars, Good, WellFormed
<1>7. QED  BY <1>1, <1>2, <1>3, <1>4, <1>5, <1>6 DEF Next

\* Every state of the mounted file system has the types of TypeOK, with every
\* pointer in the data area, and the pointers of each inode are exactly its
\* first block_count ones: for every geometry, with and without read errors.
THEOREM TypeCorrect == Spec => [](TypeOK /\ PointersPacked)
<1>1. Good => TypeOK /\ PointersPacked
  BY GoodIsTyped
<1>2. QED  BY <1>1, InitGood, NextGood, PTL DEF Spec

----------------------------------------------------------------------------
(* Ownership of blocks.  A step may give pointers up, keep them, or take   *)
(* blocks that were free: none of these lets two inodes share a block.     *)

\* NoSharedBlock and OwnedBlocksMarked, of any inodes and bitmap.
Owns(os, bm) ==
  /\ \A o, q \in Objs : \A i, k \in Index :
       os[o].ptr[i] # 0 /\ os[o].ptr[i] = os[q].ptr[k] => o = q /\ i = k
  /\ \A o \in Objs : \A i \in Index : os[o].ptr[i] \in bm \cup {0}

\* Owns is the ownership the runs check.
LEMMA OwnsIsOwnership == Good /\ Owns(obj, bmap) <=> Good /\ BlockOwnership
  BY GoodIsTyped DEF Owns, BlockOwnership, NoSharedBlock, OwnedBlocksMarked

\* Inode n after a step, where it was old: its new pointers, all different,
\* are blocks the step took from the free ones.
Takes(old, n, bm, bm2) ==
  /\ bm \subseteq bm2
  /\ \A i \in Index : n.ptr[i] = 0 \/ n.ptr[i] = old.ptr[i] \/ n.ptr[i] \in bm2 \ bm
  /\ \A i, k \in Index : n.ptr[i] = n.ptr[k] /\ n.ptr[i] \notin bm \cup {0} => i = k

\* An inode that takes only free blocks, each once, shares none with the other
\* inodes and leaves the rest as it was.
LEMMA OwnOne ==
  ASSUME NEW os, WellFormed(os), NEW bm, NEW bm2, Owns(os, bm),
         NEW o \in Objs, NEW n, Takes(os[o], n, bm, bm2)
  PROVE  Owns([os EXCEPT ![o] = n], bm2)
<1> DEFINE os2 == [os EXCEPT ![o] = n]
<1>1. \A q \in Objs : os2[q] = IF q = o THEN n ELSE os[q]
  BY DEF WellFormed
<1> HIDE DEF os2
<1>2. ASSUME NEW q \in Objs, NEW i \in Index
      PROVE  os2[q].ptr[i] \in bm2 \cup {0}
  BY <1>1 DEF Owns, Takes
<1>3. ASSUME NEW p \in Objs, NEW q \in Objs, NEW i \in Index, NEW k \in Index,
             os2[p].ptr[i] # 0, os2[p].ptr[i] = os2[q].ptr[k]
      PROVE  p = q /\ i = k
  <2>1. CASE p = o /\ q = o
    <3>1. n.ptr[i] # 0 /\ n.ptr[i] = n.ptr[k]
      BY <2>1, <1>1, <1>3
    <3>2. CASE n.ptr[i] \in bm
      BY <3>1, <3>2, <2>1 DEF Owns, Takes
    <3>3. CASE n.ptr[i] \notin bm
      BY <3>1, <3>3, <2>1 DEF Takes
    <3>4. QED  BY <3>2, <3>3
  <2>2. CASE p = o /\ q # o
    <3>1. n.ptr[i] # 0 /\ n.ptr[i] = os[q].ptr[k] /\ os[q].ptr[k] \in bm
      BY <2>2, <1>1, <1>3 DEF Owns
    <3>2. n.ptr[i] = os[o].ptr[i]
      BY <3>1 DEF Takes
    <3>3. os[o].ptr[i] # 0 /\ os[o].ptr[i] = os[q].ptr[k]
      BY <3>1, <3>2
    <3>4. o = q
      BY <3>3 DEF Owns
    <3>5. QED  BY <3>4, <2>2
  <2>3. CASE p # o /\ q = o
    <3>1. n.ptr[k] # 0 /\ n.ptr[k] = os[p].ptr[i] /\ os[p].ptr[i] \in bm
      BY <2>3, <1>1, <1>3 DEF Owns
    <3>2. n.ptr[k] = os[o].ptr[k]
      BY <3>1 DEF Takes
    <3>3. os[p].ptr[i] # 0 /\ os[p].ptr[i] = os[o].ptr[k]
      BY <3>1, <3>2, <1>3, <1>1, <2>3
    <3>4. p = o
      BY <3>3 DEF Owns
    <3>5. QED  BY <3>4, <2>3
  <2>4. CASE p # o /\ q # o
    BY <2>4, <1>1, <1>3 DEF Owns
  <2>5. QED  BY <2>1, <2>2, <2>3, <2>4
<1>4. QED  BY <1>2, <1>3 DEF Owns, os2

\* The inodes of the handlers take blocks that way.
LEMMA TakesNothing ==
  ASSUME NEW os, NEW bm, Owns(os, bm), NEW o \in Objs, NEW n, NEW bm2, bm \subseteq bm2,
         SamePointers(os[o], n) \/ n.ptr = [k \in Index |-> 0]
  PROVE  Takes(os[o], n, bm, bm2)
  BY DEF Owns, Takes, SamePointers

\* A directory that add_entry extends takes the block it was given.
LEMMA TakesHung ==
  ASSUME NEW os, WellFormed(os), NEW bm, Owns(os, bm), NEW o \in Objs, NEW n, NEW b, NEW k,
         HungAt(os[o], n, b, k), NEW bm2, bm \subseteq bm2, b \in bm2 \ bm
  PROVE  Takes(os[o], n, bm, bm2)
<1>1. os[o].ptr \in [Index -> Blocks \cup {0}] /\ n.ptr = [os[o].ptr EXCEPT ![k] = b] /\ k \in Index
  BY InodeFields DEF WellFormed, HungAt
<1>2. \A i \in Index : n.ptr[i] = IF i = k THEN b ELSE os[o].ptr[i]
  BY <1>1
<1>3. \A i \in Index : os[o].ptr[i] \in bm \cup {0}
  BY DEF Owns
<1>4. QED  BY <1>2, <1>3 DEF Takes

\* A new directory takes the block it was given.
LEMMA TakesFirst ==
  ASSUME NEW os, NEW bm, Owns(os, bm), NEW o \in Objs, NEW n, NEW b,
         n.ptr = [k \in Index |-> IF k = 1 THEN b ELSE 0],
         NEW bm2, bm \subseteq bm2, b \in bm2 \ bm
  PROVE  Takes(os[o], n, bm, bm2)
  BY DEF Takes

\* The blocks of the allocation loop: free and all different.
LEMMA LowestFreeBlocks ==
  ASSUME NEW bm, NEW k \in Nat, NEW f \in LowestFree(bm, k)
  PROVE  /\ f \in [1 .. k -> Blocks]
         /\ \A i \in 1 .. k : f[i] \in Blocks \ bm
         /\ \A i, j \in 1 .. k : f[i] = f[j] => i = j
<1>1. f \in [1 .. k -> FreeBlocks(bm)] /\ \A i, j \in 1 .. k : i < j => f[i] < f[j]
  BY DEF LowestFree
<1>2. \A i \in 1 .. k : f[i] \in Blocks \ bm /\ f[i] \in Nat
  BY <1>1, AllocFacts
<1>3. ASSUME NEW i \in 1 .. k, NEW j \in 1 .. k, f[i] = f[j]
      PROVE  i = j
  <2>1. ~ (i < j) /\ ~ (j < i)
    BY <1>1, <1>2, <1>3
  <2>2. QED  BY <2>1
<1>4. QED  BY <1>1, <1>2, <1>3

\* A file that is written takes the blocks of the allocation loop.
LEMMA TakesExtended ==
  ASSUME NEW os, WellFormed(os), NEW bm, Owns(os, bm), NEW o \in Objs, Packed(os[o]),
         NEW k \in 0 .. (BlockPerFile - os[o].count), NEW f \in LowestFree(bm, k),
         NEW n, SamePointers(Extend(os[o], k, f), n), NEW bm2,
         bm2 = bm \cup {f[i] : i \in 1 .. k}
  PROVE  Takes(os[o], n, bm, bm2)
<1> DEFINE c == os[o].count
<1>1. os[o] \in Inode /\ c \in Nat /\ k \in Nat
  BY InodeFields DEF WellFormed
<1>2. /\ \A i \in 1 .. k : f[i] \in Blocks \ bm
      /\ \A i, j \in 1 .. k : f[i] = f[j] => i = j
      /\ f \in [1 .. k -> Blocks]
  BY <1>1, LowestFreeBlocks
<1>3. n.ptr = [i \in Index |-> IF i > c /\ i <= c + k THEN f[i - c] ELSE os[o].ptr[i]]
  BY <1>1, <1>2, ExtendType DEF SamePointers
<1> HIDE DEF c
<1>4. \A i \in Index : i > c /\ i <= c + k => i - c \in 1 .. k
  BY <1>1 DEF Index
<1>5. \A i \in Index : \/ i > c /\ i <= c + k /\ n.ptr[i] = f[i - c] /\ i - c \in 1 .. k
                       \/ n.ptr[i] = os[o].ptr[i] /\ os[o].ptr[i] \in bm \cup {0}
  BY <1>3, <1>4 DEF Owns
<1>6. \A i \in Index : n.ptr[i] = 0 \/ n.ptr[i] = os[o].ptr[i] \/ n.ptr[i] \in bm2 \ bm
  BY <1>2, <1>5
<1>7. ASSUME NEW i \in Index, NEW j \in Index, n.ptr[i] = n.ptr[j], n.ptr[i] \notin bm \cup {0}
      PROVE  i = j
  <2>1. /\ n.ptr[i] = f[i - c] /\ i - c \in 1 .. k
        /\ n.ptr[j] = f[j - c] /\ j - c \in 1 .. k
    BY <1>5, <1>7
  <2>2. i - c = j - c
    BY <1>2, <1>7, <2>1
  <2>3. QED  BY <1>1, <2>2 DEF Index
<1>8. QED  BY <1>6, <1>7 DEF Takes

\* The result of naive_add_entry, put in the directory's place.
LEMMA AddEntryTakes ==
  ASSUME NEW os, WellFormed(os), NEW d \in Objs,
         NEW bm, NEW bm1 \in SUBSET Blocks, bm \subseteq bm1, Owns(os, bm),
         NEW name \in Names, NEW i \in Inos, NEW bl \in BlockImages,
         NEW r \in AddEntry(os[d], name, i, bm1, bl), r.ok \/ r.node.count = os[d].count,
         NEW bm2, bm \subseteq bm2, r.bmap \ bm1 \subseteq bm2,
         NEW n, SamePointers(r.node, n)
  PROVE  Takes(os[d], n, bm, bm2)
<1>1. os[d] \in Inode
  BY DEF WellFormed
<1>2. \/ SamePointers(os[d], r.node)
      \/ \E b \in Blocks \ bm1, k \in Index : HungAt(os[d], r.node, b, k) /\ b \in r.bmap
  <2>1. ASSUME NEW b, NEW k, HungAt(os[d], r.node, b, k)
        PROVE  r.ok
    BY <1>1, <2>1, InodeFields DEF HungAt
  <2>2. QED  BY <1>1, <2>1, AddEntryOutcome
<1>3. CASE SamePointers(os[d], r.node)
  <2>1. SamePointers(os[d], n)
    BY <1>3 DEF SamePointers
  <2>2. QED  BY <2>1, TakesNothing
<1>4. CASE \E b \in Blocks \ bm1, k \in Index : HungAt(os[d], r.node, b, k) /\ b \in r.bmap
  <2>1. PICK b \in Blocks \ bm1, k \in Index : HungAt(os[d], r.node, b, k) /\ b \in r.bmap
    BY <1>4
  <2>2. HungAt(os[d], n, b, k)
    BY <2>1 DEF HungAt, SamePointers
  <2>3. b \in bm2 \ bm
    BY <2>1
  <2>4. QED  BY <2>2, <2>3, TakesHung
<1>5. QED  BY <1>2, <1>3, <1>4

\* Two updates are one after the other.
LEMMA UpdateTwice ==
  ASSUME NEW os, WellFormed(os), NEW d \in Objs, NEW o \in Objs, NEW x, NEW y
  PROVE  [os EXCEPT ![d] = x, ![o] = y] = [[os EXCEPT ![d] = x] EXCEPT ![o] = y]
  OBVIOUS

\* The one failing read that can break what follows: a block is hung in a
\* directory and counted, reading it fails, and naive_add_entry frees it
\* without taking the pointer back (src/naive/naivefs_dir.c:66).
HalfAdded == dent' = dent /\ \E d \in Objs : obj[d].dir /\ obj'[d].count > obj[d].count

\* Nor is a block half added in a step that changes nothing.
LEMMA NotHalf == Good /\ [~ HalfAdded]_vars => ~ HalfAdded
<1>1. ASSUME Good, UNCHANGED vars PROVE ~ HalfAdded
  <2>1. \A d \in Objs : obj[d].count \in Nat
    BY <1>1, InodeFields DEF Good, WellFormed
  <2>2. QED  BY <1>1, <2>1 DEF HalfAdded, vars
<1>2. QED  BY <1>1

\* The pointers of a directory after an add_entry.
LEMMA AddEntryHangs ==
  ASSUME NEW node \in Inode, NEW name \in Names, NEW i \in Inos,
         NEW bm \in SUBSET Blocks, NEW bl \in BlockImages,
         NEW r \in AddEntry(node, name, i, bm, bl)
  PROVE  SamePointers(node, r.node) \/ \E b, k : HungAt(node, r.node, b, k)
<1>1. SamePointers(node, r.node)
      \/ \E b \in Blocks \ bm, k \in Index : HungAt(node, r.node, b, k) /\ (r.ok => b \in r.bmap)
  BY AddEntryOutcome
<1>2. QED  BY <1>1

\* In any other step an add_entry that fails leaves the pointers alone.
LEMMA WholeAdd ==
  ASSUME ~ HalfAdded, NEW d \in Objs, obj[d] \in Inode, obj[d].dir, NEW r,
         SamePointers(obj[d], r.node) \/ \E b, k : HungAt(obj[d], r.node, b, k),
         ~ r.ok => dent' = dent /\ obj'[d] = r.node
  PROVE  r.ok \/ r.node.count = obj[d].count
<1>1. SUFFICES ASSUME ~ r.ok PROVE r.node.count = obj[d].count
  OBVIOUS
<1>2. ~ (r.node.count > obj[d].count)
  BY <1>1 DEF HalfAdded
<1>3. ASSUME NEW b, NEW k, HungAt(obj[d], r.node, b, k) PROVE FALSE
  BY <1>2, <1>3, InodeFields DEF HungAt
<1>4. QED  BY <1>3 DEF SamePointers

\* naive_create keeps the ownership of blocks.
LEMMA CreateOwns ==
  ASSUME ~ HalfAdded, Good, Owns(obj, bmap),
         NEW d \in Objs, NEW name \in Names, NEW o \in Objs, Create(d, name, o)
  PROVE  Owns(obj', bmap')
<1>1. PICK i \in FindFreeInode(imap) :
        \E r \in AddEntry(obj[d], name, i, bmap, blk) :
             /\ bmap' = r.bmap
             /\ IF r.ok THEN obj' = [obj EXCEPT ![d] = r.node, ![o] = NewInode(i, FALSE, 1)]
                ELSE obj' = [obj EXCEPT ![d] = r.node] /\ dent' = dent
  BY DEF Create
<1>2. PICK r \in AddEntry(obj[d], name, i, bmap, blk) :
             /\ bmap' = r.bmap
             /\ IF r.ok THEN obj' = [obj EXCEPT ![d] = r.node, ![o] = NewInode(i, FALSE, 1)]
                ELSE obj' = [obj EXCEPT ![d] = r.node] /\ dent' = dent
  BY <1>1
<1>3. /\ i \in Inos /\ WellFormed(obj) /\ obj[d] \in Inode /\ Packed(obj[d])
      /\ bmap \in SUBSET Blocks /\ blk \in BlockImages
  BY AllocFacts DEF Good, WellFormed
<1>4. bmap \subseteq r.bmap /\ r.node \in Inode /\ Packed(r.node)
  BY <1>3, AddEntryOutcome, AddEntryPacked
<1>5. Takes(obj[d], r.node, bmap, r.bmap)
  <2>1. obj[d].dir /\ (~ r.ok => dent' = dent /\ obj'[d] = r.node)
    BY <1>2, <1>3 DEF Create, MayCreate, WellFormed
  <2>2. SamePointers(obj[d], r.node) \/ \E b, k : HungAt(obj[d], r.node, b, k)
    BY <1>3, AddEntryHangs
  <2>3. r.ok \/ r.node.count = obj[d].count
    BY <1>3, <2>1, <2>2, WholeAdd
  <2>4. QED  BY <1>3, <1>4, <2>3, AddEntryTakes DEF SamePointers
<1> DEFINE os1 == [obj EXCEPT ![d] = r.node]
<1>6. Owns(os1, r.bmap) /\ WellFormed(os1)
  BY <1>3, <1>4, <1>5, OwnOne, UpdateOne
<1>7. CASE r.ok
  <2> DEFINE n == NewInode(i, FALSE, 1)
  <2>1. n.ptr = [k \in Index |-> 0]
    BY DEF NewInode
  <2>2. obj' = [os1 EXCEPT ![o] = n]
    BY <1>2, <1>3, <1>7, UpdateTwice
  <2> HIDE DEF n, os1
  <2>3. Takes(os1[o], n, r.bmap, r.bmap)
    BY <1>6, <2>1, TakesNothing
  <2>4. Owns([os1 EXCEPT ![o] = n], r.bmap)
    BY <1>6, <2>3, OwnOne
  <2>5. QED  BY <1>2, <2>2, <2>4
<1>8. CASE ~ r.ok
  BY <1>2, <1>6, <1>8
<1>9. QED  BY <1>7, <1>8

\* naive_mkdir keeps the ownership of blocks: the parent and the new directory
\* may each take one.
LEMMA MkdirOwns ==
  ASSUME ~ HalfAdded, Good, Owns(obj, bmap),
         NEW d \in Objs, NEW name \in Names, NEW o \in Objs, Mkdir(d, name, o)
  PROVE  Owns(obj', bmap')
<1> DEFINE filled(i, b) == [blk EXCEPT ![b] = DotBlock(i, obj[d].ino)]
           Add(i, b, r) ==
             IF r.ok
             THEN /\ bmap' = r.bmap
                  /\ obj' = [obj EXCEPT ![d] = MarkDirty([r.node EXCEPT !.nlink = @ + 1]),
                                        ![o] = DirNode(i, b)]
             ELSE /\ bmap' = r.bmap \ {b}
                  /\ obj' = [obj EXCEPT ![d] = r.node]
                  /\ dent' = dent
<1>1. PICK i \in FindFreeInode(imap) : \E b \in AllocBlock(bmap) :
        \E r \in AddEntry(obj[d], name, i, bmap \cup {b}, filled(i, b)) : Add(i, b, r)
  BY DEF Mkdir, DirNode
<1>2. PICK b \in AllocBlock(bmap) :
        \E r \in AddEntry(obj[d], name, i, bmap \cup {b}, filled(i, b)) : Add(i, b, r)
  BY <1>1
<1>3. PICK r \in AddEntry(obj[d], name, i, bmap \cup {b}, filled(i, b)) : Add(i, b, r)
  BY <1>2
<1>4. /\ i \in Inos /\ b \in Blocks \ bmap /\ WellFormed(obj) /\ obj[d] \in Inode
      /\ Packed(obj[d]) /\ bmap \cup {b} \in SUBSET Blocks /\ obj[d].ino \in Inos \cup {0}
  BY AllocFacts, InodeFields DEF Good, WellFormed
<1>5. filled(i, b) \in BlockImages
  BY <1>4, DotBlockType DEF Good, BlockImages
<1> HIDE DEF filled
<1>6. bmap \cup {b} \subseteq r.bmap /\ r.node \in Inode /\ Packed(r.node)
  BY <1>4, <1>5, AddEntryOutcome, AddEntryPacked
<1> DEFINE bm2 == r.bmap \ {b}
<1>7. bmap \subseteq bm2 /\ r.bmap \ (bmap \cup {b}) \subseteq bm2
  BY <1>4, <1>6
<1>8. \A n : SamePointers(r.node, n) => Takes(obj[d], n, bmap, bm2)
  <2>1. obj[d].dir /\ (~ r.ok => dent' = dent /\ obj'[d] = r.node)
    BY <1>3, <1>4 DEF Mkdir, MayCreate, WellFormed
  <2>2. SamePointers(obj[d], r.node) \/ \E c, k : HungAt(obj[d], r.node, c, k)
    BY <1>4, <1>5, AddEntryHangs
  <2>3. r.ok \/ r.node.count = obj[d].count
    BY <1>4, <2>1, <2>2, WholeAdd
  <2>4. QED  BY <1>4, <1>5, <1>7, <2>3, AddEntryTakes
<1>9. CASE r.ok
  <2> DEFINE n1 == [r.node EXCEPT !.nlink = @ + 1]
             n2 == MarkDirty(n1)
             os1 == [obj EXCEPT ![d] = n2]
  <2>1. r.node.nlink + 1 \in Nat
    BY <1>6, InodeFields
  <2>2. n1 \in Inode /\ SamePointers(r.node, n1)
    BY <1>6, <2>1, SetLinks
  <2>3. n2 \in Inode /\ SamePointers(r.node, n2)
    BY <2>2, MarkDirtyType DEF SamePointers
  <2>4. Packed(n2)
    BY <1>6, <2>3, SamePacked
  <2>5. bmap' = r.bmap /\ obj' = [obj EXCEPT ![d] = n2, ![o] = DirNode(i, b)]
    BY <1>3, <1>9
  <2> HIDE DEF n2
  <2>6. obj' = [os1 EXCEPT ![o] = DirNode(i, b)]
    BY <1>4, <2>5, UpdateTwice
  <2>7. Owns(os1, bm2) /\ WellFormed(os1)
    BY <1>4, <1>8, <2>3, <2>4, OwnOne, UpdateOne DEF Good
  <2>8. DirNode(i, b).ptr = [k \in Index |-> IF k = 1 THEN b ELSE 0]
    BY <1>4, DirNodeType
  <2>9. Takes(os1[o], DirNode(i, b), bm2, r.bmap)
    <3>1. bm2 \subseteq r.bmap /\ b \in r.bmap \ bm2
      BY <1>6
    <3> HIDE DEF os1, bm2
    <3>2. QED  BY <2>7, <2>8, <3>1, TakesFirst
  <2> HIDE DEF os1, bm2
  <2>10. Owns([os1 EXCEPT ![o] = DirNode(i, b)], r.bmap)
    BY <2>7, <2>9, OwnOne
  <2>11. QED  BY <2>5, <2>6, <2>10
<1>10. CASE ~ r.ok
  <2>1. Takes(obj[d], r.node, bmap, bm2)
    BY <1>8 DEF SamePointers
  <2>2. Owns([obj EXCEPT ![d] = r.node], bm2)
    BY <1>4, <2>1, OwnOne
  <2>3. QED  BY <1>3, <1>10, <2>2
<1>11. QED  BY <1>9, <1>10

\* An object without pointers, or with the ones it had, shares nothing.
LEMMA OwnSame ==
  ASSUME NEW os, WellFormed(os), NEW bm, Owns(os, bm), NEW o \in Objs, NEW n,
         SamePointers(os[o], n) \/ n.ptr = [k \in Index |-> 0]
  PROVE  Owns([os EXCEPT ![o] = n], bm)
<1>1. Takes(os[o], n, bm, bm)
  BY TakesNothing
<1>2. QED  BY <1>1, OwnOne

\* No inode has a block at first.
LEMMA InitOwns == Init => Owns(obj, bmap)
  BY DEF Init, Owns, NewInode, NoInode

\* A freed object owns nothing.
LEMMA ForgetOwns ==
  ASSUME NEW os, WellFormed(os), NEW bm, Owns(os, bm), NEW o \in Objs
  PROVE  Owns(Forget(os, o), bm)
<1>1. NoInode.ptr = [k \in Index |-> 0]
  BY DEF NoInode, NewInode
<1>2. QED  BY <1>1, OwnSame DEF Forget

\* open and close, and the end of an unlinked file, keep the ownership.
LEMMA OpenOwns ==
  ASSUME Good, Owns(obj, bmap), NEW o \in Objs, Open(o) \/ Close(o)
  PROVE  Owns(obj', bmap')
<1> DEFINE Flagged(f) == [obj EXCEPT ![o] = [obj[o] EXCEPT !.open = f]]
<1>1. obj[o] \in Inode /\ Packed(obj[o]) /\ WellFormed(obj)
  BY DEF Good, WellFormed
<1>2. \A f \in BOOLEAN : WellFormed(Flagged(f)) /\ Owns(Flagged(f), bmap)
  <2> TAKE f \in BOOLEAN
  <2> DEFINE n == [obj[o] EXCEPT !.open = f]
  <2>1. n \in Inode /\ Packed(n)
    BY <1>1, SetOpen
  <2>2. SamePointers(obj[o], n)
    BY <1>1 DEF SamePointers, Inode
  <2> HIDE DEF n
  <2>3. WellFormed([obj EXCEPT ![o] = n]) /\ Owns([obj EXCEPT ![o] = n], bmap)
    BY <1>1, <2>1, <2>2, UpdateOne, OwnSame
  <2>4. QED  BY <2>3 DEF n
<1>3. CASE Open(o)
  BY <1>2, <1>3 DEF Open
<1>4. CASE Close(o)
  <2>1. obj' = IF Named(o) THEN Flagged(FALSE) ELSE Forget(Flagged(FALSE), o)
    BY <1>4 DEF Close
  <2> HIDE DEF Flagged
  <2>2. Owns(obj', bmap)
    BY <1>2, <2>1, ForgetOwns
  <2>3. QED  BY <1>4, <2>2 DEF Close
<1>5. QED  BY <1>3, <1>4

\* The released blocks leave the bitmap, and no other inode pointed to them.
LEMMA RemoveOwns ==
  ASSUME Good, Owns(obj, bmap), NEW e \in dent, NEW p, NEW parent \in Inode,
         SamePointers(obj[e.par], parent), Remove(e, p, parent)
  PROVE  Owns(obj', bmap')
<1> DEFINE c    == e.child
           kept == [obj EXCEPT ![e.par] = parent]
           bm2  == bmap \ OwnBlocks(obj[c])
           rel  == [kept EXCEPT ![c] = Released(kept[c])]
<1>1. e.par \in Objs /\ c \in Objs /\ WellFormed(obj)
  BY DEF Good, Dentry
<1>2. Packed(parent)
  BY <1>1, SamePacked DEF WellFormed
<1>3. WellFormed(kept) /\ Owns(kept, bmap)
  BY <1>1, <1>2, UpdateOne, OwnSame
<1>4. /\ kept[c].ptr = obj[c].ptr /\ kept[c] \in Inode /\ Packed(kept[c]) /\ Packed(obj[c])
  BY <1>1, <1>3 DEF WellFormed, SamePointers
<1>5. OwnBlocks(obj[c]) = {kept[c].ptr[i] : i \in Index} \ {0}
  BY <1>4 DEF OwnBlocks, Packed
<1> HIDE DEF kept
<1>6. /\ Released(kept[c]) \in Inode /\ Packed(Released(kept[c]))
      /\ Released(kept[c]).ptr = [i \in Index |-> 0]
  BY <1>4, ReleasedType
<1>7. WellFormed(rel) /\ Owns(rel, bmap)
  BY <1>1, <1>3, <1>6, UpdateOne, OwnSame
<1>8. \A q \in Objs : rel[q].ptr = IF q = c THEN [i \in Index |-> 0] ELSE kept[q].ptr
  BY <1>3, <1>6 DEF WellFormed
<1> HIDE DEF rel
<1>9. ASSUME NEW q \in Objs, NEW i \in Index
      PROVE  rel[q].ptr[i] \in bm2 \cup {0}
  <2>1. CASE q = c
    BY <1>8, <2>1
  <2>2. CASE q # c
    <3>1. rel[q].ptr[i] = kept[q].ptr[i] /\ kept[q].ptr[i] \in bmap \cup {0}
      BY <1>3, <1>8, <2>2 DEF Owns
    <3>2. \A k \in Index : kept[q].ptr[i] # 0 => kept[q].ptr[i] # kept[c].ptr[k]
      BY <1>1, <1>3, <2>2 DEF Owns
    <3>3. QED  BY <1>5, <3>1, <3>2
  <2>3. QED  BY <2>1, <2>2
<1>10. Owns(rel, bm2)
  BY <1>7, <1>9 DEF Owns
<1>11. obj' = Forget(rel, c) /\ bmap' = bm2
  <2>1. [kept EXCEPT ![c] = Released(@)] = rel
    BY DEF rel
  <2>2. obj' = Forget([kept EXCEPT ![c] = Released(@)], c) /\ bmap' = bm2
    BY DEF Remove, kept
  <2>3. QED  BY <2>1, <2>2
<1> HIDE DEF bm2
<1>12. Owns(Forget(rel, c), bm2)
  BY <1>1, <1>7, <1>10, ForgetOwns
<1>13. QED  BY <1>11, <1>12

\* naive_unlink and naive_rmdir keep the ownership of blocks.
LEMMA UnlinkOwns ==
  ASSUME Good, Owns(obj, bmap), NEW e \in dent, Unlink(e) \/ Rmdir(e)
  PROVE  Owns(obj', bmap')
<1>1. e.par \in Objs /\ obj[e.par] \in Inode
  BY DEF Good, Dentry, WellFormed
<1>2. CASE Unlink(e)
  <2>1. SamePointers(obj[e.par], obj[e.par])
    BY DEF SamePointers
  <2>2. PICK p : Remove(e, p, obj[e.par])
    BY <1>2 DEF Unlink
  <2>3. QED  BY <1>1, <2>1, <2>2, RemoveOwns
<1>3. CASE Rmdir(e)
  <2> DEFINE n1 == [obj[e.par] EXCEPT !.nlink = Pred(@)]
  <2>1. Pred(obj[e.par].nlink) \in Nat
    BY <1>1, InodeFields DEF Pred
  <2>2. n1 \in Inode /\ SamePointers(obj[e.par], n1)
    BY <1>1, <2>1, SetLinks
  <2>3. PICK p : Remove(e, p, MarkDirty(n1))
    BY <1>3 DEF Rmdir
  <2> HIDE DEF n1
  <2>4. MarkDirty(n1) \in Inode /\ SamePointers(obj[e.par], MarkDirty(n1))
    BY <2>2, MarkDirtyType DEF SamePointers
  <2>5. QED  BY <2>3, <2>4, RemoveOwns
<1>4. QED  BY <1>2, <1>3

\* naive_file_write keeps the ownership of blocks, also when it fails.
LEMMA FileWriteOwns ==
  ASSUME Good, Owns(obj, bmap), NEW o \in Objs, NEW pos \in 0 .. MaxFileSize,
         NEW len \in WriteLens, FileWrite(o, pos, len)
  PROVE  Owns(obj', bmap')
<1> DEFINE end == pos + len
           got == Got(obj[o], bmap, end)
<1>1. end \in Nat
  BY FileWriteOutcome
<1>2. PICK f \in LowestFree(bmap, got) : \E n \in Inode : WriteStep(o, end, f, n)
  BY FileWriteOutcome
<1>3. PICK n \in Inode : WriteStep(o, end, f, n)
  BY <1>2
<1>4. obj[o] \in Inode /\ Packed(obj[o]) /\ WellFormed(obj)
  BY DEF Good, WellFormed
<1>5. got \in 0 .. (BlockPerFile - obj[o].count)
  BY <1>1, <1>4, GotInRange
<1>6. /\ SamePointers(Extend(obj[o], got, f), n) /\ obj' = [obj EXCEPT ![o] = n]
      /\ bmap' = bmap \cup {f[i] : i \in 1 .. got}
  BY <1>3 DEF WriteStep
<1> HIDE DEF got
<1>7. Takes(obj[o], n, bmap, bmap')
  BY <1>4, <1>5, <1>6, TakesExtended
<1>8. Owns([obj EXCEPT ![o] = n], bmap')
  BY <1>4, <1>7, OwnOne
<1>9. QED  BY <1>6, <1>8

\* truncate keeps the ownership of blocks.
LEMMA TruncateOwns ==
  ASSUME Good, Owns(obj, bmap), NEW o \in Objs, NEW s \in TruncSizes, Truncate(o, s)
  PROVE  Owns(obj', bmap')
<1> DEFINE n1 == [obj[o] EXCEPT !.size = s]
<1>1. s \in Nat
  BY FSAssumption
<1>2. obj[o] \in Inode /\ WellFormed(obj)
  BY DEF Good, WellFormed
<1>3. n1 \in Inode /\ SamePointers(obj[o], n1)
  BY <1>1, <1>2, SetSize
<1>4. obj' = [obj EXCEPT ![o] = MarkDirty(n1)] /\ bmap' = bmap
  BY DEF Truncate
<1> HIDE DEF n1
<1>5. SamePointers(obj[o], MarkDirty(n1))
  BY <1>3, MarkDirtyType DEF SamePointers
<1>6. QED  BY <1>2, <1>4, <1>5, OwnSame

\* Ownership is inductive together with packing, but for half-added blocks.
LEMMA NextOwns == ~ HalfAdded /\ Good /\ Owns(obj, bmap) /\ [Next]_vars => Owns(obj, bmap)'
<1> SUFFICES ASSUME ~ HalfAdded, Good, Owns(obj, bmap), [Next]_vars
             PROVE  Owns(obj', bmap')
  OBVIOUS
<1>1. CASE \E d \in Objs, o \in Objs, n \in Names : Create(d, n, o) \/ Mkdir(d, n, o)
  BY <1>1, CreateOwns, MkdirOwns
<1>2. CASE \E e \in dent : Unlink(e) \/ Rmdir(e)
  BY <1>2, UnlinkOwns
<1>3. CASE \E o \in Objs : Open(o) \/ Close(o)
  BY <1>3, OpenOwns
<1>4. CASE \E o \in Objs, pos \in 0 .. MaxFileSize, len \in WriteLens : FileWrite(o, pos, len)
  BY <1>4, FileWriteOwns
<1>5. CASE \E o \in Objs, s \in TruncSizes : Truncate(o, s)
  BY <1>5, TruncateOwns
<1>6. CASE UNCHANGED vars
  BY <1>6 DEF vars
<1>7. QED  BY <1>1, <1>2, <1>3, <1>4, <1>5, <1>6 DEF Next

\* As long as no block is half added to a directory, no block ever belongs to
\* two inodes, or twice to one, and every block an inode points to is marked
\* in the block bitmap: whatever the geometry, the names, and the order of
\* creates, unlinks, writes, truncates and closes of unlinked files, and
\* whichever other reads fail.
THEOREM NoBlockIsShared ==
  Spec /\ [][~ HalfAdded]_vars => [](NoSharedBlock /\ OwnedBlocksMarked)
<1> DEFINE Inv == Good /\ Owns(obj, bmap)
<1>1. Init => Inv
  BY InitGood, InitOwns
<1>2. Inv /\ [Next]_vars /\ [~ HalfAdded]_vars => Inv'
  BY NotHalf, NextGood, NextOwns
<1>3. Inv => NoSharedBlock /\ OwnedBlocksMarked
  BY OwnsIsOwnership DEF BlockOwnership
<1>4. QED  BY <1>1, <1>2, <1>3, PTL DEF Spec
\* Without read errors the question does not arise: an add_entry that fails
\* leaves the directory's inode as it was.
LEMMA FailsUntouched ==
  ASSUME ~ IoErrors, NEW node, NEW name, NEW i, NEW bm, NEW bl,
         NEW r \in AddEntry(node, name, i, bm, bl)
  PROVE  r.ok \/ r.node = node
<1> DEFINE new == [ino |-> i, name |-> Stored[name]]
<1>1. ~ AddEntryStops(node, bm, bl, r)
  BY DEF AddEntryStops
<1>2. \/ AddEntryFills(node, new, bm, bl, r) \/ AddEntryFails(node, bm, bl, r)
      \/ AddEntryGrows(node, new, bm, bl, r) \/ AddEntryStops(node, bm, bl, r)
  BY AddEntryCases, Zenon
<1> HIDE DEF new
<1>3. AddEntryFills(node, new, bm, bl, r) => r.ok
  BY DEF AddEntryFills
<1>4. AddEntryGrows(node, new, bm, bl, r) => r.ok
  BY DEF AddEntryGrows
<1>5. AddEntryFails(node, bm, bl, r) => r.node = node
  BY DEF AddEntryFails
<1>6. QED  BY <1>1, <1>2, <1>3, <1>4, <1>5

\* Freeing an inode object counts no block.
LEMMA ForgetCounts ==
  ASSUME NEW os, WellFormed(os), NEW o \in Objs, NEW d \in Objs
  PROVE  ~ (Forget(os, o)[d].count > os[d].count)
<1>1. os[d].count \in Nat
  BY InodeFields DEF WellFormed
<1>2. NoInode.count = 0
  BY DEF NoInode, NewInode
<1>3. Forget(os, o)[d] \in {os[d], NoInode}
  BY DEF Forget, WellFormed
<1>4. QED  BY <1>1, <1>2, <1>3

\* When an add_entry fails, or nothing is added, no directory counts a block
\* more.
LEMMA NoErrorsNoHalf == ~ IoErrors /\ Good /\ [Next]_vars => ~ HalfAdded
<1> SUFFICES ASSUME ~ IoErrors, Good, [Next]_vars, dent' = dent,
                    NEW c \in Objs, obj[c].dir
             PROVE  ~ (obj'[c].count > obj[c].count)
  BY DEF HalfAdded
<1>1. WellFormed(obj) /\ obj \in [Objs -> Inode] /\ obj[c].count \in Nat
  BY InodeFields DEF Good, WellFormed
<1>2. ASSUME NEW d \in Objs, NEW o \in Objs, NEW n \in Names, Create(d, n, o) \/ Mkdir(d, n, o)
      PROVE  obj' = obj
  <2>1. [par |-> d, name |-> n, child |-> o] \notin dent
    BY <1>2 DEF Create, Mkdir, MayCreate
  <2>2. \E i, bm, bl : \E r \in AddEntry(obj[d], n, i, bm, bl) :
          IF r.ok THEN dent' = dent \cup {[par |-> d, name |-> n, child |-> o]}
          ELSE obj' = [obj EXCEPT ![d] = r.node]
    <3>1. CASE Create(d, n, o)
      <4>1. PICK i \in FindFreeInode(imap) : \E r \in AddEntry(obj[d], n, i, bmap, blk) :
              IF r.ok THEN dent' = dent \cup {[par |-> d, name |-> n, child |-> o]}
              ELSE obj' = [obj EXCEPT ![d] = r.node]
        BY <3>1 DEF Create
      <4>2. QED  BY <4>1
    <3>2. CASE Mkdir(d, n, o)
      <4>1. PICK i \in FindFreeInode(imap), b \in AllocBlock(bmap) :
              \E r \in AddEntry(obj[d], n, i, bmap \cup {b},
                                [blk EXCEPT ![b] = DotBlock(i, obj[d].ino)]) :
              IF r.ok THEN dent' = dent \cup {[par |-> d, name |-> n, child |-> o]}
              ELSE obj' = [obj EXCEPT ![d] = r.node]
        BY <3>2 DEF Mkdir
      <4>2. QED  BY <4>1
    <3>3. QED  BY <1>2, <3>1, <3>2
  <2>3. PICK i, bm, bl : \E r \in AddEntry(obj[d], n, i, bm, bl) :
          IF r.ok THEN dent' = dent \cup {[par |-> d, name |-> n, child |-> o]}
          ELSE obj' = [obj EXCEPT ![d] = r.node]
    BY <2>2
  <2>4. PICK r \in AddEntry(obj[d], n, i, bm, bl) :
          IF r.ok THEN dent' = dent \cup {[par |-> d, name |-> n, child |-> o]}
          ELSE obj' = [obj EXCEPT ![d] = r.node]
    BY <2>3
  <2>5. ~ r.ok
    BY <2>1, <2>4
  <2>6. r.node = obj[d]
    BY <2>5, FailsUntouched
  <2>7. QED  BY <1>1, <2>4, <2>5, <2>6
<1>3. ASSUME NEW e \in dent, Unlink(e) \/ Rmdir(e) PROVE FALSE
  BY <1>3 DEF Unlink, Rmdir, Remove
<1>4. ASSUME NEW o \in Objs, Open(o) PROVE obj'[c].count = obj[c].count
  BY <1>1, <1>4 DEF Open, Inode
<1>5. ASSUME NEW o \in Objs, Close(o) PROVE ~ (obj'[c].count > obj[c].count)
  <2> DEFINE closed == [obj EXCEPT ![o] = [obj[o] EXCEPT !.open = FALSE]]
  <2>1. obj' = IF Named(o) THEN closed ELSE Forget(closed, o)
    BY <1>5 DEF Close
  <2>2. WellFormed(closed)
    BY <1>1, SetOpen, UpdateOne DEF WellFormed
  <2>3. closed[c].count = obj[c].count
    BY <1>1 DEF Inode
  <2> HIDE DEF closed
  <2>4. ~ (Forget(closed, o)[c].count > closed[c].count)
    BY <2>2, ForgetCounts
  <2>5. QED  BY <1>1, <2>1, <2>3, <2>4
<1>6. ASSUME NEW o \in Objs, NEW pos \in 0 .. MaxFileSize, NEW len \in WriteLens,
             FileWrite(o, pos, len)
      PROVE  obj'[c] = obj[c]
  <2>1. c # o
    BY <1>6 DEF FileWrite
  <2>2. \E n : obj' = [obj EXCEPT ![o] = n]
    BY <1>6, FileWriteOutcome DEF WriteStep
  <2>3. QED  BY <1>1, <2>1, <2>2
<1>7. ASSUME NEW o \in Objs, NEW s \in TruncSizes, Truncate(o, s) PROVE obj'[c] = obj[c]
  BY <1>1, <1>7 DEF Truncate
<1>8. CASE UNCHANGED vars
  BY <1>1, <1>8 DEF vars
<1>9. QED  BY <1>1, <1>2, <1>3, <1>4, <1>5, <1>6, <1>7, <1>8 DEF Next

\* Without read errors no block is ever half added, so the theorems that
\* exclude it are about every behaviour.
THEOREM NoErrorsNoHalfAdds == ~ IoErrors => (Spec => [][~ HalfAdded]_vars)
<1> SUFFICES ASSUME ~ IoErrors PROVE Spec => [][~ HalfAdded]_vars
  OBVIOUS
<1>1. Good /\ [Next]_vars => [~ HalfAdded]_vars
  BY NoErrorsNoHalf
<1>2. QED  BY <1>1, InitGood, NextGood, PTL DEF Spec
----------------------------------------------------------------------------
(* Names, link counts and inode numbers, and the sizes of files, with and  *)
(* without read errors.                                                    *)
(*                                                                         *)
(* Seen from the names, every handler does one of four things: it leaves   *)
(* them alone, drops an object nothing names, adds a name with a new       *)
(* object, or removes one.  Each handler is first put into its kind; the   *)
(* invariant then only has to survive the four kinds.                      *)

(* The inductive invariant.                                                *)

\* Dentries and objects fit: a dentry joins two live objects, names a linked
\* one, and neither its child nor its name in the parent is used twice.
NamesFit(os, dn) ==
  /\ \A o \in Objs : os[o].nlink > 0 => os[o].ino # 0
  /\ os[RootObj].nlink > 0 /\ os[RootObj].dir /\ os[RootObj].ino = RootIno
  /\ \A e \in dn : /\ e.child # RootObj /\ os[e.child].nlink > 0
                   /\ os[e.par].ino # 0 /\ os[e.par].dir
                   /\ e.par # e.child
  /\ \A e, f \in dn :
       (e.child = f.child \/ (e.par = f.par /\ e.name = f.name)) => e = f

\* LinkedInodeNumbers of any objects and bitmap.
NumbersFit(im, os) ==
  \A o, q \in Objs : os[o].nlink > 0 =>
     /\ os[o].ino \in im
     /\ os[q].nlink > 0 /\ os[o].ino = os[q].ino => o = q

SubDirs(os, dn, d) == {e \in dn : e.par = d /\ os[e.child].dir}

\* DirLinkCount of any objects and dentries.
LinksFit(os, dn) ==
  \A d \in Objs : os[d].nlink > 0 /\ os[d].dir =>
     os[d].nlink = 2 + Cardinality(SubDirs(os, dn, d))

TreeFits == /\ Good /\ IsFiniteSet(dent)
            /\ NamesFit(obj, dent) /\ NumbersFit(imap, obj) /\ LinksFit(obj, dent)

\* The invariant gives the two properties of the runs.
LEMMA TreeFitsIsProperties == TreeFits => LinkedInodeNumbers /\ DirLinkCount
<1> SUFFICES ASSUME TreeFits PROVE LinkedInodeNumbers /\ DirLinkCount
  OBVIOUS
<1>1. LinkedInodeNumbers
  BY DEF TreeFits, NumbersFit, LinkedInodeNumbers, Linked
<1>2. ASSUME NEW d \in LinkedDirs
      PROVE  obj[d].nlink = 2 + Cardinality({e \in ChildrenOf(d) : obj[e.child].dir})
  <2>1. {e \in ChildrenOf(d) : obj[e.child].dir} = SubDirs(obj, dent, d)
    BY DEF ChildrenOf, SubDirs
  <2>2. QED  BY <2>1 DEF TreeFits, LinksFit, LinkedDirs, Linked
<1>3. QED  BY <1>1, <1>2 DEF DirLinkCount

----------------------------------------------------------------------------
(* The kinds of step.                                                      *)

\* What the tree sees of an inode.
SameLinks(old, n) == n.ino = old.ino /\ n.dir = old.dir /\ n.nlink = old.nlink

\* Names and links stay; an inode number may be lost (a create that fails).
StepKeeps ==
  /\ imap \subseteq imap' /\ dent' = dent
  /\ \A q \in Objs : SameLinks(obj[q], obj'[q])

\* The last use of an object without a name ends.
StepForgets(o) ==
  /\ imap' = imap /\ dent' = dent
  /\ o # RootObj /\ \A e \in dent : e.child # o /\ e.par # o
  /\ obj'[o].nlink = 0
  /\ \A q \in Objs \ {o} : SameLinks(obj[q], obj'[q])

\* A name and an unused object with a free number are added to directory d.
StepAdds(d, name, o, i) ==
  /\ i \in Inos \ imap /\ imap' = imap \cup {i}
  /\ obj[o].ino = 0 /\ obj[d].dir /\ obj[d].nlink > 0
  /\ \A e \in dent : ~ (e.par = d /\ e.name = name)
  /\ dent' = dent \cup {[par |-> d, name |-> name, child |-> o]}
  /\ obj'[o].ino = i /\ obj'[o].dir \in BOOLEAN
  /\ obj'[o].nlink = IF obj'[o].dir THEN 2 ELSE 1
  /\ obj'[d].ino = obj[d].ino /\ obj'[d].dir = obj[d].dir
  /\ obj'[d].nlink = IF obj'[o].dir THEN obj[d].nlink + 1 ELSE obj[d].nlink
  /\ \A q \in Objs \ {d, o} : SameLinks(obj[q], obj'[q])

\* Name e goes with its inode number; its object loses its links, and is kept
\* as long as a handle or a child needs it.
StepRemoves(e) ==
  /\ imap' = imap \ {obj[e.child].ino} /\ dent' = dent \ {e}
  /\ obj[e.par].nlink > 0
  /\ obj'[e.par].ino = obj[e.par].ino /\ obj'[e.par].dir = obj[e.par].dir
  /\ obj'[e.par].nlink = IF obj[e.child].dir THEN Pred(obj[e.par].nlink) ELSE obj[e.par].nlink
  /\ obj'[e.child].nlink = 0
  /\ \/ obj'[e.child].ino = obj[e.child].ino /\ obj'[e.child].dir = obj[e.child].dir
     \/ \A f \in dent : f.par # e.child
  /\ \A q \in Objs \ {e.par, e.child} : SameLinks(obj[q], obj'[q])

----------------------------------------------------------------------------
(* The invariant survives the four kinds.                                  *)

\* At the start only the root is linked.
LEMMA InitTreeFits == Init => TreeFits
<1> SUFFICES ASSUME Init PROVE TreeFits
  OBVIOUS
<1>1. Good /\ RootObj \in Objs
  BY InitGood, FSAssumption
<1>2. /\ \A o \in Objs \ {RootObj} : obj[o].nlink = 0 /\ ~ obj[o].dir
      /\ obj[RootObj].nlink = 2 /\ obj[RootObj].dir /\ obj[RootObj].ino = RootIno
  BY <1>1 DEF Init, NewInode, NoInode
<1>3. dent = {} /\ imap = {RootIno} /\ RootIno # 0
  BY DEF Init, RootIno
<1>4. NamesFit(obj, dent) /\ NumbersFit(imap, obj)
  BY <1>1, <1>2, <1>3 DEF NamesFit, NumbersFit
<1>5. IsFiniteSet(dent) /\ Cardinality(SubDirs(obj, dent, RootObj)) = 0
  BY <1>3, FS_EmptySet DEF SubDirs
<1>6. LinksFit(obj, dent)
  BY <1>2, <1>5 DEF LinksFit
<1>7. QED  BY <1>1, <1>4, <1>5, <1>6 DEF TreeFits

\* Steps that keep names and links.
LEMMA KeepsTreeFits ==
  ASSUME TreeFits, Good', StepKeeps
  PROVE  TreeFits'
<1>1. \A d \in Objs : SubDirs(obj', dent', d) = SubDirs(obj, dent, d)
  <2> TAKE d \in Objs
  <2>1. \A e \in dent : obj'[e.child].dir = obj[e.child].dir
    BY DEF TreeFits, Good, Dentry, StepKeeps, SameLinks
  <2>2. QED  BY <2>1 DEF SubDirs, StepKeeps
<1>2. LinksFit(obj', dent')
  BY <1>1 DEF TreeFits, LinksFit, StepKeeps, SameLinks
<1>3. NumbersFit(imap', obj')
  BY DEF TreeFits, NumbersFit, StepKeeps, SameLinks
<1>4. NamesFit(obj', dent')
  <2>1. \A e \in dent : e.par \in Objs /\ e.child \in Objs
    BY DEF TreeFits, Good, Dentry
  <2>2. RootObj \in Objs
    BY FSAssumption
  <2>3. QED  BY <2>1, <2>2 DEF TreeFits, NamesFit, StepKeeps, SameLinks
<1>5. QED  BY <1>2, <1>3, <1>4 DEF TreeFits, StepKeeps

\* The end of an object without a name.
LEMMA ForgetsTreeFits ==
  ASSUME TreeFits, Good', NEW o \in Objs, StepForgets(o)
  PROVE  TreeFits'
<1>1. \A e \in dent : /\ e.par \in Objs \ {o} /\ e.child \in Objs \ {o}
  BY DEF TreeFits, Good, Dentry, StepForgets
<1>2. ~ (obj'[o].nlink > 0)
  BY DEF StepForgets
<1>3. \A d \in Objs : SubDirs(obj', dent', d) = SubDirs(obj, dent, d)
  <2> TAKE d \in Objs
  <2>1. \A e \in dent : obj'[e.child].dir = obj[e.child].dir
    BY <1>1 DEF StepForgets, SameLinks
  <2>2. QED  BY <2>1 DEF SubDirs, StepForgets
<1>4. LinksFit(obj', dent')
  BY <1>2, <1>3 DEF TreeFits, LinksFit, StepForgets, SameLinks
<1>5. NumbersFit(imap', obj')
  BY <1>2 DEF TreeFits, NumbersFit, StepForgets, SameLinks
<1>6. NamesFit(obj', dent')
  <2>1. RootObj \in Objs \ {o}
    BY FSAssumption DEF StepForgets
  <2>2. QED  BY <1>1, <1>2, <2>1 DEF TreeFits, NamesFit, StepForgets, SameLinks
<1>7. QED  BY <1>4, <1>5, <1>6 DEF TreeFits, StepForgets

\* A new name.
LEMMA AddsTreeFits ==
  ASSUME TreeFits, Good', NEW d \in Objs, NEW name \in Names, NEW o \in Objs, NEW i,
         StepAdds(d, name, o, i)
  PROVE  TreeFits'
<1> DEFINE new == [par |-> d, name |-> name, child |-> o]
<1>1. /\ \A q \in Objs : obj[q].nlink \in Nat
      /\ \A e \in dent : e.par \in Objs /\ e.child \in Objs
      /\ RootObj \in Objs /\ i # 0 /\ i \in Inos
  BY FSAssumption, AllocFacts, InodeFields DEF TreeFits, Good, WellFormed, Dentry, StepAdds
<1>2. ~ (obj[o].nlink > 0) /\ d # o /\ o # RootObj
  BY <1>1, AllocFacts, FSAssumption, ScannedInRange DEF TreeFits, NamesFit, StepAdds
<1>3. \A e \in dent : e.child # o /\ e.par # o
  BY <1>2 DEF TreeFits, NamesFit, StepAdds
<1>4. dent' = dent \cup {new} /\ new \notin dent /\ new.par = d /\ new.name = name /\ new.child = o
  BY <1>3 DEF StepAdds
<1> HIDE DEF new
<1>5. \A q \in Objs \ {o} : /\ obj'[q].ino = obj[q].ino /\ obj'[q].dir = obj[q].dir
                            /\ obj'[q].nlink > 0 <=> obj[q].nlink > 0
  <2> TAKE q \in Objs \ {o}
  <2>1. CASE q = d
    <3>1. obj[d].nlink \in Nat /\ obj[d].nlink > 0
      BY <1>1 DEF StepAdds
    <3>2. obj'[d].nlink = obj[d].nlink + 1 \/ obj'[d].nlink = obj[d].nlink
      BY DEF StepAdds
    <3>3. obj'[d].nlink > 0
      BY <3>1, <3>2
    <3>4. obj'[d].ino = obj[d].ino /\ obj'[d].dir = obj[d].dir
      BY DEF StepAdds
    <3>5. QED  BY <2>1, <3>1, <3>3, <3>4
  <2>2. CASE q # d
    BY <2>2 DEF StepAdds, SameLinks
  <2>3. QED  BY <2>1, <2>2
<1>6. obj'[o].nlink > 0 /\ obj'[o].ino = i /\ imap' = imap \cup {i} /\ i \notin imap
  BY DEF StepAdds
<1>7. NamesFit(obj', dent')
  <2>1. \A q \in Objs : obj'[q].nlink > 0 => obj'[q].ino # 0
    BY <1>1, <1>5, <1>6 DEF TreeFits, NamesFit
  <2>2. obj'[RootObj].nlink > 0 /\ obj'[RootObj].dir /\ obj'[RootObj].ino = RootIno
    BY <1>1, <1>2, <1>5 DEF TreeFits, NamesFit
  <2>3. ASSUME NEW e \in dent'
        PROVE  /\ e.child # RootObj /\ obj'[e.child].nlink > 0
               /\ obj'[e.par].ino # 0 /\ obj'[e.par].dir
               /\ e.par # e.child
    <3>1. CASE e \in dent
      BY <1>1, <1>3, <1>5, <3>1 DEF TreeFits, NamesFit
    <3>2. CASE e = new
      BY <1>2, <1>4, <1>5, <1>6, <3>2 DEF StepAdds, TreeFits, NamesFit
    <3>3. QED  BY <1>4, <3>1, <3>2
  <2>4. ASSUME NEW e \in dent', NEW f \in dent',
               e.child = f.child \/ (e.par = f.par /\ e.name = f.name)
        PROVE  e = f
    <3>1. CASE e \in dent /\ f \in dent
      BY <2>4, <3>1 DEF TreeFits, NamesFit
    <3>2. CASE e = new \/ f = new
      BY <1>3, <1>4, <2>4, <3>2 DEF StepAdds
    <3>3. QED  BY <1>4, <3>1, <3>2
  <2>5. QED  BY <2>1, <2>2, <2>3, <2>4 DEF NamesFit
<1>8. NumbersFit(imap', obj')
  BY <1>5, <1>6 DEF TreeFits, NumbersFit
<1>9. ASSUME NEW q \in Objs, obj'[q].nlink > 0, obj'[q].dir
      PROVE  obj'[q].nlink = 2 + Cardinality(SubDirs(obj', dent', q))
  <2>1. \A e \in dent : obj'[e.child].dir = obj[e.child].dir
    BY <1>1, <1>3, <1>5
  <2>2. CASE q = o
    <3>1. SubDirs(obj', dent', q) = {}
      BY <1>2, <1>3, <1>4, <2>2 DEF SubDirs
    <3>2. obj'[q].nlink = 2
      BY <1>9, <2>2 DEF StepAdds
    <3>3. QED  BY <3>1, <3>2, FS_EmptySet
  <2>3. CASE q = d /\ obj'[o].dir
    <3>1. SubDirs(obj', dent', q) = SubDirs(obj, dent, q) \cup {new}
      BY <1>4, <2>1, <2>3 DEF SubDirs
    <3>2. IsFiniteSet(SubDirs(obj, dent, q))
      BY FS_Subset DEF SubDirs, TreeFits
    <3>3. new \notin SubDirs(obj, dent, q)
      BY <1>4 DEF SubDirs
    <3>4. /\ Cardinality(SubDirs(obj', dent', q)) = Cardinality(SubDirs(obj, dent, q)) + 1
          /\ Cardinality(SubDirs(obj, dent, q)) \in Nat
      BY <3>1, <3>2, <3>3, FS_AddElement, FS_CardinalityType
    <3>5. obj[q].nlink = 2 + Cardinality(SubDirs(obj, dent, q)) /\ obj'[q].nlink = obj[q].nlink + 1
      BY <2>3 DEF StepAdds, TreeFits, LinksFit
    <3>6. QED  BY <3>4, <3>5
  <2>4. CASE q # o /\ ~ (q = d /\ obj'[o].dir)
    <3>1. SubDirs(obj', dent', q) = SubDirs(obj, dent, q)
      BY <1>4, <2>1, <2>4 DEF SubDirs
    <3>2. obj'[q].nlink = obj[q].nlink /\ obj[q].dir /\ obj[q].nlink > 0
      BY <1>5, <1>9, <2>4 DEF StepAdds, SameLinks
    <3>3. QED  BY <3>1, <3>2 DEF TreeFits, LinksFit
  <2>5. QED  BY <2>2, <2>3, <2>4
<1>10. LinksFit(obj', dent')
  BY <1>9 DEF LinksFit
<1>11. IsFiniteSet(dent')
  BY <1>4, FS_AddElement DEF TreeFits
<1>12. QED  BY <1>7, <1>8, <1>10, <1>11 DEF TreeFits

\* A name goes.  The count of the parent is at least 3 when it loses a
\* subdirectory, so drop_nlink never takes it to 0.
LEMMA RemovesTreeFits ==
  ASSUME TreeFits, Good', NEW e \in dent, StepRemoves(e)
  PROVE  TreeFits'
<1> DEFINE c == e.child
           d == e.par
<1>1. /\ \A q \in Objs : obj[q].nlink \in Nat
      /\ \A f \in dent : f.par \in Objs /\ f.child \in Objs
      /\ RootObj \in Objs
  BY FSAssumption, InodeFields DEF TreeFits, Good, WellFormed, Dentry
<1>2. c # d /\ c # RootObj /\ c \in Objs /\ d \in Objs /\ obj[c].nlink > 0 /\ obj[d].dir /\ obj[d].nlink > 0
  BY <1>1 DEF TreeFits, NamesFit, StepRemoves
<1>3. /\ \A f \in dent' : f \in dent /\ f # e /\ f.child # c
      /\ dent' = dent \ {e}
  BY DEF TreeFits, NamesFit, StepRemoves
<1>4. \A q \in Objs : IsFiniteSet(SubDirs(obj, dent, q)) /\ Cardinality(SubDirs(obj, dent, q)) \in Nat
  BY FS_Subset, FS_CardinalityType DEF SubDirs, TreeFits
<1>5. obj[d].nlink = 2 + Cardinality(SubDirs(obj, dent, d))
  BY <1>2 DEF TreeFits, LinksFit
<1>6. obj[c].dir => Cardinality(SubDirs(obj, dent, d) \ {e}) = Cardinality(SubDirs(obj, dent, d)) - 1
  BY <1>2, <1>4, FS_RemoveElement DEF SubDirs
<1>7. IsFiniteSet(SubDirs(obj, dent, d) \ {e}) /\ Cardinality(SubDirs(obj, dent, d) \ {e}) \in Nat
  BY <1>2, <1>4, FS_RemoveElement, FS_CardinalityType
<1>8. obj'[d].nlink > 0 /\ (obj[c].dir => obj'[d].nlink = obj[d].nlink - 1)
  BY <1>1, <1>2, <1>4, <1>5, <1>6, <1>7 DEF StepRemoves, Pred
<1>9. \A q \in Objs \ {c} : /\ obj'[q].ino = obj[q].ino /\ obj'[q].dir = obj[q].dir
                            /\ obj'[q].nlink > 0 <=> obj[q].nlink > 0
  BY <1>2, <1>8 DEF StepRemoves, SameLinks
<1>10. ~ (obj'[c].nlink > 0) /\ imap' = imap \ {obj[c].ino}
  BY DEF StepRemoves
<1>11. NamesFit(obj', dent')
  <2>1. \A q \in Objs : obj'[q].nlink > 0 => obj'[q].ino # 0
    BY <1>9, <1>10 DEF TreeFits, NamesFit
  <2>2. obj'[RootObj].nlink > 0 /\ obj'[RootObj].dir /\ obj'[RootObj].ino = RootIno
    BY <1>1, <1>2, <1>9 DEF TreeFits, NamesFit
  <2>3. ASSUME NEW f \in dent'
        PROVE  /\ f.child # RootObj /\ obj'[f.child].nlink > 0
               /\ obj'[f.par].ino # 0 /\ obj'[f.par].dir
               /\ f.par # f.child
    <3>1. f \in dent /\ f.child # c /\ f.par \in Objs /\ f.child \in Objs
      BY <1>1, <1>3
    <3>2. obj'[f.par].ino = obj[f.par].ino /\ obj'[f.par].dir = obj[f.par].dir
      BY <1>9, <3>1 DEF StepRemoves
    <3>3. QED  BY <1>9, <3>1, <3>2 DEF TreeFits, NamesFit
  <2>4. \A f, g \in dent' : (f.child = g.child \/ (f.par = g.par /\ f.name = g.name)) => f = g
    BY <1>3 DEF TreeFits, NamesFit
  <2>5. QED  BY <2>1, <2>2, <2>3, <2>4 DEF NamesFit
<1>12. NumbersFit(imap', obj')
  BY <1>2, <1>9, <1>10 DEF TreeFits, NumbersFit
<1>13. ASSUME NEW q \in Objs, obj'[q].nlink > 0, obj'[q].dir
       PROVE  obj'[q].nlink = 2 + Cardinality(SubDirs(obj', dent', q))
  <2>1. q # c /\ obj[q].nlink > 0 /\ obj[q].dir
    BY <1>9, <1>10, <1>13
  <2>2. \A f \in dent' : obj'[f.child].dir = obj[f.child].dir
    BY <1>1, <1>3, <1>9
  <2>3. SubDirs(obj', dent', q) = SubDirs(obj, dent, q) \ {e}
    BY <1>3, <2>2 DEF SubDirs
  <2>4. CASE q = d /\ obj[c].dir
    BY <1>4, <1>5, <1>6, <1>8, <2>3, <2>4
  <2>5. CASE q # d \/ ~ obj[c].dir
    <3>1. e \notin SubDirs(obj, dent, q)
      BY <2>5 DEF SubDirs
    <3>2. SubDirs(obj', dent', q) = SubDirs(obj, dent, q)
      BY <2>3, <3>1
    <3>3. obj'[q].nlink = obj[q].nlink
      BY <2>1, <2>5 DEF StepRemoves, SameLinks
    <3>4. QED  BY <2>1, <3>2, <3>3 DEF TreeFits, LinksFit
  <2>6. QED  BY <2>4, <2>5
<1>14. LinksFit(obj', dent')
  BY <1>13 DEF LinksFit
<1>15. IsFiniteSet(dent')
  BY <1>3, FS_RemoveElement DEF TreeFits
<1>16. QED  BY <1>11, <1>12, <1>14, <1>15 DEF TreeFits

----------------------------------------------------------------------------
(* Each handler is of one of the kinds.                                    *)

\* Sizes, flags and pointers change without the number, kind and links.
LEMMA LinksAside ==
  ASSUME NEW node \in Inode
  PROVE  /\ SameLinks(node, MarkDirty(node))
         /\ \A s : SameLinks(node, [node EXCEPT !.size = s])
         /\ \A f : SameLinks(node, [node EXCEPT !.open = f])
         /\ \A c, pt : SameLinks(node, [node EXCEPT !.count = c, !.ptr = pt])
  BY DEF Inode, SameLinks, MarkDirty

\* add_entry leaves number, kind and links of the directory alone.
LEMMA AddEntrySameLinks ==
  ASSUME NEW node \in Inode, NEW name \in Names, NEW i \in Inos,
         NEW bm \in SUBSET Blocks, NEW bl \in BlockImages,
         NEW r \in AddEntry(node, name, i, bm, bl)
  PROVE  SameLinks(node, r.node)
<1> DEFINE new == [ino |-> i, name |-> Stored[name]]
<1>1. ASSUME NEW b \in Blocks, NEW n \in Attach(node, b)
      PROVE  n \in Inode /\ SameLinks(node, n)
  <2>1. n \in Inode
    BY <1>1, AttachOutcome
  <2>2. CASE n = node
    BY <2>2 DEF SameLinks
  <2>3. CASE \E k \in Index : n = [node EXCEPT !.ptr = [node.ptr EXCEPT ![k] = b], !.count = @ + 1]
    <3>1. PICK k \in Index : n = [node EXCEPT !.ptr = [node.ptr EXCEPT ![k] = b], !.count = @ + 1]
      BY <2>3
    <3> DEFINE pt == [node.ptr EXCEPT ![k] = b]
               c  == node.count + 1
    <3>2. n = [node EXCEPT !.ptr = pt, !.count = c]
      BY <3>1
    <3> HIDE DEF pt, c
    <3>3. SameLinks(node, n)
      BY <3>2 DEF Inode, SameLinks
    <3>4. QED  BY <2>1, <3>3
  <2>4. QED  BY <2>1, <2>2, <2>3 DEF Attach
<1>2. AllocBlock(bm) \subseteq Blocks
  BY AllocFacts
<1>3. CASE AddEntryFills(node, new, bm, bl, r) \/ AddEntryFails(node, bm, bl, r)
  BY <1>3 DEF AddEntryFills, AddEntryFails, SameLinks
<1>4. CASE AddEntryGrows(node, new, bm, bl, r)
  <2>1. PICK b \in AllocBlock(bm) : \E n \in Attach(node, b) :
          r = [ok |-> TRUE, bmap |-> bm \cup {b},
               node |-> MarkDirty([n EXCEPT !.size = @ + BlockSize]),
               blk |-> [bl EXCEPT ![b] = [ZeroBlock EXCEPT ![1] = new]]]
    BY <1>4 DEF AddEntryGrows
  <2>2. PICK n \in Attach(node, b) :
          r = [ok |-> TRUE, bmap |-> bm \cup {b},
               node |-> MarkDirty([n EXCEPT !.size = @ + BlockSize]),
               blk |-> [bl EXCEPT ![b] = [ZeroBlock EXCEPT ![1] = new]]]
    BY <2>1
  <2>3. n \in Inode /\ SameLinks(node, n)
    BY <1>1, <1>2
  <2> DEFINE m == [n EXCEPT !.size = @ + BlockSize]
  <2>4. n.size + BlockSize \in Nat
    BY <2>3, InodeFields, FSAssumption
  <2>5. m \in Inode /\ SameLinks(n, m)
    BY <2>3, <2>4, SetSize, LinksAside
  <2>6. r.node = MarkDirty(m)
    BY <2>2
  <2> HIDE DEF m
  <2>7. SameLinks(m, MarkDirty(m))
    BY <2>5, LinksAside
  <2>8. QED  BY <2>3, <2>5, <2>6, <2>7 DEF SameLinks
<1>5. CASE AddEntryStops(node, bm, bl, r)
  BY <1>1, <1>2, <1>5 DEF AddEntryStops
<1>6. QED  BY <1>3, <1>4, <1>5, AddEntryCases

\* open and close: the last close of an unlinked file or directory ends it.
LEMMA OpenKind ==
  ASSUME Good, NEW o \in Objs, Open(o) \/ Close(o)
  PROVE  StepKeeps \/ StepForgets(o)
<1> DEFINE Flagged(f) == [obj EXCEPT ![o] = [obj[o] EXCEPT !.open = f]]
<1>1. obj \in [Objs -> Inode]
  BY DEF Good, WellFormed
<1>2. \A f : \A q \in Objs : SameLinks(obj[q], Flagged(f)[q])
  <2> TAKE f
  <2> TAKE q \in Objs
  <2>1. SameLinks(obj[q], [obj[q] EXCEPT !.open = f])
    BY <1>1, LinksAside
  <2>2. Flagged(f)[q] = IF q = o THEN [obj[o] EXCEPT !.open = f] ELSE obj[q]
    BY <1>1
  <2>3. QED  BY <2>1, <2>2 DEF SameLinks
<1>3. CASE Open(o)
  <2>1. obj' = Flagged(TRUE) /\ imap' = imap /\ dent' = dent
    BY <1>3 DEF Open
  <2> HIDE DEF Flagged
  <2>2. QED  BY <1>2, <2>1 DEF StepKeeps
<1>4. CASE Close(o)
  <2>1. obj' = (IF Named(o) THEN Flagged(FALSE) ELSE Forget(Flagged(FALSE), o))
        /\ imap' = imap /\ dent' = dent
    BY <1>4 DEF Close
  <2>2. DOMAIN Flagged(FALSE) = Objs
    BY <1>1
  <2> HIDE DEF Flagged
  <2>3. CASE obj' = Flagged(FALSE)
    BY <1>2, <2>1, <2>3 DEF StepKeeps
  <2>4. CASE obj' = [Flagged(FALSE) EXCEPT ![o] = NoInode] /\ ~ Named(o) /\ ChildrenOf(o) = {}
    <3>1. o # RootObj /\ \A e \in dent : e.child # o /\ e.par # o
      BY <2>4 DEF Named, ChildrenOf
    <3>2. obj'[o].nlink = 0
      BY <2>2, <2>4 DEF NoInode, NewInode
    <3>3. \A q \in Objs \ {o} : obj'[q] = Flagged(FALSE)[q]
      BY <2>2, <2>4
    <3>4. QED  BY <1>2, <2>1, <3>1, <3>2, <3>3 DEF StepForgets
  <2>5. QED  BY <2>1, <2>3, <2>4 DEF Forget
<1>5. QED  BY <1>3, <1>4

\* write changes pointers and the size.
LEMMA FileWriteKind ==
  ASSUME Good, NEW o \in Objs, NEW pos \in 0 .. MaxFileSize, NEW len \in WriteLens,
         FileWrite(o, pos, len)
  PROVE  StepKeeps
<1> DEFINE end == pos + len
           got == Got(obj[o], bmap, end)
<1>1. end \in Nat
  BY FileWriteOutcome
<1>2. obj \in [Objs -> Inode] /\ obj[o] \in Inode /\ Packed(obj[o])
  BY DEF Good, WellFormed
<1>3. PICK f \in LowestFree(bmap, got) :
        LET node == Extend(obj[o], got, f) IN
           IF got < NeededBlocks(obj[o], end)
           THEN obj' = [obj EXCEPT ![o] = node]
           ELSE \E stop \in StopsAt(node, pos, end) :
                  obj' = [obj EXCEPT ![o] = IF stop > node.size
                            THEN MarkDirty([node EXCEPT !.size = stop]) ELSE node]
  BY DEF FileWrite, Got
<1> DEFINE node == Extend(obj[o], got, f)
<1>4. got \in 0 .. (BlockPerFile - obj[o].count)
  BY <1>1, <1>2, GotInRange
<1>5. f \in [1 .. got -> Blocks]
  BY AllocFacts DEF LowestFree
<1>6. node \in Inode
  <2> HIDE DEF got
  <2>1. QED  BY <1>2, <1>4, <1>5, ExtendType
<1>7. SameLinks(obj[o], node)
  <2> DEFINE pt == [i \in Index |-> IF i > obj[o].count /\ i <= obj[o].count + got
                                     THEN f[i - obj[o].count] ELSE obj[o].ptr[i]]
             c  == obj[o].count + got
  <2>1. node = [obj[o] EXCEPT !.count = c, !.ptr = pt]
    BY DEF Extend
  <2> HIDE DEF pt, c, node
  <2>2. QED  BY <1>2, <2>1, LinksAside
<1> HIDE DEF node, got
<1>8. \E n : SameLinks(obj[o], n) /\ obj' = [obj EXCEPT ![o] = n]
  <2>1. CASE obj' = [obj EXCEPT ![o] = node]
    BY <1>7, <2>1
  <2>2. CASE \E stop \in StopsAt(node, pos, end) :
               obj' = [obj EXCEPT ![o] = MarkDirty([node EXCEPT !.size = stop])]
    <3>1. PICK stop \in StopsAt(node, pos, end) :
               obj' = [obj EXCEPT ![o] = MarkDirty([node EXCEPT !.size = stop])]
      BY <2>2
    <3> DEFINE m == [node EXCEPT !.size = stop]
    <3>2. stop \in Nat
      <4>1. node.count * BlockSize \in Nat /\ pos \in Nat
        BY <1>6, InodeFields, FSAssumption DEF MaxFileSize
      <4>2. QED  BY <1>1, <4>1 DEF StopsAt, Least
    <3>3. m \in Inode /\ SameLinks(node, m)
      BY <1>6, <3>2, SetSize, LinksAside
    <3> HIDE DEF m
    <3>4. SameLinks(m, MarkDirty(m))
      BY <3>3, LinksAside
    <3>5. SameLinks(obj[o], MarkDirty(m))
      BY <1>7, <3>3, <3>4 DEF SameLinks
    <3>6. QED  BY <3>1, <3>5 DEF m
  <2>3. QED  BY <1>3, <2>1, <2>2 DEF node, got
<1>9. PICK n : SameLinks(obj[o], n) /\ obj' = [obj EXCEPT ![o] = n]
  BY <1>8
<1>10. \A q \in Objs : SameLinks(obj[q], obj'[q])
  BY <1>2, <1>9 DEF SameLinks
<1>11. QED  BY <1>10 DEF FileWrite, StepKeeps

\* truncate changes the size.
LEMMA TruncateKind ==
  ASSUME Good, NEW o \in Objs, NEW s \in TruncSizes, Truncate(o, s)
  PROVE  StepKeeps
<1> DEFINE m == [obj[o] EXCEPT !.size = s]
<1>1. s \in Nat
  BY FSAssumption
<1>2. obj \in [Objs -> Inode] /\ obj[o] \in Inode
  BY DEF Good, WellFormed
<1>3. m \in Inode /\ SameLinks(obj[o], m)
  BY <1>1, <1>2, SetSize, LinksAside
<1>4. obj' = [obj EXCEPT ![o] = MarkDirty(m)]
  BY DEF Truncate
<1> HIDE DEF m
<1>5. SameLinks(m, MarkDirty(m))
  BY <1>3, LinksAside
<1>6. \A q \in Objs : SameLinks(obj[q], obj'[q])
  BY <1>2, <1>3, <1>4, <1>5 DEF SameLinks
<1>7. QED  BY <1>6 DEF Truncate, StepKeeps
\* An unused object is not a directory with links.
LEMMA UnusedIsOther ==
  ASSUME TreeFits, NEW d \in Objs, NEW o \in Objs, obj[d].nlink > 0, obj[o].ino = 0
  PROVE  d # o
  BY DEF TreeFits, NamesFit

\* create adds a name, or, when the entry cannot be added, keeps the names.
LEMMA CreateKind ==
  ASSUME TreeFits, NEW d \in Objs, NEW name \in Names, NEW o \in Objs, Create(d, name, o)
  PROVE  StepKeeps \/ \E i : StepAdds(d, name, o, i) /\ obj'[o].dir = FALSE
<1>1. PICK i \in FindFreeInode(imap) :
        /\ imap' = imap \cup {i}
        /\ \E r \in AddEntry(obj[d], name, i, bmap, blk) :
             IF r.ok
             THEN /\ obj' = [obj EXCEPT ![d] = r.node, ![o] = NewInode(i, FALSE, 1)]
                  /\ dent' = dent \cup {[par |-> d, name |-> name, child |-> o]}
             ELSE /\ obj' = [obj EXCEPT ![d] = r.node]
                  /\ UNCHANGED dent
  BY DEF Create
<1>2. PICK r \in AddEntry(obj[d], name, i, bmap, blk) :
             IF r.ok
             THEN /\ obj' = [obj EXCEPT ![d] = r.node, ![o] = NewInode(i, FALSE, 1)]
                  /\ dent' = dent \cup {[par |-> d, name |-> name, child |-> o]}
             ELSE /\ obj' = [obj EXCEPT ![d] = r.node]
                  /\ UNCHANGED dent
  BY <1>1
<1>3. /\ i \in Inos \ imap /\ obj \in [Objs -> Inode] /\ obj[d] \in Inode
      /\ bmap \in SUBSET Blocks /\ blk \in BlockImages
  BY AllocFacts DEF TreeFits, Good, WellFormed
<1>4. SameLinks(obj[d], r.node)
  BY <1>3, AddEntrySameLinks
<1>5. /\ obj[d].dir /\ obj[d].nlink > 0 /\ obj[o].ino = 0
      /\ \A e \in dent : ~ (e.par = d /\ e.name = name)
  BY DEF Create, MayCreate
<1>6. d # o
  BY <1>5, UnusedIsOther
<1>7. CASE r.ok
  <2> DEFINE n == NewInode(i, FALSE, 1)
  <2>1. n.ino = i /\ n.dir = FALSE /\ n.nlink = 1
    BY DEF NewInode
  <2>2. obj' = [obj EXCEPT ![d] = r.node, ![o] = n]
    BY <1>2, <1>7
  <2> HIDE DEF n
  <2>3. /\ obj'[o] = n /\ obj'[d] = r.node
        /\ \A q \in Objs \ {d, o} : obj'[q] = obj[q]
    BY <1>3, <1>6, <2>2
  <2>4. obj'[d].ino = obj[d].ino /\ obj'[d].dir = obj[d].dir /\ obj'[d].nlink = obj[d].nlink
    BY <1>4, <2>3 DEF SameLinks
  <2>5. StepAdds(d, name, o, i)
    BY <1>1, <1>2, <1>3, <1>5, <1>7, <2>1, <2>3, <2>4 DEF StepAdds, SameLinks
  <2>6. QED  BY <2>1, <2>3, <2>5
<1>8. CASE ~ r.ok
  <2>1. \A q \in Objs : SameLinks(obj[q], obj'[q])
    BY <1>2, <1>3, <1>4, <1>8 DEF SameLinks
  <2>2. QED  BY <1>1, <1>2, <1>8, <2>1 DEF StepKeeps
<1>9. QED  BY <1>7, <1>8

\* mkdir adds a name and counts the parent's link, or keeps both.
LEMMA MkdirKind ==
  ASSUME TreeFits, NEW d \in Objs, NEW name \in Names, NEW o \in Objs, Mkdir(d, name, o)
  PROVE  StepKeeps \/ \E i : StepAdds(d, name, o, i) /\ obj'[o].dir = TRUE
<1> DEFINE filled(i, b) == [blk EXCEPT ![b] = DotBlock(i, obj[d].ino)]
           Add(i, b, r) ==
             IF r.ok
             THEN /\ obj' = [obj EXCEPT ![d] = MarkDirty([r.node EXCEPT !.nlink = @ + 1]),
                                        ![o] = DirNode(i, b)]
                  /\ dent' = dent \cup {[par |-> d, name |-> name, child |-> o]}
             ELSE /\ obj' = [obj EXCEPT ![d] = r.node]
                  /\ UNCHANGED dent
<1>1. PICK i \in FindFreeInode(imap) : \E b \in AllocBlock(bmap) :
        /\ imap' = imap \cup {i}
        /\ \E r \in AddEntry(obj[d], name, i, bmap \cup {b}, filled(i, b)) : Add(i, b, r)
  BY DEF Mkdir, DirNode
<1>2. PICK b \in AllocBlock(bmap) :
        /\ imap' = imap \cup {i}
        /\ \E r \in AddEntry(obj[d], name, i, bmap \cup {b}, filled(i, b)) : Add(i, b, r)
  BY <1>1
<1>3. PICK r \in AddEntry(obj[d], name, i, bmap \cup {b}, filled(i, b)) : Add(i, b, r)
  BY <1>2
<1>4. /\ i \in Inos \ imap /\ i \in Inos /\ b \in Blocks /\ obj \in [Objs -> Inode] /\ obj[d] \in Inode
      /\ bmap \cup {b} \in SUBSET Blocks /\ obj[d].ino \in Inos \cup {0}
  BY AllocFacts, InodeFields DEF TreeFits, Good, WellFormed
<1>5. filled(i, b) \in BlockImages
  BY <1>4, DotBlockType DEF TreeFits, Good, BlockImages
<1> HIDE DEF filled
<1>6. SameLinks(obj[d], r.node) /\ r.node \in Inode
  BY <1>4, <1>5, AddEntrySameLinks, AddEntryOutcome
<1>7. /\ obj[d].dir /\ obj[d].nlink > 0 /\ obj[o].ino = 0
      /\ \A e \in dent : ~ (e.par = d /\ e.name = name)
  BY DEF Mkdir, MayCreate
<1>8. d # o
  BY <1>7, UnusedIsOther
<1>9. CASE r.ok
  <2> DEFINE n1 == [r.node EXCEPT !.nlink = @ + 1]
             n2 == MarkDirty(n1)
             n  == DirNode(i, b)
  <2>1. n.ino = i /\ n.dir = TRUE /\ n.nlink = 2
    BY DEF DirNode, NewInode
  <2>2. r.node.nlink + 1 \in Nat
    BY <1>6, InodeFields
  <2>3. n1 \in Inode /\ n1.ino = r.node.ino /\ n1.dir = r.node.dir /\ n1.nlink = r.node.nlink + 1
    BY <1>6, <2>2, SetLinks DEF Inode
  <2>4. SameLinks(n1, n2)
    <3> HIDE DEF n1
    <3>1. QED  BY <2>3, LinksAside
  <2>5. obj' = [obj EXCEPT ![d] = n2, ![o] = n]
    BY <1>3, <1>9
  <2>6. n2.ino = obj[d].ino /\ n2.dir = obj[d].dir /\ n2.nlink = obj[d].nlink + 1
    <3> HIDE DEF n1, n2
    <3>1. QED  BY <1>6, <2>3, <2>4 DEF SameLinks
  <2> HIDE DEF n, n2
  <2>7. /\ obj'[o] = n /\ obj'[d] = n2
        /\ \A q \in Objs \ {d, o} : obj'[q] = obj[q]
    BY <1>4, <1>8, <2>5
  <2>8. StepAdds(d, name, o, i)
    BY <1>2, <1>3, <1>4, <1>7, <1>9, <2>1, <2>6, <2>7 DEF StepAdds, SameLinks
  <2>9. QED  BY <2>1, <2>7, <2>8
<1>10. CASE ~ r.ok
  <2>1. obj' = [obj EXCEPT ![d] = r.node] /\ dent' = dent
    BY <1>3, <1>10
  <2>2. \A q \in Objs : SameLinks(obj[q], obj'[q])
    BY <1>4, <1>6, <2>1 DEF SameLinks
  <2>3. QED  BY <1>2, <2>1, <2>2 DEF StepKeeps
<1>11. QED  BY <1>9, <1>10

\* The common tail of unlink and rmdir.
LEMMA RemoveKind ==
  ASSUME TreeFits, NEW e \in dent, NEW p, NEW parent \in Inode, Remove(e, p, parent),
         obj[e.par].nlink > 0,
         parent.ino = obj[e.par].ino, parent.dir = obj[e.par].dir,
         parent.nlink = IF obj[e.child].dir THEN Pred(obj[e.par].nlink) ELSE obj[e.par].nlink
  PROVE  StepRemoves(e)
<1> DEFINE c    == e.child
           d    == e.par
           left == [obj EXCEPT ![d] = parent]
           rel  == [left EXCEPT ![c] = Released(left[c])]
<1>1. c \in Objs /\ d \in Objs /\ c # d /\ obj \in [Objs -> Inode] /\ obj[c] \in Inode
  BY DEF TreeFits, NamesFit, Good, WellFormed, Dentry
<1>2. Released(obj[c]).ino = obj[c].ino /\ Released(obj[c]).dir = obj[c].dir /\ Released(obj[c]).nlink = 0
  <2> DEFINE pt == [i \in Index |-> IF i <= obj[c].count THEN 0 ELSE obj[c].ptr[i]]
  <2>1. Released(obj[c]) = [obj[c] EXCEPT !.ptr = pt, !.count = 0, !.nlink = 0, !.size = 0]
    BY DEF Released
  <2> HIDE DEF pt
  <2>2. QED  BY <1>1, <2>1 DEF Inode
<1>3. rel \in [Objs -> {rel[q] : q \in Objs}] /\ DOMAIN rel = Objs
  BY <1>1
<1>4. /\ rel[d] = parent /\ rel[c] = Released(obj[c])
      /\ \A q \in Objs \ {c, d} : rel[q] = obj[q]
  BY <1>1
<1>5. obj' = Forget(rel, c) /\ imap' = imap \ {obj[c].ino} /\ dent' = dent \ {e}
  <2>1. [left EXCEPT ![c] = Released(@)] = rel
    OBVIOUS
  <2>2. obj' = Forget([left EXCEPT ![c] = Released(@)], c)
    BY DEF Remove
  <2>3. QED  BY <2>1, <2>2 DEF Remove
<1> HIDE DEF rel
<1>6. \/ obj' = rel
      \/ obj' = [rel EXCEPT ![c] = NoInode] /\ ChildrenOf(c) = {}
  BY <1>5 DEF Forget
<1>7. NoInode.nlink = 0
  BY DEF NoInode, NewInode
<1>8. /\ obj'[d] = parent
      /\ \A q \in Objs \ {c, d} : obj'[q] = obj[q]
      /\ \/ obj'[c] = Released(obj[c])
         \/ obj'[c] = NoInode /\ \A f \in dent : f.par # c
  BY <1>1, <1>3, <1>4, <1>6 DEF ChildrenOf
<1>9. QED  BY <1>2, <1>5, <1>7, <1>8 DEF StepRemoves, SameLinks

\* unlink and rmdir remove a name.
LEMMA UnlinkKind ==
  ASSUME TreeFits, NEW e \in dent, Unlink(e) \/ Rmdir(e)
  PROVE  StepRemoves(e)
<1>1. e.par \in Objs /\ obj[e.par] \in Inode
  BY DEF TreeFits, Good, Dentry, WellFormed
<1>2. CASE Unlink(e)
  <2>1. PICK p : Remove(e, p, obj[e.par])
    BY <1>2 DEF Unlink
  <2>2. QED  BY <1>1, <1>2, <2>1, RemoveKind DEF Unlink
<1>3. CASE Rmdir(e)
  <2> DEFINE n1 == [obj[e.par] EXCEPT !.nlink = Pred(@)]
  <2>1. Pred(obj[e.par].nlink) \in Nat
    BY <1>1, InodeFields DEF Pred
  <2>2. /\ n1 \in Inode /\ n1.ino = obj[e.par].ino /\ n1.dir = obj[e.par].dir
        /\ n1.nlink = Pred(obj[e.par].nlink)
    BY <1>1, <2>1, SetLinks DEF Inode
  <2>3. PICK p : Remove(e, p, MarkDirty(n1))
    BY <1>3 DEF Rmdir
  <2> HIDE DEF n1
  <2>4. MarkDirty(n1) \in Inode /\ SameLinks(n1, MarkDirty(n1))
    BY <2>2, MarkDirtyType, LinksAside
  <2>5. obj[e.par].nlink > 0 /\ obj[e.child].dir
    BY <1>3 DEF Rmdir
  <2>6. QED  BY <2>2, <2>3, <2>4, <2>5, RemoveKind DEF SameLinks
<1>4. QED  BY <1>2, <1>3

\* Every step is of one of the four kinds.
LEMMA NextKind ==
  ASSUME TreeFits, [Next]_vars
  PROVE  \/ StepKeeps
         \/ \E o \in Objs : StepForgets(o)
         \/ \E d, o \in Objs, name \in Names : \E i : StepAdds(d, name, o, i)
         \/ \E e \in dent : StepRemoves(e)
<1>1. CASE \E d \in Objs, o \in Objs, n \in Names : Create(d, n, o) \/ Mkdir(d, n, o)
  <2>1. PICK d \in Objs, o \in Objs, n \in Names : Create(d, n, o) \/ Mkdir(d, n, o)
    BY <1>1
  <2>2. StepKeeps \/ \E i : StepAdds(d, n, o, i)
    BY <2>1, CreateKind, MkdirKind
  <2>3. QED  BY <2>2
<1>2. CASE \E e \in dent : Unlink(e) \/ Rmdir(e)
  BY <1>2, UnlinkKind
<1>3. CASE \E o \in Objs : Open(o) \/ Close(o)
  BY <1>3, OpenKind DEF TreeFits
<1>4. CASE \E o \in Objs, pos \in 0 .. MaxFileSize, len \in WriteLens : FileWrite(o, pos, len)
  BY <1>4, FileWriteKind DEF TreeFits
<1>5. CASE \E o \in Objs, s \in TruncSizes : Truncate(o, s)
  BY <1>5, TruncateKind DEF TreeFits
<1>6. CASE UNCHANGED vars
  BY <1>6 DEF vars, StepKeeps, SameLinks
<1>7. QED  BY <1>1, <1>2, <1>3, <1>4, <1>5, <1>6 DEF Next

\* The invariant is inductive.
LEMMA NextTreeFits == TreeFits /\ [Next]_vars => TreeFits'
<1> SUFFICES ASSUME TreeFits, [Next]_vars PROVE TreeFits'
  OBVIOUS
<1>1. Good'
  BY NextGood DEF TreeFits
<1>2. QED  BY <1>1, NextKind, KeepsTreeFits, ForgetsTreeFits, AddsTreeFits, RemovesTreeFits

\* Through every order of creates, mkdirs, unlinks and rmdirs, of closes of
\* what was removed while open, and of calls that fail half way, two linked
\* files or directories never have one inode number, the number of each is
\* marked, and a directory's link count is 2 plus its subdirectories: for
\* every geometry, with and without read errors.
THEOREM LinksAndNumbers == Spec => [](LinkedInodeNumbers /\ DirLinkCount)
<1>1. TreeFits => LinkedInodeNumbers /\ DirLinkCount
  BY TreeFitsIsProperties
<1>2. QED  BY <1>1, InitTreeFits, NextTreeFits, PTL DEF Spec

----------------------------------------------------------------------------
(* Sizes of files.                                                         *)

\* The blocks of a file reach its size.
Sized(n)      == n.dir \/ n.size <= n.count * BlockSize
AllSized(os)  == \A o \in Objs : Sized(os[o])

\* Rounding down keeps below a multiple; rounding up reaches.
LEMMA RoundedBlocks ==
  ASSUME NEW n \in Nat, NEW k \in Nat
  PROVE  /\ n <= k * BlockSize => n \div BlockSize <= k
         /\ n < k * BlockSize => n \div BlockSize < k
         /\ n \div BlockSize \in Nat
         /\ CeilDiv(n) \in Nat /\ n <= CeilDiv(n) * BlockSize
<1> DEFINE q == n \div BlockSize
           c == CeilDiv(n)
<1>1. BlockSize \in Nat /\ BlockSize > 0 /\ n + BlockSize - 1 \in Nat
  BY FSAssumption
<1>2. q \in Nat /\ BlockSize * q <= n /\ n < BlockSize * (q + 1)
  BY <1>1
<1>3. c \in Nat /\ n + BlockSize - 1 < BlockSize * (c + 1)
  BY <1>1 DEF CeilDiv
<1> HIDE DEF q, c
<1>4. n <= c * BlockSize
  BY <1>1, <1>3
<1>5. ASSUME q > k PROVE n > k * BlockSize
  <2>1. q >= k + 1
    BY <1>2, <1>5
  <2>2. BlockSize * q >= BlockSize * (k + 1)
    BY <1>1, <1>2, <2>1
  <2>3. QED  BY <1>1, <1>2, <2>2
<1>6. ASSUME q >= k PROVE n >= k * BlockSize
  <2>1. BlockSize * q >= BlockSize * k
    BY <1>1, <1>2, <1>6
  <2>2. QED  BY <1>1, <1>2, <2>1
<1>7. k * BlockSize \in Nat
  BY <1>1
<1>8. QED  BY <1>2, <1>3, <1>4, <1>5, <1>6, <1>7 DEF q, c

\* Where the blocks reach the size, naive_file_read comes to the end.
LEMMA SizedIsRead ==
  ASSUME NEW node \in Inode, Packed(node), node.size <= node.count * BlockSize
  PROVE  ReadStop(node, 0, node.size) = node.size
<1> DEFINE size  == node.size
           holes == {q \in 0 .. size - 1 : \A i \in Index :
                       i = q \div BlockSize + 1 => i > node.count \/ node.ptr[i] = 0}
<1>1. size \in Nat /\ node.count \in Nat /\ node.count <= BlockPerFile /\ BlockPerFile \in Nat
  BY InodeFields, FSAssumption DEF Packed
<1>2. holes = {}
  <2>1. ASSUME NEW q \in 0 .. size - 1
        PROVE  \E i \in Index : i = q \div BlockSize + 1 /\ ~ (i > node.count) /\ node.ptr[i] # 0
    <3>1. q \in Nat /\ q < size
      BY <1>1
    <3>2. node.count * BlockSize \in Nat
      BY <1>1, FSAssumption
    <3>3. q < node.count * BlockSize
      BY <1>1, <3>1, <3>2
    <3>4. q \div BlockSize < node.count /\ q \div BlockSize \in Nat
      BY <1>1, <3>1, <3>3, RoundedBlocks
    <3> DEFINE i == q \div BlockSize + 1
    <3>5. i \in Index /\ i <= node.count
      BY <1>1, <3>4 DEF Index
    <3>6. node.ptr[i] # 0
      BY <3>5 DEF Packed
    <3>7. ~ (i > node.count)
      BY <1>1, <3>4
    <3>8. QED  BY <3>5, <3>6, <3>7
  <2>2. QED  BY <2>1
<1>3. CASE size = 0
  BY <1>3 DEF ReadStop
<1>4. CASE size # 0
  <2>1. ~ (0 >= size) /\ Least(0 + size, size) = size
    BY <1>1, <1>4 DEF Least
  <2>2. ReadStop(node, 0, size) = CHOOSE q \in holes \cup {size} : \A h \in holes \cup {size} : q <= h
    BY <2>1 DEF ReadStop
  <2> HIDE DEF holes
  <2>3. holes \cup {size} = {size} /\ size <= size
    BY <1>1, <1>2
  <2>4. (CHOOSE q \in {size} : \A h \in {size} : q <= h) = size
    BY <2>3
  <2>5. QED  BY <2>2, <2>3, <2>4
<1>5. QED  BY <1>3, <1>4

\* Inodes without blocks, and directories, are sized.
LEMMA SizedNew ==
  /\ Sized(NoInode)
  /\ \A i : Sized(NewInode(i, FALSE, 1))
  /\ \A i, b : Sized(DirNode(i, b))
  /\ \A i : Sized(NewInode(i, TRUE, 2))
<1>1. 0 <= 0 * BlockSize
  BY FSAssumption
<1>2. \A i, links : /\ NewInode(i, FALSE, links).size = 0 /\ NewInode(i, FALSE, links).count = 0
                    /\ NewInode(i, TRUE, links).dir
  BY DEF NewInode
<1>3. \A i, b : DirNode(i, b).dir
  BY DEF DirNode, NewInode
<1>4. QED  BY <1>1, <1>2, <1>3 DEF Sized, NoInode

\* A truncate that makes a file larger: it alone leaves a size without blocks.
Enlarges == \E o \in Objs, s \in TruncSizes : Truncate(o, s) /\ s > obj[o].size

\* Replacing inodes by sized ones.
LEMMA SizedUpdate ==
  ASSUME NEW os \in [Objs -> Inode], AllSized(os), NEW o \in Objs, NEW n, Sized(n)
  PROVE  /\ AllSized([os EXCEPT ![o] = n])
         /\ \A d \in Objs : \A m : Sized(m) => AllSized([os EXCEPT ![o] = n, ![d] = m])
  BY DEF AllSized

\* open and close.
LEMMA OpenSized ==
  ASSUME Good, AllSized(obj), NEW o \in Objs, Open(o) \/ Close(o)
  PROVE  AllSized(obj')
<1> DEFINE Flagged(f) == [obj EXCEPT ![o] = [obj[o] EXCEPT !.open = f]]
<1>1. obj \in [Objs -> Inode] /\ obj[o] \in Inode
  BY DEF Good, WellFormed
<1>2. \A f : Sized([obj[o] EXCEPT !.open = f])
  BY <1>1 DEF AllSized, Sized, Inode
<1>3. \A f \in BOOLEAN : Flagged(f) \in [Objs -> Inode] /\ AllSized(Flagged(f))
  <2> TAKE f \in BOOLEAN
  <2>1. [obj[o] EXCEPT !.open = f] \in Inode
    BY <1>1, SetOpen DEF Good, WellFormed
  <2>2. QED  BY <1>1, <1>2, <2>1, SizedUpdate
<1>4. CASE Open(o)
  BY <1>3, <1>4 DEF Open
<1>5. CASE Close(o)
  <2>1. obj' = Flagged(FALSE) \/ obj' = [Flagged(FALSE) EXCEPT ![o] = NoInode]
    BY <1>5 DEF Close, Forget
  <2>2. Flagged(FALSE) \in [Objs -> Inode] /\ AllSized(Flagged(FALSE)) /\ Sized(NoInode)
    BY <1>3, SizedNew
  <2> HIDE DEF Flagged
  <2>3. QED  BY <2>1, <2>2 DEF AllSized
<1>6. QED  BY <1>4, <1>5

\* create makes an empty file and leaves the parent a directory.
LEMMA CreateSized ==
  ASSUME Good, AllSized(obj), NEW d \in Objs, NEW name \in Names, NEW o \in Objs, Create(d, name, o)
  PROVE  AllSized(obj')
<1>1. PICK i \in FindFreeInode(imap) : \E r \in AddEntry(obj[d], name, i, bmap, blk) :
        \/ obj' = [obj EXCEPT ![d] = r.node, ![o] = NewInode(i, FALSE, 1)]
        \/ obj' = [obj EXCEPT ![d] = r.node]
  BY DEF Create
<1>2. PICK r \in AddEntry(obj[d], name, i, bmap, blk) :
        \/ obj' = [obj EXCEPT ![d] = r.node, ![o] = NewInode(i, FALSE, 1)]
        \/ obj' = [obj EXCEPT ![d] = r.node]
  BY <1>1
<1>3. /\ i \in Inos /\ obj \in [Objs -> Inode] /\ obj[d] \in Inode
      /\ bmap \in SUBSET Blocks /\ blk \in BlockImages
  BY AllocFacts DEF Good, WellFormed
<1>4. Sized(r.node)
  <2>1. SameLinks(obj[d], r.node) /\ obj[d].dir
    BY <1>3, AddEntrySameLinks DEF Create, MayCreate
  <2>2. QED  BY <2>1 DEF SameLinks, Sized
<1> DEFINE n == r.node
           new == NewInode(i, FALSE, 1)
<1>5. Sized(n) /\ Sized(new)
  BY <1>4, SizedNew
<1>6. \/ obj' = [obj EXCEPT ![d] = n, ![o] = new]
      \/ obj' = [obj EXCEPT ![d] = n]
  BY <1>2
<1> HIDE DEF n, new
<1>7. QED  BY <1>3, <1>5, <1>6 DEF AllSized

\* mkdir touches directories alone.
LEMMA MkdirSized ==
  ASSUME Good, AllSized(obj), NEW d \in Objs, NEW name \in Names, NEW o \in Objs, Mkdir(d, name, o)
  PROVE  AllSized(obj')
<1> DEFINE filled(i, b) == [blk EXCEPT ![b] = DotBlock(i, obj[d].ino)]
           Add(i, b, r) ==
             /\ blk' = r.blk
             /\ IF r.ok
                THEN /\ bmap' = r.bmap
                     /\ obj' = [obj EXCEPT ![d] = MarkDirty([r.node EXCEPT !.nlink = @ + 1]),
                                           ![o] = DirNode(i, b)]
                     /\ dent' = dent \cup {[par |-> d, name |-> name, child |-> o]}
                ELSE /\ bmap' = r.bmap \ {b}
                     /\ obj' = [obj EXCEPT ![d] = r.node]
                     /\ UNCHANGED dent
<1>0. PICK i \in FindFreeInode(imap) : \E b \in AllocBlock(bmap) :
        /\ imap' = imap \cup {i}
        /\ \E r \in AddEntry(obj[d], name, i, bmap \cup {b}, filled(i, b)) : Add(i, b, r)
  BY Zenon DEF Mkdir, DirNode
<1>1. PICK b \in AllocBlock(bmap) :
        \E r \in AddEntry(obj[d], name, i, bmap \cup {b}, filled(i, b)) : Add(i, b, r)
  BY <1>0
<1>2. PICK r \in AddEntry(obj[d], name, i, bmap \cup {b}, filled(i, b)) : Add(i, b, r)
  BY <1>1
<1>3. /\ i \in Inos /\ b \in Blocks /\ obj \in [Objs -> Inode] /\ obj[d] \in Inode
      /\ bmap \cup {b} \in SUBSET Blocks /\ obj[d].ino \in Inos \cup {0}
  BY AllocFacts, InodeFields DEF Good, WellFormed
<1>4. filled(i, b) \in BlockImages
  BY <1>3, DotBlockType DEF Good, BlockImages
<1> HIDE DEF filled
<1>5. r.node \in Inode /\ r.node.dir
  <2>1. SameLinks(obj[d], r.node) /\ obj[d].dir /\ r.node \in Inode
    BY <1>3, <1>4, AddEntrySameLinks, AddEntryOutcome DEF Mkdir, MayCreate
  <2>2. QED  BY <2>1 DEF SameLinks
<1> DEFINE n == r.node
           l == [n EXCEPT !.nlink = @ + 1]
<1>6. Sized(n) /\ Sized(MarkDirty(l))
  <2>1. l.dir = n.dir
    BY <1>5 DEF Inode
  <2>2. r.node.nlink + 1 \in Nat
    BY <1>5, InodeFields
  <2>3. l \in Inode
    BY <1>5, <2>2, SetLinks
  <2> HIDE DEF l
  <2>4. MarkDirty(l).dir = l.dir
    BY <2>3, LinksAside DEF SameLinks
  <2>5. QED  BY <1>5, <2>1, <2>4 DEF Sized
<1> DEFINE up == MarkDirty(l)
           new == DirNode(i, b)
<1>7. Sized(n) /\ Sized(up) /\ Sized(new)
  BY <1>6, SizedNew
<1>8. \/ obj' = [obj EXCEPT ![d] = up, ![o] = new]
      \/ obj' = [obj EXCEPT ![d] = n]
  BY <1>2
<1> HIDE DEF n, l, up, new
<1>9. QED  BY <1>3, <1>7, <1>8 DEF AllSized

\* unlink and rmdir leave an object of size 0.
LEMMA RemoveSized ==
  ASSUME TreeFits, AllSized(obj), NEW e \in dent, Unlink(e) \/ Rmdir(e)
  PROVE  AllSized(obj')
<1> DEFINE c == e.child
           d == e.par
<1>1. c \in Objs /\ d \in Objs /\ c # d /\ obj \in [Objs -> Inode] /\ obj[c] \in Inode /\ obj[d] \in Inode
      /\ obj[d].dir
  BY DEF TreeFits, NamesFit, Good, WellFormed, Dentry
<1>2. PICK parent : parent.dir /\ \E p : Remove(e, p, parent)
  <2>1. CASE Unlink(e)
    BY <1>1, <2>1 DEF Unlink
  <2>2. CASE Rmdir(e)
    <3> DEFINE n1 == [obj[d] EXCEPT !.nlink = Pred(@)]
    <3>1. Pred(obj[d].nlink) \in Nat
      BY <1>1, InodeFields DEF Pred
    <3>2. n1 \in Inode /\ n1.dir
      BY <1>1, <3>1, SetLinks DEF Inode
    <3>3. \E p : Remove(e, p, MarkDirty(n1))
      BY <2>2 DEF Rmdir
    <3> HIDE DEF n1
    <3>4. MarkDirty(n1).dir
      BY <3>2, LinksAside DEF SameLinks
    <3>5. QED  BY <3>3, <3>4
  <2>3. QED  BY <2>1, <2>2
<1> DEFINE left == [obj EXCEPT ![d] = parent]
           rel  == [left EXCEPT ![c] = Released(left[c])]
<1>3. obj' = rel \/ obj' = [rel EXCEPT ![c] = NoInode]
  <2>1. obj' = Forget(rel, c)
    BY <1>2 DEF Remove
  <2> HIDE DEF rel
  <2>2. QED  BY <2>1 DEF Forget
<1>4. Sized(Released(obj[c]))
  <2> DEFINE pt == [i \in Index |-> IF i <= obj[c].count THEN 0 ELSE obj[c].ptr[i]]
  <2>1. Released(obj[c]) = [obj[c] EXCEPT !.ptr = pt, !.count = 0, !.nlink = 0, !.size = 0]
    BY DEF Released
  <2> HIDE DEF pt
  <2>2. Released(obj[c]).size = 0 /\ Released(obj[c]).count = 0
    BY <1>1, <2>1 DEF Inode
  <2>3. 0 <= 0 * BlockSize
    BY FSAssumption
  <2>4. QED  BY <2>2, <2>3 DEF Sized
<1>5. /\ DOMAIN rel = Objs /\ rel[c] = Released(obj[c]) /\ rel[d] = parent
      /\ \A q \in Objs \ {c, d} : rel[q] = obj[q]
  BY <1>1
<1> HIDE DEF rel
<1>6. Sized(parent)
  BY <1>2 DEF Sized
<1>7. AllSized(rel)
  BY <1>4, <1>5, <1>6 DEF AllSized
<1>8. Sized(NoInode)
  BY SizedNew
<1> HIDE DEF c, d
<1>9. ASSUME NEW q \in Objs PROVE Sized([rel EXCEPT ![c] = NoInode][q])
  <2>1. [rel EXCEPT ![c] = NoInode][q] = IF q = c THEN NoInode ELSE rel[q]
    BY <1>1, <1>5
  <2>2. QED  BY <1>7, <1>8, <2>1 DEF AllSized
<1>10. QED  BY <1>3, <1>7, <1>9 DEF AllSized

\* naive_file_write: the blocks it attaches reach the end of the write, and
\* the copy loop stops where the blocks end.
LEMMA FileWriteSized ==
  ASSUME Good, AllSized(obj), NEW o \in Objs, NEW pos \in 0 .. MaxFileSize, NEW len \in WriteLens,
         FileWrite(o, pos, len)
  PROVE  AllSized(obj')
<1> DEFINE end    == pos + len
           needed == NeededBlocks(obj[o], end)
           got    == Got(obj[o], bmap, end)
<1>1. pos \in Nat /\ len \in Nat /\ end \in Nat /\ pos <= end
  BY FSAssumption DEF MaxFileSize
<1>2. /\ obj \in [Objs -> Inode] /\ obj[o] \in Inode /\ Packed(obj[o]) /\ ~ obj[o].dir
      /\ BlockSize \in Nat
  BY FSAssumption DEF Good, WellFormed, FileWrite
<1>3. PICK f \in LowestFree(bmap, got) :
        LET node == Extend(obj[o], got, f) IN
        \/ obj' = [obj EXCEPT ![o] = node]
        \/ /\ ~ (got < needed)
           /\ \E stop \in StopsAt(node, pos, end) :
                /\ stop > node.size
                /\ obj' = [obj EXCEPT ![o] = MarkDirty([node EXCEPT !.size = stop])]
  BY DEF FileWrite, Got
<1> DEFINE node == Extend(obj[o], got, f)
<1>4. got \in 0 .. (BlockPerFile - obj[o].count) /\ got \in Nat
  BY <1>1, <1>2, GotInRange
<1>5. needed \in Nat /\ got <= needed
  <2>1. needed \in Nat /\ Cardinality(FreeBlocks(bmap)) \in Nat
    BY <1>1, <1>2, NeededIsNatural, FreeBlocksCounted
  <2>2. BlockPerFile \in Nat /\ obj[o].count \in Nat
    BY <1>2, FSAssumption, InodeFields
  <2>3. QED  BY <2>1, <2>2 DEF Got, Least
<1>6. f \in [1 .. got -> Blocks]
  <2> HIDE DEF got
  <2>1. QED  BY <1>4, LowestFreeBlocks
<1>7. obj[o].size \in Nat /\ obj[o].count \in Nat /\ obj[o].size <= obj[o].count * BlockSize
  BY <1>2, InodeFields DEF AllSized, Sized
<1> HIDE DEF got, needed
<1>8. /\ node \in Inode /\ node.size = obj[o].size /\ node.dir = obj[o].dir
      /\ node.count = obj[o].count + got
  <2>1. node \in Inode /\ node.size = obj[o].size /\ node.dir = obj[o].dir
    BY <1>2, <1>4, <1>6, ExtendType
  <2>2. node.count = obj[o].count + got
    <3> DEFINE pt == [i \in Index |-> IF i > obj[o].count /\ i <= obj[o].count + got
                                      THEN f[i - obj[o].count] ELSE obj[o].ptr[i]]
               c  == obj[o].count + got
    <3>1. node = [obj[o] EXCEPT !.count = c, !.ptr = pt]
      BY DEF Extend
    <3> HIDE DEF node, pt, c
    <3>2. node.count = c
      BY <1>2, <3>1 DEF Inode
    <3>3. QED  BY <3>2 DEF c
  <2>3. QED  BY <2>1, <2>2
<1> HIDE DEF node
<1> DEFINE have == node.count * BlockSize
<1>9. have \in Nat /\ node.count \in Nat /\ obj[o].size <= have
  <2>1. have = obj[o].count * BlockSize + got * BlockSize /\ obj[o].count * BlockSize \in Nat /\ got * BlockSize \in Nat
    BY <1>2, <1>4, <1>7, <1>8
  <2>2. QED  BY <1>4, <1>7, <1>8, <2>1
<1>10. Sized(node)
  BY <1>8, <1>9 DEF Sized
<1>11. ~ (got < needed) => end <= have
  <2>1. SUFFICES ASSUME ~ (got < needed) PROVE end <= have
    OBVIOUS
  <2>2. got = needed
    BY <1>4, <1>5, <2>1
  <2>3. CASE end > obj[o].size
    <3> DEFINE whole == obj[o].size \div BlockSize
               upto  == CeilDiv(end)
    <3>1. whole <= obj[o].count /\ whole \in Nat /\ upto \in Nat /\ end <= upto * BlockSize
      BY <1>1, <1>7, RoundedBlocks
    <3>2. needed = upto - whole
      BY <2>3 DEF needed, NeededBlocks
    <3> HIDE DEF whole, upto
    <3>3. upto <= node.count
      BY <1>4, <1>7, <1>8, <2>2, <3>1, <3>2
    <3>4. upto * BlockSize <= node.count * BlockSize
      BY <1>2, <1>9, <3>1, <3>3
    <3>5. QED  BY <1>1, <1>2, <1>9, <3>1, <3>4
  <2>4. CASE ~ (end > obj[o].size)
    BY <1>1, <1>7, <1>9, <2>4
  <2>5. QED  BY <2>3, <2>4
<1>12. CASE obj' = [obj EXCEPT ![o] = node]
  BY <1>2, <1>10, <1>12, SizedUpdate
<1>13. CASE obj' # [obj EXCEPT ![o] = node]
  <2>1. /\ ~ (got < needed)
        /\ \E stop \in StopsAt(node, pos, end) :
             /\ stop > node.size
             /\ obj' = [obj EXCEPT ![o] = MarkDirty([node EXCEPT !.size = stop])]
    BY <1>3, <1>13 DEF node
  <2>2. PICK stop \in StopsAt(node, pos, end) :
             obj' = [obj EXCEPT ![o] = MarkDirty([node EXCEPT !.size = stop])]
    BY <2>1
  <2>3. stop \in Nat /\ stop <= have
    <3>1. end <= have /\ pos <= have
      BY <1>1, <1>9, <1>11, <2>1
    <3> HIDE DEF have
    <3>2. stop \in StopsAt(node, pos, end)
      OBVIOUS
    <3>3. stop = (IF pos >= have THEN pos ELSE Least(end, have))
          \/ stop \in pos .. (IF pos >= have THEN pos ELSE Least(end, have))
      BY <3>2 DEF StopsAt, have
    <3>4. QED  BY <1>1, <1>9, <3>1, <3>3 DEF Least
  <2> DEFINE m == [node EXCEPT !.size = stop]
  <2>4. m \in Inode /\ m.size = stop /\ m.count = node.count
    BY <1>8, <2>3, SetSize DEF Inode
  <2>5. obj' = [obj EXCEPT ![o] = MarkDirty(m)]
    BY <2>2
  <2> HIDE DEF m
  <2>6. MarkDirty(m).size = m.size /\ MarkDirty(m).count = m.count
    BY <2>4 DEF MarkDirty, Inode
  <2>7. Sized(MarkDirty(m))
    BY <2>3, <2>4, <2>6 DEF Sized
  <2>8. QED  BY <1>2, <2>5, <2>7, SizedUpdate
<1>14. QED  BY <1>12, <1>13

\* truncate, when it does not enlarge.
LEMMA TruncateSized ==
  ASSUME Good, AllSized(obj), NEW o \in Objs, NEW s \in TruncSizes, Truncate(o, s), s <= obj[o].size
  PROVE  AllSized(obj')
<1> DEFINE m == [obj[o] EXCEPT !.size = s]
<1>1. s \in Nat /\ BlockSize \in Nat
  BY FSAssumption
<1>2. obj \in [Objs -> Inode] /\ obj[o] \in Inode /\ ~ obj[o].dir
  BY DEF Good, WellFormed, Truncate
<1>3. m \in Inode /\ m.size = s /\ m.count = obj[o].count
  BY <1>1, <1>2, SetSize DEF Inode
<1>4. obj' = [obj EXCEPT ![o] = MarkDirty(m)]
  BY DEF Truncate
<1> HIDE DEF m
<1>5. MarkDirty(m).size = s /\ MarkDirty(m).count = obj[o].count
  BY <1>3 DEF MarkDirty, Inode
<1>6. s <= obj[o].count * BlockSize
  <2>1. obj[o].size \in Nat /\ obj[o].count * BlockSize \in Nat /\ obj[o].size <= obj[o].count * BlockSize
    BY <1>1, <1>2, InodeFields DEF AllSized, Sized
  <2>2. QED  BY <1>1, <2>1
<1>7. Sized(MarkDirty(m))
  BY <1>5, <1>6 DEF Sized
<1>8. QED  BY <1>2, <1>4, <1>7, SizedUpdate

\* A file can be read to its end, in one read, after every write that was cut
\* short and after every unlink of an open file, with and without read
\* errors, as long as no truncate makes a file larger.
THEOREM FilesAreReadToTheEnd == Spec /\ [][~ Enlarges]_vars => []ReadsReachTheEnd
<1> DEFINE Inv == TreeFits /\ AllSized(obj)
<1>1. Init => Inv
  <2>1. Init => AllSized(obj)
    BY SizedNew DEF Init, AllSized
  <2>2. QED  BY <2>1, InitTreeFits
<1>2. Inv /\ [Next]_vars /\ [~ Enlarges]_vars => Inv'
  <2> SUFFICES ASSUME Inv, [Next]_vars, [~ Enlarges]_vars PROVE Inv'
    OBVIOUS
  <2>1. TreeFits' /\ Good
    BY NextTreeFits DEF TreeFits
  <2>2. CASE \E d \in Objs, o \in Objs, n \in Names : Create(d, n, o) \/ Mkdir(d, n, o)
    BY <2>1, <2>2, CreateSized, MkdirSized
  <2>3. CASE \E e \in dent : Unlink(e) \/ Rmdir(e)
    BY <2>1, <2>3, RemoveSized
  <2>4. CASE \E o \in Objs : Open(o) \/ Close(o)
    BY <2>1, <2>4, OpenSized
  <2>5. CASE \E o \in Objs, pos \in 0 .. MaxFileSize, len \in WriteLens : FileWrite(o, pos, len)
    BY <2>1, <2>5, FileWriteSized
  <2>6. CASE \E o \in Objs, s \in TruncSizes : Truncate(o, s)
    <3>1. PICK o \in Objs, s \in TruncSizes : Truncate(o, s)
      BY <2>6
    <3>2. CASE s <= obj[o].size
      BY <2>1, <3>1, <3>2, TruncateSized
    <3>3. CASE ~ (s <= obj[o].size)
      <4>1. s > obj[o].size
        <5>1. s \in Nat /\ obj[o].size \in Nat
          BY <2>1, FSAssumption, InodeFields DEF Good, WellFormed
        <5>2. QED  BY <3>3, <5>1
      <4>2. Enlarges
        BY <3>1, <4>1 DEF Enlarges
      <4>3. obj' = obj
        BY <4>2 DEF vars
      <4>4. QED  BY <2>1, <4>3
    <3>4. QED  BY <3>2, <3>3
  <2>7. CASE UNCHANGED vars
    BY <2>1, <2>7 DEF vars
  <2>8. QED  BY <2>2, <2>3, <2>4, <2>5, <2>6, <2>7 DEF Next
<1>3. Inv => ReadsReachTheEnd
  BY SizedIsRead DEF TreeFits, Good, WellFormed, AllSized, Sized, ReadsReachTheEnd, Live
<1>4. QED  BY <1>1, <1>2, <1>3, PTL DEF Spec
============================================================================
