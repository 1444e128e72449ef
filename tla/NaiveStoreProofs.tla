-------------------------- MODULE NaiveStoreProofs --------------------------
(***************************************************************************)
(* Theorems about NaiveStore for every geometry and set of names, with and *)
(* without read errors: packed pointers, what naive_iget makes, the root's *)
(* number, and what a mount holds, over any number of reclaims, remounts   *)
(* and mounts that fail (StoreIsSound).                                    *)
(*                                                                         *)
(* The inductive invariant adds to the properties                          *)
(*   - what the inode table may say: only an inode that naive_iget made is *)
(*     ever dirty, so only plain ones are written back, with a pointer     *)
(*     before each count (TableFits)                                       *)
(*   - that no record of a name holds the root's number: naive_lookup      *)
(*     would make an object of it (NoRootRecord)                           *)
(*   - that no name is the root's, and that nothing is in memory between   *)
(*     two mounts.                                                         *)
(***************************************************************************)
EXTENDS NaiveStore, NaiveFSProofs

----------------------------------------------------------------------------
(* What naive_fill_super holds and releases.                               *)

\* The labels that release r, one by one.
LEMMA LabelsOf ==
  ASSUME NEW k \in Calls
  PROVE  /\ Jump(k) = IF k = 1 THEN 7 ELSE IF k = 2 THEN 6 ELSE IF k \in {3, 4} THEN 5
                      ELSE IF k = 5 THEN 4 ELSE IF k = 6 THEN 3 ELSE IF k = 7 THEN 2 ELSE 1
         /\ Labels[1] = "inode_bitmap" /\ Labels[2] = "bh" /\ Labels[3] = "block_bitmap"
         /\ Labels[4] = "bh" /\ Labels[5] = "sb_bh" /\ Labels[6] = "sbi"
<1>1. k \in {1, 2, 3, 4, 5, 6, 7, 8, 9}
  BY DEF Calls
<1>2. QED  BY <1>1 DEF Jump, Labels

\* What is released when the k-th call fails: what was held, once, but for the
\* inode bitmap's buffer.
LEMMA ReleasesAre ==
  ASSUME NEW k \in Calls
  PROVE  /\ \A r \in Resources \ {"imap_bh"} : Releases(k, r) = IF r \in HoldsAt(k) THEN 1 ELSE 0
         /\ Releases(k, "imap_bh") \in Nat
         /\ "imap_bh" \in HoldsAt(k) => Releases(k, "imap_bh") > 0
<1> DEFINE Lines(r) == {l \in Jump(k) .. 6 : r = IF Labels[l] = "bh" THEN Bh(k) ELSE Labels[l]}
<1>1. k \in 1 .. 9 /\ Jump(k) \in 1 .. 7
  BY LabelsOf DEF Calls
<1>2. \A r : \A l \in Lines(r) : l \in {1, 2, 3, 4, 5, 6} /\ l >= Jump(k)
  BY <1>1
<1>3. /\ Lines("sbi") = IF k >= 2 THEN {6} ELSE {}
      /\ Lines("sb_bh") = IF k >= 3 THEN {5} ELSE {}
      /\ Lines("bmap_bh") = IF k = 5 THEN {4} ELSE {}
      /\ Lines("block_bitmap") = IF k >= 6 THEN {3} ELSE {}
      /\ Lines("inode_bitmap") = IF k >= 8 THEN {1} ELSE {}
      /\ k = 7 => 2 \in Lines("imap_bh")
  <2>1. Lines("sbi") = IF k >= 2 THEN {6} ELSE {}
    BY <1>1, <1>2, LabelsOf DEF Bh
  <2>2. Lines("sb_bh") = IF k >= 3 THEN {5} ELSE {}
    BY <1>1, <1>2, LabelsOf DEF Bh
  <2>3. Lines("bmap_bh") = IF k = 5 THEN {4} ELSE {}
    BY <1>1, <1>2, LabelsOf DEF Bh
  <2>4. Lines("block_bitmap") = IF k >= 6 THEN {3} ELSE {}
    BY <1>1, <1>2, LabelsOf DEF Bh
  <2>5. Lines("inode_bitmap") = IF k >= 8 THEN {1} ELSE {}
    BY <1>1, <1>2, LabelsOf DEF Bh
  <2>6. k = 7 => 2 \in Lines("imap_bh")
    BY <1>1, LabelsOf DEF Bh
  <2>7. QED  BY <2>1, <2>2, <2>3, <2>4, <2>5, <2>6
<1>4. \A r : Lines(r) \subseteq 1 .. 6
  BY <1>1
<1>5. \A r : Releases(k, r) = Cardinality(Lines(r))
  BY DEF Releases
<1> HIDE DEF Lines
<1>6. \A x : Cardinality({x}) = 1 /\ Cardinality({}) = 0
  BY FS_Singleton, FS_EmptySet
<1>7. \A r \in Resources \ {"imap_bh"} : Releases(k, r) = IF r \in HoldsAt(k) THEN 1 ELSE 0
  <2>1. Releases(k, "sbi") = IF "sbi" \in HoldsAt(k) THEN 1 ELSE 0
    BY <1>1, <1>3, <1>5, <1>6 DEF HoldsAt, Resources
  <2>2. Releases(k, "sb_bh") = IF "sb_bh" \in HoldsAt(k) THEN 1 ELSE 0
    BY <1>1, <1>3, <1>5, <1>6 DEF HoldsAt, Resources
  <2>3. Releases(k, "bmap_bh") = IF "bmap_bh" \in HoldsAt(k) THEN 1 ELSE 0
    BY <1>1, <1>3, <1>5, <1>6 DEF HoldsAt, Resources
  <2>4. Releases(k, "block_bitmap") = IF "block_bitmap" \in HoldsAt(k) THEN 1 ELSE 0
    BY <1>1, <1>3, <1>5, <1>6 DEF HoldsAt, Resources
  <2>5. Releases(k, "inode_bitmap") = IF "inode_bitmap" \in HoldsAt(k) THEN 1 ELSE 0
    BY <1>1, <1>3, <1>5, <1>6 DEF HoldsAt, Resources
  <2>6. QED  BY <2>1, <2>2, <2>3, <2>4, <2>5 DEF Resources
<1>8. IsFiniteSet(Lines("imap_bh"))
  <2>1. 1 \in Int /\ 6 \in Int
    OBVIOUS
  <2>2. IsFiniteSet(1 .. 6)
    BY <2>1, FS_Interval, Zenon
  <2>3. QED  BY <1>4, <2>2, FS_Subset
<1>9. Releases(k, "imap_bh") \in Nat
  BY <1>5, <1>8, FS_CardinalityType
<1>10. ASSUME "imap_bh" \in HoldsAt(k) PROVE Releases(k, "imap_bh") > 0
  <2>1. 2 \in Lines("imap_bh")
    BY <1>1, <1>3, <1>10 DEF HoldsAt
  <2>2. Cardinality(Lines("imap_bh")) # 0
    BY <1>8, <2>1, FS_EmptySet
  <2>3. QED  BY <1>5, <1>9, <2>2
<1>11. QED  BY <1>7, <1>9, <1>10

----------------------------------------------------------------------------
(* The inductive invariant.                                                *)

\* An inode in the inode hash was read back without link and as no directory,
\* and only such an inode is queued for write-back.
Plain(n) == (n.hashed => n.nlink = 0 /\ ~ n.dir) /\ (n.dirty => n.hashed)

\* The inode table: types, and a pointer below each count.
TableFits ==
  /\ itable \in [Inos -> DiskInode]
  /\ \A i \in Inos :
       /\ ~ itable[i].dir /\ itable[i].nlink = 0 /\ itable[i].count \in 0 .. BlockPerFile
       /\ \A k \in Index : k <= itable[i].count => itable[i].ptr[k] # 0

\* No record of a name holds the root's number.
NoRootRecord(bl) ==
  \A b \in Blocks : \A j \in Slot :
     RecordsIn(bl, b)[j].name \in Names => RecordsIn(bl, b)[j].ino # RootIno

\* The root has its number to itself, its bit is set, and no name leads to it.
Rooted(im, os, dn) ==
  /\ RootIno \in im
  /\ \A o \in Objs : os[o].ino = RootIno <=> o = RootObj
  /\ \A e \in dn : e.child # RootObj

\* Between two mounts nothing is in memory.
Down == (\A o \in Objs : obj[o] = NoInode) /\ dent = {}

Objects == (\A o \in Objs : Plain(obj[o])) /\ NoRootRecord(blk)

SInv ==
  /\ Good /\ TableFits /\ mounted \in BOOLEAN
  /\ Objects
  /\ mounted => Rooted(imap, obj, dent)
  /\ ~ mounted => Down
  /\ ReferencesBalance

\* The invariant gives the properties of the run.
LEMMA SInvIsProperties ==
  SInv => TypeOK /\ PointersPacked /\ ReadBackIsPlain /\ RootNumberIsKept /\ ReferencesBalance
<1> SUFFICES ASSUME SInv
             PROVE  TypeOK /\ PointersPacked /\ ReadBackIsPlain /\ RootNumberIsKept /\ ReferencesBalance
  OBVIOUS
<1>1. TypeOK /\ PointersPacked
  BY GoodIsTyped DEF SInv
<1>2. ReadBackIsPlain
  BY DEF SInv, Objects, Plain, ReadBackIsPlain, Live
<1>3. RootNumberIsKept
  BY DEF SInv, Rooted, RootNumberIsKept, Live
<1>4. QED  BY <1>1, <1>2, <1>3 DEF SInv

\* An unused or new inode.
LEMMA NewIsPlain ==
  /\ Plain(NoInode) /\ NoInode.ino = 0 /\ ~ NoInode.dir /\ ~ NoInode.open /\ NoInode.nlink = 0
  /\ \A i, isdir, links : /\ Plain(NewInode(i, isdir, links))
                          /\ NewInode(i, isdir, links).ino = i
  BY DEF NewInode, NoInode, Plain

\* The numbers that matter.
LEMMA RootFacts ==
  RootObj \in Objs /\ RootIno \in Inos /\ RootIno # 0 /\ NoName \notin Names
  /\ Dot \notin Names /\ DotDot \notin Names
<1>1. RootIno \in Inos
  BY FSAssumption, ScannedInRange
<1>2. QED  BY <1>1, AllocFacts, FSAssumption

\* What a mount holds: what naive_put_super gives back.
LEMMA MountHolds ==
  ASSUME NEW h, h = Balance(HoldsAt(Mounts))
  PROVE  \A r \in Resources : h[r] = IF r \in {"bmap_bh", "imap_bh"} THEN 0 ELSE 1
<1>1. HoldsAt(Mounts) = {"sbi", "sb_bh", "block_bitmap", "inode_bitmap"}
  BY DEF HoldsAt, Mounts, Resources
<1>2. QED  BY <1>1 DEF Balance, Resources

\* The first mount.
LEMMA InitSInv == StoreInit => SInv
<1> SUFFICES ASSUME StoreInit PROVE SInv
  OBVIOUS
<1>1. Init /\ Good /\ mounted = TRUE
  BY InitGood DEF StoreInit
<1>2. TableFits
  <2>1. ZeroInode \in DiskInode /\ ~ ZeroInode.dir /\ ZeroInode.nlink = 0 /\ ZeroInode.count = 0
    BY DEF ZeroInode, DiskInode
  <2>2. itable = [i \in Inos |-> ZeroInode]
    BY DEF StoreInit
  <2>3. BlockPerFile \in Nat /\ \A k \in Index : ~ (k <= 0)
    BY FSAssumption DEF Index
  <2>4. QED  BY <2>1, <2>2, <2>3 DEF TableFits
<1>3. Objects
  <2>1. \A o \in Objs : Plain(obj[o])
    BY <1>1, NewIsPlain DEF Init
  <2>2. NoRootRecord(blk)
    <3>1. \A b \in Blocks : RecordsIn(blk, b) = ZeroBlock
      BY <1>1 DEF Init, RecordsIn
    <3>2. \A j \in Slot : ZeroBlock[j].name \notin Names
      BY RootFacts DEF ZeroBlock, EmptyRecord
    <3>3. QED  BY <3>1, <3>2 DEF NoRootRecord
  <2>3. QED  BY <2>1, <2>2 DEF Objects
<1>4. Rooted(imap, obj, dent)
  BY <1>1, NewIsPlain, RootFacts DEF Init, Rooted
<1>5. ReferencesBalance
  BY <1>1, MountHolds DEF StoreInit, ReferencesBalance
<1>6. QED  BY <1>1, <1>2, <1>3, <1>4, <1>5 DEF SInv

----------------------------------------------------------------------------
(* The handlers.                                                           *)

\* A handler leaves an inode what it was: one without link gains none, and it
\* is dirty only if it was or if it is in the inode hash.
Like(old, n) ==
  /\ n.ino = old.ino /\ n.dir = old.dir /\ n.hashed = old.hashed
  /\ n.dirty => old.dirty \/ n.hashed
  /\ old.nlink = 0 => n.nlink = 0

\* Plain inodes stay plain.
LEMMA LikeIsPlain ==
  ASSUME NEW old, NEW n, Like(old, n), Plain(old)
  PROVE  Plain(n)
  BY DEF Like, Plain

\* The likeness of an inode to itself and to one it was made from.
LEMMA LikeFacts ==
  ASSUME NEW node \in Inode
  PROVE  /\ Like(node, node)
         /\ Like(node, MarkDirty(node))
         /\ \A s : Like(node, [node EXCEPT !.size = s])
         /\ \A f : Like(node, [node EXCEPT !.open = f])
         /\ \A c, pt : Like(node, [node EXCEPT !.count = c, !.ptr = pt])
         /\ \A k : node.nlink > 0 => Like(node, [node EXCEPT !.nlink = k])
  BY DEF Inode, Like, MarkDirty

\* Two changes in a row.
LEMMA LikeTwice ==
  ASSUME NEW old, NEW m, NEW n, Like(old, m), Like(m, n)
  PROVE  Like(old, n)
  BY DEF Like

\* The size and the mark that follow a change of the pointers.
LEMMA SizedAndMarked ==
  ASSUME NEW node \in Inode, NEW s \in Nat, NEW n, n = MarkDirty([node EXCEPT !.size = s])
  PROVE  Like(node, n)
<1> DEFINE m == [node EXCEPT !.size = s]
<1>1. m \in Inode /\ Like(node, m)
  BY LikeFacts, SetSize
<1>2. n = MarkDirty(m)
  OBVIOUS
<1> HIDE DEF m
<1>3. Like(m, n)
  BY <1>1, <1>2, LikeFacts
<1>4. QED  BY <1>1, <1>3, LikeTwice

\* add_entry leaves the directory's inode what it was.
LEMMA AddEntryLike ==
  ASSUME NEW node \in Inode, NEW name \in Names, NEW i \in Inos,
         NEW bm \in SUBSET Blocks, NEW bl \in BlockImages,
         NEW r \in AddEntry(node, name, i, bm, bl)
  PROVE  Like(node, r.node)
<1> DEFINE new == [ino |-> i, name |-> Stored[name]]
<1>1. ASSUME NEW b \in AllocBlock(bm), NEW n \in Attach(node, b)
      PROVE  n \in Inode /\ Like(node, n)
  <2>1. b \in Blocks
    BY AllocFacts
  <2>2. n \in Inode
    BY <2>1, AttachOutcome
  <2>3. CASE n = node
    BY <2>3, LikeFacts
  <2>4. CASE n # node
    <3>1. PICK j \in Index :
            n = [node EXCEPT !.ptr = [node.ptr EXCEPT ![j] = b], !.count = @ + 1]
      BY <2>4 DEF Attach
    <3>2. n = [node EXCEPT !.count = node.count + 1, !.ptr = [node.ptr EXCEPT ![j] = b]]
      BY <3>1 DEF Inode
    <3>3. QED  BY <2>2, <3>2, LikeFacts
  <2>5. QED  BY <2>3, <2>4
<1> HIDE DEF new
<1>2. CASE AddEntryFills(node, new, bm, bl, r)
  <2>1. PICK p \in FirstOf(FreePlaces(bl, node)) :
          r = [ok |-> TRUE, bmap |-> bm, node |-> node, blk |-> Put(bl, node, p, new)]
    BY <1>2 DEF AddEntryFills
  <2>2. r.node = node
    BY <2>1
  <2>3. QED  BY <2>2, LikeFacts
<1>3. CASE AddEntryFails(node, bm, bl, r)
  BY <1>3, LikeFacts DEF AddEntryFails
<1>4. CASE AddEntryGrows(node, new, bm, bl, r)
  <2> DEFINE grown(n) == MarkDirty([n EXCEPT !.size = @ + BlockSize])
             image(b) == [bl EXCEPT ![b] = [ZeroBlock EXCEPT ![1] = new]]
  <2>1. \E b \in AllocBlock(bm) : \E n \in Attach(node, b) :
          r = [ok |-> TRUE, bmap |-> bm \cup {b}, node |-> grown(n), blk |-> image(b)]
    BY <1>4 DEF AddEntryGrows
  <2> HIDE DEF grown, image
  <2>2. PICK b \in AllocBlock(bm) : \E n \in Attach(node, b) : r.node = grown(n)
    BY <2>1
  <2>3. PICK n \in Attach(node, b) : r.node = grown(n)
    BY <2>2
  <2>4. r.node = MarkDirty([n EXCEPT !.size = @ + BlockSize])
    BY <2>3 DEF grown
  <2>5. n \in Inode /\ Like(node, n)
    BY <1>1
  <2>6. n.size + BlockSize \in Nat
    BY <2>5, InodeFields, FSAssumption
  <2>7. r.node = MarkDirty([n EXCEPT !.size = n.size + BlockSize])
    BY <2>4, <2>5 DEF Inode
  <2>8. Like(n, r.node)
    BY <2>5, <2>6, <2>7, SizedAndMarked
  <2>9. QED  BY <2>5, <2>8, LikeTwice
<1>5. CASE AddEntryStops(node, bm, bl, r)
  <2>1. PICK b \in AllocBlock(bm) : \E n \in Attach(node, b) : r.node = n
    BY <1>5 DEF AddEntryStops
  <2>2. QED  BY <1>1, <2>1
<1>6. QED  BY <1>2, <1>3, <1>4, <1>5, AddEntryCases, Zenon DEF new

\* A record of another number, or of none, does no harm.
LEMMA PutNoRoot ==
  ASSUME NEW bl \in BlockImages, NoRootRecord(bl), NEW node \in Inode, NEW p \in Places(node),
         NEW rec \in Record, rec.name \in Names => rec.ino # RootIno
  PROVE  NoRootRecord(Put(bl, node, p, rec))
<1> DEFINE c    == node.ptr[p[1]]
           recs == [RecordsIn(bl, c) EXCEPT ![p[2]] = rec]
           bl2  == [bl EXCEPT ![c] = recs]
<1>1. c \in Blocks /\ p[2] \in Slot
  BY PlacesType
<1>2. RecordsIn(bl, c) \in [Slot -> Record]
  BY <1>1, ZeroBlockType DEF RecordsIn, BlockImages
<1>3. Put(bl, node, p, rec) = bl2
  BY DEF Put
<1>4. recs \in [Slot -> Record] /\ \A j \in Slot : recs[j] = IF j = p[2] THEN rec ELSE RecordsIn(bl, c)[j]
  BY <1>1, <1>2
<1> HIDE DEF recs
<1>5. \A b \in Blocks : bl2[b] = IF b = c THEN recs ELSE bl[b]
  BY <1>1 DEF BlockImages
<1>6. recs # FileBytes
  BY <1>4, TagAssumption
<1> HIDE DEF c, bl2
<1>7. \A b \in Blocks : RecordsIn(bl2, b) = IF b = c THEN recs ELSE RecordsIn(bl, b)
  BY <1>5, <1>6 DEF RecordsIn
<1>8. NoRootRecord(bl2)
  BY <1>1, <1>4, <1>7 DEF NoRootRecord
<1>9. QED  BY <1>3, <1>8

\* A block overwritten with records that are not the root's.
LEMMA NewBlockNoRoot ==
  ASSUME NEW bl \in BlockImages, NoRootRecord(bl), NEW b \in Blocks, NEW recs \in [Slot -> Record],
         \A j \in Slot : recs[j].name \in Names => recs[j].ino # RootIno
  PROVE  NoRootRecord([bl EXCEPT ![b] = recs])
<1> DEFINE bl2 == [bl EXCEPT ![b] = recs]
<1>1. \A c \in Blocks : bl2[c] = IF c = b THEN recs ELSE bl[c]
  BY DEF BlockImages
<1>2. recs # FileBytes
  BY TagAssumption
<1> HIDE DEF bl2
<1>3. \A c \in Blocks : RecordsIn(bl2, c) = IF c = b THEN recs ELSE RecordsIn(bl, c)
  BY <1>1, <1>2 DEF RecordsIn
<1>4. NoRootRecord(bl2)
  BY <1>3 DEF NoRootRecord
<1>5. QED  BY <1>4 DEF bl2

\* add_entry writes the record of a number that is not the root's.
LEMMA AddEntryNoRoot ==
  ASSUME NEW node \in Inode, NEW name \in Names, NEW i \in Inos, i # RootIno,
         NEW bm \in SUBSET Blocks, NEW bl \in BlockImages, NoRootRecord(bl),
         NEW r \in AddEntry(node, name, i, bm, bl)
  PROVE  NoRootRecord(r.blk)
<1> DEFINE new == [ino |-> i, name |-> Stored[name]]
<1>1. new \in Record /\ new.ino = i
  BY RecordType
<1> HIDE DEF new
<1>2. CASE AddEntryFills(node, new, bm, bl, r)
  <2>1. PICK p \in FirstOf(FreePlaces(bl, node)) :
          r = [ok |-> TRUE, bmap |-> bm, node |-> node, blk |-> Put(bl, node, p, new)]
    BY <1>2 DEF AddEntryFills
  <2>2. p \in Places(node) /\ r.blk = Put(bl, node, p, new)
    BY <2>1 DEF FirstOf, FreePlaces
  <2>3. QED  BY <1>1, <2>2, PutNoRoot
<1>3. CASE AddEntryFails(node, bm, bl, r)
  BY <1>3 DEF AddEntryFails
<1>4. CASE AddEntryGrows(node, new, bm, bl, r)
  <2> DEFINE recs     == [ZeroBlock EXCEPT ![1] = new]
             grown(n) == MarkDirty([n EXCEPT !.size = @ + BlockSize])
             image(b) == [bl EXCEPT ![b] = recs]
  <2>1. \E b \in AllocBlock(bm) : \E n \in Attach(node, b) :
          r = [ok |-> TRUE, bmap |-> bm \cup {b}, node |-> grown(n), blk |-> image(b)]
    BY <1>4 DEF AddEntryGrows
  <2> HIDE DEF grown, image
  <2>2. PICK b \in AllocBlock(bm) : r.blk = image(b)
    BY <2>1
  <2>3. r.blk = [bl EXCEPT ![b] = recs]
    BY <2>2 DEF image
  <2>4. b \in Blocks
    BY AllocFacts
  <2>5. recs \in [Slot -> Record] /\ \A j \in Slot : recs[j] = IF j = 1 THEN new ELSE EmptyRecord
    BY <1>1, ZeroBlockType DEF ZeroBlock
  <2>6. EmptyRecord.name \notin Names
    BY RootFacts DEF EmptyRecord
  <2> HIDE DEF recs
  <2>7. QED  BY <1>1, <2>3, <2>4, <2>5, <2>6, NewBlockNoRoot
<1>5. CASE AddEntryStops(node, bm, bl, r)
  BY <1>5 DEF AddEntryStops
<1>6. QED  BY <1>2, <1>3, <1>4, <1>5, AddEntryCases, Zenon DEF new

----------------------------------------------------------------------------
(* What a step does to each inode object.                                  *)

\* The object is changed by a handler, let go, or taken for a plain inode of
\* another number than the root's.
Fine(old, n, q) ==
  \/ Like(old, n)
  \/ n = NoInode /\ q # RootObj
  \/ old.ino = 0 /\ Plain(n) /\ n.ino # RootIno

AllFine(os, os2) == \A q \in Objs : Fine(os[q], os2[q], q)

\* One object changes.
LEMMA FineOne ==
  ASSUME NEW os, WellFormed(os), NEW o \in Objs, NEW n, Fine(os[o], n, o)
  PROVE  AllFine(os, [os EXCEPT ![o] = n])
<1> DEFINE os2 == [os EXCEPT ![o] = n]
<1>1. \A q \in Objs : os2[q] = IF q = o THEN n ELSE os[q]
  BY DEF WellFormed
<1> HIDE DEF os2
<1>2. \A q \in Objs : Like(os[q], os[q])
  BY LikeFacts DEF WellFormed
<1>3. AllFine(os, os2)
  BY <1>1, <1>2 DEF AllFine, Fine
<1>4. QED  BY <1>3 DEF os2

\* Two objects change; when they are one, the second change is the one seen.
LEMMA FineTwo ==
  ASSUME NEW os, WellFormed(os), NEW d \in Objs, NEW m, Fine(os[d], m, d),
         NEW o \in Objs, NEW n, Fine(os[o], n, o)
  PROVE  AllFine(os, [os EXCEPT ![d] = m, ![o] = n])
<1> DEFINE os1 == [os EXCEPT ![d] = m]
           os2 == [os1 EXCEPT ![o] = n]
<1>1. \A q \in Objs : os1[q] = IF q = d THEN m ELSE os[q]
  BY DEF WellFormed
<1>2. DOMAIN os1 = Objs
  BY DEF WellFormed
<1>3. [os EXCEPT ![d] = m, ![o] = n] = os2
  BY UpdateTwice
<1> HIDE DEF os1
<1>4. \A q \in Objs : os2[q] = IF q = o THEN n ELSE os1[q]
  BY <1>2
<1> HIDE DEF os2
<1>5. \A q \in Objs : Like(os[q], os[q])
  BY LikeFacts DEF WellFormed
<1>6. AllFine(os, os2)
  BY <1>1, <1>4, <1>5 DEF AllFine, Fine
<1>7. QED  BY <1>3, <1>6

\* The object is let go when nothing uses it.
LEMMA FineForget ==
  ASSUME NEW os, NEW os2, DOMAIN os2 = Objs, AllFine(os, os2), NEW o \in Objs, o # RootObj
  PROVE  AllFine(os, Forget(os2, o))
<1> DEFINE os3 == [os2 EXCEPT ![o] = NoInode]
<1>1. \A q \in Objs : os3[q] = IF q = o THEN NoInode ELSE os2[q]
  OBVIOUS
<1> HIDE DEF os3
<1>2. AllFine(os, os3)
  BY <1>1 DEF AllFine, Fine
<1>3. Forget(os2, o) \in {os2, os3}
  BY DEF Forget, os3
<1>4. QED  BY <1>2, <1>3

\* A step that changes the inodes so, makes no name of the root and writes no
\* record of its number keeps the invariant.
LEMMA FineKeeps ==
  ASSUME SInv, mounted, Good', TableFits', UNCHANGED mvars,
         AllFine(obj, obj'), RootIno \in imap', \A e \in dent' : e.child # RootObj,
         NoRootRecord(blk')
  PROVE  SInv'
<1>1. Objects /\ Rooted(imap, obj, dent) /\ ReferencesBalance /\ mounted \in BOOLEAN
  BY DEF SInv
<1>2. \A q \in Objs : Plain(obj'[q])
  BY <1>1, LikeIsPlain, NewIsPlain DEF AllFine, Fine, Objects
<1>3. \A q \in Objs : obj'[q].ino = RootIno <=> q = RootObj
  BY <1>1, RootFacts, NewIsPlain DEF AllFine, Fine, Rooted, Like
<1>4. ReferencesBalance' /\ mounted' /\ mounted' \in BOOLEAN
  BY <1>1 DEF ReferencesBalance, mvars
<1>5. Rooted(imap', obj', dent')
  BY <1>3 DEF Rooted
<1>6. QED  BY <1>2, <1>4, <1>5 DEF SInv, Objects

\* What the handlers' proofs use of the invariant.
LEMMA SInvFacts ==
  ASSUME SInv, mounted
  PROVE  /\ Good /\ WellFormed(obj) /\ obj \in [Objs -> Inode]
         /\ imap \subseteq Inos /\ bmap \in SUBSET Blocks /\ blk \in BlockImages
         /\ RootIno \in imap /\ NoRootRecord(blk)
         /\ \A e \in dent : e.child # RootObj /\ e.par \in Objs /\ e.child \in Objs
         /\ \A q \in Objs : obj[q].ino = RootIno <=> q = RootObj
  BY DEF SInv, Good, WellFormed, Rooted, Objects, Dentry

\* A handler of NaiveFS leaves the table and the mount alone.
HandlerStep == UNCHANGED <<itable, mvars>> /\ Good'

\* naive_create
LEMMA CreateKeeps ==
  ASSUME SInv, mounted, HandlerStep,
         NEW d \in Objs, NEW name \in Names, NEW o \in Objs, Create(d, name, o)
  PROVE  SInv'
<1> DEFINE made(i) == NewInode(i, FALSE, 1)
           both(x, y) == [obj EXCEPT ![d] = x, ![o] = y]
           only(x) == [obj EXCEPT ![d] = x]
           named == [par |-> d, name |-> name, child |-> o]
<1>1. \E i \in FindFreeInode(imap) : \E r \in AddEntry(obj[d], name, i, bmap, blk) :
        /\ imap' = imap \cup {i} /\ blk' = r.blk
        /\ \/ obj' = both(r.node, made(i)) /\ dent' = dent \cup {named}
           \/ obj' = only(r.node) /\ dent' = dent
  BY DEF Create
<1>2. named.child = o
  OBVIOUS
<1> HIDE DEF both, only, made, named
<1>3. PICK i \in FindFreeInode(imap) : \E r \in AddEntry(obj[d], name, i, bmap, blk) :
        /\ imap' = imap \cup {i} /\ blk' = r.blk
        /\ \/ obj' = both(r.node, made(i)) /\ dent' = dent \cup {named}
           \/ obj' = only(r.node) /\ dent' = dent
  BY <1>1
<1>4. PICK r \in AddEntry(obj[d], name, i, bmap, blk) :
        /\ imap' = imap \cup {i} /\ blk' = r.blk
        /\ \/ obj' = both(r.node, made(i)) /\ dent' = dent \cup {named}
           \/ obj' = only(r.node) /\ dent' = dent
  BY <1>3
<1>5. i \in Inos /\ i # RootIno /\ RootIno \in imap' /\ obj[o].ino = 0 /\ obj[d] \in Inode
  BY <1>4, AllocFacts, SInvFacts DEF Create
<1>6. Like(obj[d], r.node)
  BY <1>5, SInvFacts, AddEntryLike
<1>7. NoRootRecord(blk')
  BY <1>4, <1>5, SInvFacts, AddEntryNoRoot
<1>8. o # RootObj
  BY <1>5, SInvFacts, RootFacts
<1>9. \A e \in dent' : e.child # RootObj
  BY <1>4, <1>8, <1>2, SInvFacts
<1>10. Fine(obj[d], r.node, d) /\ Fine(obj[o], made(i), o)
  BY <1>5, <1>6, NewIsPlain DEF Fine, made
<1>11. AllFine(obj, obj')
  <2>1. AllFine(obj, both(r.node, made(i)))
    BY <1>10, FineTwo, SInvFacts DEF both
  <2>2. AllFine(obj, only(r.node))
    BY <1>10, FineOne, SInvFacts DEF only
  <2>3. QED  BY <1>4, <2>1, <2>2
<1>12. TableFits' /\ UNCHANGED mvars /\ Good'
  BY DEF SInv, HandlerStep, TableFits
<1>13. QED  BY <1>5, <1>7, <1>9, <1>11, <1>12, FineKeeps

\* The records of a new directory's first block do no harm: "." and ".." are
\* no names.
LEMMA DotBlockNoRoot ==
  ASSUME NEW i, NEW p
  PROVE  \A j \in Slot : DotBlock(i, p)[j].name \notin Names
<1> DEFINE dot  == [ino |-> i, name |-> Dot]
           dots == [ino |-> p, name |-> DotDot]
           one  == [ZeroBlock EXCEPT ![1] = dot]
<1>1. DotBlock(i, p) = [one EXCEPT ![2] = dots]
  BY ZeroBlockType DEF DotBlock
<1>2. \A j \in Slot : ZeroBlock[j].name \notin Names
  BY RootFacts DEF ZeroBlock, EmptyRecord
<1>3. dot.name \notin Names /\ dots.name \notin Names
  BY RootFacts
<1>4. DOMAIN ZeroBlock = Slot
  BY DEF ZeroBlock
<1> HIDE DEF dot, dots
<1>5. DOMAIN one = Slot /\ \A j \in Slot : one[j].name \notin Names
  BY <1>2, <1>3, <1>4
<1> HIDE DEF one
<1>6. QED  BY <1>1, <1>3, <1>5

\* naive_mkdir
LEMMA MkdirKeeps ==
  ASSUME SInv, mounted, HandlerStep,
         NEW d \in Objs, NEW name \in Names, NEW o \in Objs, Mkdir(d, name, o)
  PROVE  SInv'
<1> DEFINE filled(i, b) == [blk EXCEPT ![b] = DotBlock(i, obj[d].ino)]
           linked(r) == MarkDirty([r.node EXCEPT !.nlink = @ + 1])
           both(x, y) == [obj EXCEPT ![d] = x, ![o] = y]
           only(x) == [obj EXCEPT ![d] = x]
           named == [par |-> d, name |-> name, child |-> o]
           Add(i, b, r) ==
             /\ blk' = r.blk
             /\ IF r.ok
                THEN /\ bmap' = r.bmap
                     /\ obj' = both(linked(r), DirNode(i, b))
                     /\ dent' = dent \cup {named}
                ELSE /\ bmap' = r.bmap \ {b}
                     /\ obj' = only(r.node)
                     /\ UNCHANGED dent
<1>1. \E i \in FindFreeInode(imap), b \in AllocBlock(bmap) :
        /\ imap' = imap \cup {i}
        /\ \E r \in AddEntry(obj[d], name, i, bmap \cup {b}, filled(i, b)) : Add(i, b, r)
  BY Zenon DEF Mkdir, DirNode
<1>2. named.child = o
  OBVIOUS
<1> HIDE DEF filled, linked, both, only, named
<1>3. PICK i \in FindFreeInode(imap), b \in AllocBlock(bmap) :
        /\ imap' = imap \cup {i}
        /\ \E r \in AddEntry(obj[d], name, i, bmap \cup {b}, filled(i, b)) : Add(i, b, r)
  BY <1>1
<1>4. PICK r \in AddEntry(obj[d], name, i, bmap \cup {b}, filled(i, b)) :
          /\ imap' = imap \cup {i} /\ blk' = r.blk
          /\ \/ obj' = both(linked(r), DirNode(i, b)) /\ dent' = dent \cup {named}
             \/ obj' = only(r.node) /\ dent' = dent
  BY <1>3
<1>5. i \in Inos /\ i # RootIno /\ RootIno \in imap' /\ obj[o].ino = 0 /\ obj[d] \in Inode
  BY <1>4, AllocFacts, SInvFacts DEF Mkdir
<1>6. b \in Blocks /\ bmap \cup {b} \in SUBSET Blocks
  BY AllocFacts, SInvFacts
<1>7. filled(i, b) \in BlockImages /\ NoRootRecord(filled(i, b))
  <2> DEFINE recs == DotBlock(i, obj[d].ino)
  <2>1. recs \in [Slot -> Record] /\ \A j \in Slot : recs[j].name \notin Names
    BY <1>5, DotBlockType, DotBlockNoRoot, InodeFields
  <2>2. filled(i, b) = [blk EXCEPT ![b] = recs]
    BY DEF filled
  <2> HIDE DEF recs
  <2>3. filled(i, b) \in BlockImages
    BY <1>6, <2>1, <2>2, SInvFacts DEF BlockImages
  <2>4. \A j \in Slot : recs[j].name \in Names => recs[j].ino # RootIno
    BY <2>1
  <2>5. blk \in BlockImages /\ NoRootRecord(blk)
    BY SInvFacts
  <2>6. NoRootRecord([blk EXCEPT ![b] = recs])
    BY <1>6, <2>1, <2>4, <2>5, NewBlockNoRoot
  <2>7. QED  BY <2>2, <2>3, <2>6
<1>8. Like(obj[d], r.node) /\ r.node \in Inode
  BY <1>5, <1>6, <1>7, AddEntryLike, AddEntryOutcome
<1>9. NoRootRecord(blk')
  BY <1>4, <1>5, <1>6, <1>7, AddEntryNoRoot
<1>10. o # RootObj
  BY <1>5, SInvFacts, RootFacts
<1>11. \A e \in dent' : e.child # RootObj
  BY <1>4, <1>10, <1>2, SInvFacts
<1>12. Plain(DirNode(i, b)) /\ DirNode(i, b).ino = i
  BY DEF Plain, DirNode, NewInode
<1>13. Like(obj[d], linked(r))
  <2> DEFINE n == [r.node EXCEPT !.nlink = r.node.nlink + 1]
  <2>1. obj[d].nlink > 0
    BY DEF Mkdir, MayCreate
  <2>2. r.node.nlink + 1 \in Nat /\ linked(r) = MarkDirty(n)
    BY <1>8, InodeFields DEF linked
  <2>3. n \in Inode
    BY <1>8, <2>2, SetLinks
  <2>4. Like(obj[d], n)
    BY <1>8, <2>1 DEF Like, Inode
  <2> HIDE DEF n
  <2>5. Like(n, MarkDirty(n))
    BY <2>3, LikeFacts
  <2>6. QED  BY <2>2, <2>4, <2>5, LikeTwice
<1>14. Fine(obj[d], r.node, d) /\ Fine(obj[d], linked(r), d) /\ Fine(obj[o], DirNode(i, b), o)
  BY <1>5, <1>8, <1>12, <1>13 DEF Fine
<1>15. AllFine(obj, obj')
  <2>1. AllFine(obj, both(linked(r), DirNode(i, b)))
    BY <1>14, FineTwo, SInvFacts DEF both
  <2>2. AllFine(obj, only(r.node))
    BY <1>14, FineOne, SInvFacts DEF only
  <2>3. QED  BY <1>4, <2>1, <2>2
<1>16. TableFits' /\ UNCHANGED mvars /\ Good'
  BY DEF SInv, HandlerStep, TableFits
<1>17. QED  BY <1>5, <1>9, <1>11, <1>15, <1>16, FineKeeps

\* An inode that unlink or rmdir released.
LEMMA ReleasedLike ==
  ASSUME NEW node \in Inode
  PROVE  Like(node, Released(node)) /\ Released(node).nlink = 0
<1> DEFINE pt == [i \in Index |-> IF i <= node.count THEN 0 ELSE node.ptr[i]]
<1>1. Released(node) = [node EXCEPT !.ptr = pt, !.count = 0, !.nlink = 0, !.size = 0]
  BY DEF Released
<1> HIDE DEF pt
<1>2. QED  BY <1>1 DEF Like, Inode

\* naive_unlink and naive_rmdir
LEMMA RemoveKeeps ==
  ASSUME SInv, mounted, HandlerStep, NEW e \in dent, NEW p \in Places(obj[e.par]),
         NEW parent \in Inode, Like(obj[e.par], parent), Remove(e, p, parent)
  PROVE  SInv'
<1> DEFINE left == [obj EXCEPT ![e.par] = parent]
           gone == [left EXCEPT ![e.child] = Released(left[e.child])]
<1>1. /\ e.par \in Objs /\ e.child \in Objs /\ e.child # RootObj
      /\ obj \in [Objs -> Inode] /\ WellFormed(obj) /\ obj[e.par] \in Inode
  BY SInvFacts
<1>2. left \in [Objs -> Inode] /\ \A q \in Objs : left[q] = IF q = e.par THEN parent ELSE obj[q]
  BY <1>1
<1>3. obj' = Forget(gone, e.child) /\ dent' = dent \ {e}
      /\ imap' = imap \ {obj[e.child].ino} /\ blk' = ClearRecord(blk, obj[e.par], p)
  BY DEF Remove
<1> HIDE DEF left
<1>4. DOMAIN gone = Objs
      /\ \A q \in Objs : gone[q] = IF q = e.child THEN Released(left[q]) ELSE left[q]
  BY <1>1, <1>2
<1> HIDE DEF gone
<1>5. \A q \in Objs : Like(obj[q], left[q])
  BY <1>1, <1>2, LikeFacts
<1>6. \A q \in Objs : Like(left[q], Released(left[q]))
  BY <1>2, ReleasedLike
<1>7. \A q \in Objs : Like(obj[q], gone[q])
  BY <1>4, <1>5, <1>6, LikeTwice
<1>8. AllFine(obj, obj')
  BY <1>1, <1>3, <1>4, <1>7, FineForget DEF AllFine, Fine
<1>9. RootIno \in imap'
  BY <1>1, <1>3, SInvFacts
<1>10. \A f \in dent' : f.child # RootObj
  BY <1>3, SInvFacts
<1>11. NoRootRecord(blk')
  <2>1. EmptyRecord \in Record /\ EmptyRecord.name \notin Names
    BY ZeroBlockType, RootFacts DEF EmptyRecord
  <2>2. blk \in BlockImages /\ NoRootRecord(blk)
    BY SInvFacts
  <2>3. NoRootRecord(Put(blk, obj[e.par], p, EmptyRecord))
    BY <1>1, <2>1, <2>2, PutNoRoot
  <2>4. QED  BY <1>3, <2>3 DEF ClearRecord
<1>12. TableFits' /\ UNCHANGED mvars /\ Good'
  BY DEF SInv, HandlerStep, TableFits
<1>13. QED  BY <1>8, <1>9, <1>10, <1>11, <1>12, FineKeeps

\* The two handlers.
LEMMA UnlinkKeeps ==
  ASSUME SInv, mounted, HandlerStep, NEW e \in dent, Unlink(e) \/ Rmdir(e)
  PROVE  SInv'
<1> DEFINE parent == MarkDirty([obj[e.par] EXCEPT !.nlink = Pred(@)])
<1>1. obj[e.par] \in Inode /\ obj[e.par].nlink > 0
  BY SInvFacts DEF Unlink, Rmdir
<1>2. \E p \in Places(obj[e.par]) : Remove(e, p, obj[e.par]) \/ Remove(e, p, parent)
  BY DEF Unlink, Rmdir, FirstOf, Matches
<1>3. parent \in Inode /\ Like(obj[e.par], parent)
  <2> DEFINE n == [obj[e.par] EXCEPT !.nlink = Pred(obj[e.par].nlink)]
  <2>1. parent = MarkDirty(n)
    BY <1>1 DEF Inode
  <2>2. Pred(obj[e.par].nlink) \in Nat
    BY <1>1, InodeFields DEF Pred
  <2>3. n \in Inode
    BY <1>1, <2>2, SetLinks
  <2>4. Like(obj[e.par], n)
    BY <1>1, LikeFacts
  <2> HIDE DEF n, parent
  <2>5. QED  BY <2>1, <2>3, <2>4, MarkDirtyType, LikeFacts, LikeTwice
<1> HIDE DEF parent
<1>4. Like(obj[e.par], obj[e.par])
  BY <1>1, LikeFacts
<1>5. QED  BY <1>1, <1>2, <1>3, <1>4, RemoveKeeps

\* open and close
LEMMA OpenKeeps ==
  ASSUME SInv, mounted, HandlerStep, NEW o \in Objs, Open(o) \/ Close(o)
  PROVE  SInv'
<1> DEFINE with(f) == [obj EXCEPT ![o] = [obj[o] EXCEPT !.open = f]]
<1>1. obj \in [Objs -> Inode] /\ WellFormed(obj) /\ obj[o] \in Inode
  BY SInvFacts
<1>2. \A f \in BOOLEAN : with(f) = [obj EXCEPT ![o].open = f]
  BY <1>1
<1>3. \A f \in BOOLEAN : DOMAIN with(f) = Objs /\ AllFine(obj, with(f))
  <2> SUFFICES ASSUME NEW f \in BOOLEAN PROVE DOMAIN with(f) = Objs /\ AllFine(obj, with(f))
    OBVIOUS
  <2> DEFINE n == [obj[o] EXCEPT !.open = f]
  <2>1. Like(obj[o], n)
    BY <1>1, LikeFacts
  <2> HIDE DEF n
  <2>2. QED  BY <1>1, <2>1, FineOne DEF Fine, n
<1>4. \/ obj' = with(TRUE) \/ obj' = with(FALSE)
      \/ obj' = Forget(with(FALSE), o) /\ o # RootObj
  BY <1>2, Zenon DEF Open, Close, Named
<1> HIDE DEF with
<1>5. AllFine(obj, obj')
  BY <1>3, <1>4, FineForget
<1>6. UNCHANGED <<imap, dent, blk>>
  BY DEF Open, Close
<1>7. RootIno \in imap' /\ NoRootRecord(blk') /\ \A f \in dent' : f.child # RootObj
  BY <1>6, SInvFacts
<1>8. TableFits' /\ UNCHANGED mvars /\ Good'
  BY DEF SInv, HandlerStep, TableFits
<1>9. QED  BY <1>5, <1>7, <1>8, FineKeeps

\* File bytes written over blocks make no record.
LEMMA FileBytesNoRoot ==
  ASSUME NEW bl \in BlockImages, NoRootRecord(bl), NEW S
  PROVE  NoRootRecord([b \in Blocks |-> IF b \in S THEN FileBytes ELSE bl[b]])
<1> DEFINE bl2 == [b \in Blocks |-> IF b \in S THEN FileBytes ELSE bl[b]]
<1>1. \A b \in Blocks : RecordsIn(bl2, b) = IF b \in S THEN ZeroBlock ELSE RecordsIn(bl, b)
  BY DEF RecordsIn
<1> HIDE DEF bl2
<1>2. \A j \in Slot : ZeroBlock[j].name \notin Names
  BY RootFacts DEF ZeroBlock, EmptyRecord
<1>3. NoRootRecord(bl2)
  BY <1>1, <1>2 DEF NoRootRecord
<1>4. QED  BY <1>3 DEF bl2

\* naive_file_write
LEMMA FileWriteKeeps ==
  ASSUME SInv, mounted, HandlerStep, NEW o \in Objs, NEW pos \in 0 .. MaxFileSize,
         NEW len \in WriteLens, FileWrite(o, pos, len)
  PROVE  SInv'
<1> DEFINE end == pos + len
           got == Got(obj[o], bmap, end)
<1>1. pos \in Nat /\ len \in Nat /\ end \in Nat
  BY FSAssumption DEF MaxFileSize
<1>2. /\ obj[o] \in Inode /\ Packed(obj[o]) /\ blk \in BlockImages /\ WellFormed(obj)
      /\ NoRootRecord(blk)
  BY SInvFacts DEF WellFormed
<1>3. PICK f \in LowestFree(bmap, got) :
        LET node == Extend(obj[o], got, f) IN
        IF got < NeededBlocks(obj[o], end)
           THEN obj' = [obj EXCEPT ![o] = node] /\ UNCHANGED blk
           ELSE \E stop \in StopsAt(node, pos, end) :
                  /\ obj' = [obj EXCEPT ![o] = IF stop > node.size
                               THEN MarkDirty([node EXCEPT !.size = stop]) ELSE node]
                  /\ blk' = [b \in Blocks |-> IF b \in Written(node, pos, stop)
                                              THEN FileBytes ELSE blk[b]]
  BY DEF FileWrite, Got
<1> DEFINE node == Extend(obj[o], got, f)
<1>4. got \in 0 .. (BlockPerFile - obj[o].count)
  BY <1>1, <1>2, GotInRange
<1>5. f \in [1 .. got -> Blocks]
  BY AllocFacts DEF LowestFree
<1> HIDE DEF got
<1>6. node \in Inode
  BY <1>2, <1>4, <1>5, ExtendType
<1>7. Like(obj[o], node)
  BY <1>2 DEF Extend, Like, Inode
<1>8. AllFine(obj, obj') /\ NoRootRecord(blk')
  <2>1. CASE got < NeededBlocks(obj[o], end)
    <3>1. obj' = [obj EXCEPT ![o] = node] /\ blk' = blk
      BY <1>3, <2>1
    <3>2. Fine(obj[o], node, o)
      BY <1>7 DEF Fine
    <3>3. QED  BY <1>2, <3>1, <3>2, FineOne
  <2>2. CASE ~ (got < NeededBlocks(obj[o], end))
    <3>1. PICK stop \in StopsAt(node, pos, end) :
                  /\ obj' = [obj EXCEPT ![o] = IF stop > node.size
                               THEN MarkDirty([node EXCEPT !.size = stop]) ELSE node]
                  /\ blk' = [b \in Blocks |-> IF b \in Written(node, pos, stop)
                                              THEN FileBytes ELSE blk[b]]
      BY <1>3, <2>2
    <3>2. stop \in Nat
      <4>1. node.count * BlockSize \in Nat
        BY <1>6, InodeFields, FSAssumption
      <4>2. QED  BY <1>1, <4>1 DEF StopsAt, Least
    <3> DEFINE sized == MarkDirty([node EXCEPT !.size = stop])
               n     == IF stop > node.size THEN sized ELSE node
    <3>3. Like(node, sized)
      BY <1>6, <3>2, SizedAndMarked
    <3>4. obj' = [obj EXCEPT ![o] = n]
      BY <3>1
    <3>5. NoRootRecord(blk')
      BY <1>2, <3>1, FileBytesNoRoot
    <3> HIDE DEF node, sized
    <3>6. Fine(obj[o], n, o)
      BY <1>7, <3>3, LikeTwice DEF Fine
    <3> HIDE DEF n
    <3>7. QED  BY <1>2, <3>4, <3>5, <3>6, FineOne
  <2>3. QED  BY <2>1, <2>2
<1>9. RootIno \in imap' /\ \A e \in dent' : e.child # RootObj
  BY SInvFacts DEF FileWrite
<1>10. TableFits' /\ UNCHANGED mvars /\ Good'
  BY DEF SInv, HandlerStep, TableFits
<1>11. QED  BY <1>8, <1>9, <1>10, FineKeeps

\* truncate(2)
LEMMA TruncateKeeps ==
  ASSUME SInv, mounted, HandlerStep, NEW o \in Objs, NEW s \in TruncSizes, Truncate(o, s)
  PROVE  SInv'
<1> DEFINE n == MarkDirty([obj[o] EXCEPT !.size = s])
<1>1. s \in Nat /\ obj[o] \in Inode /\ WellFormed(obj)
  BY FSAssumption, SInvFacts
<1>2. obj' = [obj EXCEPT ![o] = n]
  BY DEF Truncate
<1>3. Like(obj[o], n)
  BY <1>1, SizedAndMarked
<1> HIDE DEF n
<1>4. Fine(obj[o], n, o)
  BY <1>3 DEF Fine
<1>5. AllFine(obj, obj')
  BY <1>1, <1>2, <1>4, FineOne
<1>6. RootIno \in imap' /\ NoRootRecord(blk') /\ \A e \in dent' : e.child # RootObj
  BY SInvFacts DEF Truncate
<1>7. TableFits' /\ UNCHANGED mvars /\ Good'
  BY DEF SInv, HandlerStep, TableFits
<1>8. QED  BY <1>5, <1>6, <1>7, FineKeeps

\* No handler runs between two mounts.
LEMMA NoStepWhenDown ==
  ASSUME SInv, Next
  PROVE  mounted
<1> SUFFICES ASSUME ~ mounted PROVE FALSE
  OBVIOUS
<1>1. (\A o \in Objs : obj[o].ino = 0 /\ ~ obj[o].dir /\ ~ obj[o].open) /\ dent = {}
  BY NewIsPlain DEF SInv, Down
<1>2. \A d \in Objs, o \in Objs, n \in Names : ~ Create(d, n, o) /\ ~ Mkdir(d, n, o)
  BY <1>1 DEF Create, Mkdir, MayCreate
<1>3. \A o \in Objs : ~ Open(o) /\ ~ Close(o)
  BY <1>1 DEF Open, Close, Live
<1>4. \A o \in Objs, pos \in 0 .. MaxFileSize, len \in WriteLens : ~ FileWrite(o, pos, len)
  BY <1>1 DEF FileWrite
<1>5. \A o \in Objs, s \in TruncSizes : ~ Truncate(o, s)
  BY <1>1 DEF Truncate
<1>6. QED  BY <1>1, <1>2, <1>3, <1>4, <1>5 DEF Next

\* A step of NaiveFS keeps the invariant.
LEMMA HandlerKeeps ==
  ASSUME SInv, Next, UNCHANGED <<itable, mvars>>
  PROVE  SInv'
<1>1. mounted
  BY NoStepWhenDown
<1>2. Good'
  BY NextGood DEF SInv
<1>3. HandlerStep
  BY <1>2 DEF HandlerStep
<1>4. CASE \E d \in Objs, o \in Objs, n \in Names : Create(d, n, o) \/ Mkdir(d, n, o)
  BY <1>1, <1>3, <1>4, CreateKeeps, MkdirKeeps
<1>5. CASE \E e \in dent : Unlink(e) \/ Rmdir(e)
  BY <1>1, <1>3, <1>5, UnlinkKeeps
<1>6. CASE \E o \in Objs : Open(o) \/ Close(o)
  BY <1>1, <1>3, <1>6, OpenKeeps
<1>7. CASE \E o \in Objs, pos \in 0 .. MaxFileSize, len \in WriteLens : FileWrite(o, pos, len)
  BY <1>1, <1>3, <1>7, FileWriteKeeps
<1>8. CASE \E o \in Objs, s \in TruncSizes : Truncate(o, s)
  BY <1>1, <1>3, <1>8, TruncateKeeps
<1>9. QED  BY <1>4, <1>5, <1>6, <1>7, <1>8 DEF Next

----------------------------------------------------------------------------
(* Reclaim, write-back, unmount and mount.                                 *)

\* naive_iget makes a well-formed inode, without link and no directory.
LEMMA FromDiskType ==
  ASSUME TableFits, NEW i \in Inos
  PROVE  /\ FromDisk(i) \in Inode /\ Packed(FromDisk(i)) /\ Plain(FromDisk(i))
         /\ FromDisk(i).ino = i
<1> DEFINE t  == itable[i]
           pt == [k \in Index |-> IF k <= t.count THEN t.ptr[k] ELSE 0]
           m  == NewInode(i, t.dir, t.nlink)
           n  == [m EXCEPT
                    !.size = t.size, !.count = t.count, !.hashed = TRUE, !.ptr = pt]
<1>1. /\ t \in DiskInode /\ t.dir = FALSE /\ t.nlink = 0 /\ t.count \in 0 .. BlockPerFile
      /\ \A k \in Index : k <= t.count => t.ptr[k] # 0
  BY DEF TableFits, DiskInode
<1>2. t.size \in Nat /\ t.count \in Nat /\ t.ptr \in [Index -> Blocks \cup {0}]
  BY <1>1 DEF DiskInode
<1>3. pt \in [Index -> Blocks \cup {0}] /\ \A k \in Index : pt[k] # 0 <=> k <= t.count
  BY <1>1, <1>2
<1>4. FromDisk(i) = n
  BY DEF FromDisk
<1>5. /\ m \in Inode /\ m.ino = i /\ m.dir = FALSE /\ m.nlink = 0 /\ m.open = FALSE
      /\ m.dirty = FALSE
  <2>1. m = NewInode(i, FALSE, 0)
    BY <1>1
  <2>2. NewInode(i, FALSE, 0) \in Inode
    BY NewInodeType
  <2>3. QED  BY <2>1, <2>2 DEF NewInode
<1> HIDE DEF t, pt, m
<1>6. /\ n.ino = i /\ n.dir = FALSE /\ n.nlink = 0 /\ n.size = t.size /\ n.count = t.count
      /\ n.ptr = pt /\ n.hashed = TRUE /\ n.dirty = FALSE /\ n \in Inode
  BY <1>2, <1>3, <1>5 DEF Inode
<1> HIDE DEF n
<1>7. Packed(n)
  BY <1>1, <1>3, <1>6 DEF Packed
<1>8. Plain(n)
  BY <1>6 DEF Plain
<1>9. QED  BY <1>4, <1>6, <1>7, <1>8

\* A record naive_lookup finds holds a number other than the root's.
LEMMA FoundNumber ==
  ASSUME SInv, NEW d \in Objs, NEW name \in Names, NEW p \in Matches(blk, obj[d], name)
  PROVE  At(blk, obj[d], p).ino \in Inos /\ At(blk, obj[d], p).ino # RootIno
<1> DEFINE b == obj[d].ptr[p[1]]
           j == p[2]
<1>1. obj[d] \in Inode /\ blk \in BlockImages /\ NoRootRecord(blk)
  BY DEF SInv, Good, WellFormed, Objects
<1>2. p \in Places(obj[d]) /\ At(blk, obj[d], p).ino # 0 /\ At(blk, obj[d], p).name = name
  BY DEF Matches
<1>3. b \in Blocks /\ j \in Slot
  BY <1>1, <1>2, PlacesType
<1>4. At(blk, obj[d], p) = RecordsIn(blk, b)[j]
  BY DEF At
<1> HIDE DEF b, j
<1>5. RecordsIn(blk, b) \in [Slot -> Record]
  BY <1>1, <1>3, ZeroBlockType DEF RecordsIn, BlockImages
<1>6. RecordsIn(blk, b)[j] \in Record
  BY <1>3, <1>5
<1>7. RecordsIn(blk, b)[j].name = name /\ RecordsIn(blk, b)[j].ino # 0
  BY <1>2, <1>4
<1>8. RecordsIn(blk, b)[j].ino # RootIno
  BY <1>1, <1>3, <1>7 DEF NoRootRecord
<1>9. RecordsIn(blk, b)[j].ino \in Inos
  BY <1>6, <1>7 DEF Record
<1>10. QED  BY <1>4, <1>8, <1>9

\* naive_lookup
LEMMA LookupKeeps ==
  ASSUME SInv, NEW d \in Objs, NEW name \in Names, NEW o \in Objs, Lookup(d, name, o)
  PROVE  SInv'
<1> DEFINE number(p) == At(blk, obj[d], p).ino
           cached(i) == {q \in Live : obj[q].hashed /\ obj[q].ino = i}
           named     == [par |-> d, name |-> name, child |-> o]
<1>1. mounted
  BY NewIsPlain DEF SInv, Down, Lookup
<1>2. \E p \in Matches(blk, obj[d], name) :
        /\ \/ obj[o].ino = 0 /\ obj' = [obj EXCEPT ![o] = FromDisk(number(p))]
           \/ o \in cached(number(p)) /\ obj' = obj
        /\ dent' = dent \cup {named}
  BY DEF Lookup, FirstOf
<1>3. UNCHANGED <<imap, bmap, blk, itable, mvars>>
  BY DEF Lookup
<1>4. named \in Dentry /\ named.child = o
  BY DEF Dentry
<1> HIDE DEF number, named
<1>5. PICK p \in Matches(blk, obj[d], name) :
        /\ \/ obj[o].ino = 0 /\ obj' = [obj EXCEPT ![o] = FromDisk(number(p))]
           \/ o \in cached(number(p)) /\ obj' = obj
        /\ dent' = dent \cup {named}
  BY <1>2
<1> DEFINE i == number(p)
<1>6. i \in Inos /\ i # RootIno
  BY FoundNumber DEF number
<1> HIDE DEF i
<1>7. o # RootObj
  BY <1>1, <1>5, <1>6, SInvFacts, RootFacts DEF i
<1>8. TableFits /\ WellFormed(obj)
  BY DEF SInv, Good
<1>9. /\ FromDisk(i) \in Inode /\ Packed(FromDisk(i)) /\ Plain(FromDisk(i))
      /\ FromDisk(i).ino # RootIno
  BY <1>6, <1>8, FromDiskType
<1>10. WellFormed(obj') /\ AllFine(obj, obj')
  <2>1. CASE obj[o].ino = 0 /\ obj' = [obj EXCEPT ![o] = FromDisk(i)]
    <3>1. Fine(obj[o], FromDisk(i), o)
      BY <1>9, <2>1 DEF Fine
    <3>2. QED  BY <1>8, <1>9, <2>1, <3>1, UpdateOne, FineOne
  <2>2. CASE obj' = obj
    BY <1>8, <2>2, LikeFacts DEF AllFine, Fine, WellFormed
  <2>3. QED  BY <1>5, <2>1, <2>2 DEF i
<1>11. Good'
  BY <1>3, <1>4, <1>5, <1>10 DEF SInv, Good
<1>12. TableFits' /\ UNCHANGED mvars
  BY <1>3, <1>8 DEF TableFits
<1>13. RootIno \in imap' /\ NoRootRecord(blk') /\ \A e \in dent' : e.child # RootObj
  BY <1>1, <1>3, <1>4, <1>5, <1>7, SInvFacts
<1>14. QED  BY <1>1, <1>10, <1>11, <1>12, <1>13, FineKeeps

\* The VFS lets go of a name and of its object.
LEMMA DropKeeps ==
  ASSUME SInv, NEW e \in dent, DropDentry(e)
  PROVE  SInv'
<1>1. mounted
  BY DEF SInv, Down
<1>2. e.child \in Objs /\ e.child # RootObj /\ WellFormed(obj) /\ DOMAIN obj = Objs
  BY <1>1, SInvFacts
<1>3. AllFine(obj, obj)
  BY <1>2, LikeFacts DEF AllFine, Fine, WellFormed
<1>4. obj' \in {obj, Forget(obj, e.child)} /\ dent' = dent \ {e}
      /\ UNCHANGED <<imap, bmap, blk, itable, mvars>>
  BY DEF DropDentry
<1>5. WellFormed(obj') /\ AllFine(obj, obj')
  BY <1>2, <1>3, <1>4, ForgetWellFormed, FineForget
<1>6. Good'
  BY <1>4, <1>5 DEF SInv, Good
<1>7. TableFits' /\ UNCHANGED mvars
  BY <1>4 DEF SInv, TableFits
<1>8. RootIno \in imap' /\ NoRootRecord(blk') /\ \A f \in dent' : f.child # RootObj
  BY <1>1, <1>4, SInvFacts
<1>9. QED  BY <1>1, <1>5, <1>6, <1>7, <1>8, FineKeeps

\* naive_write_inode of a plain inode keeps the table readable.
LEMMA OnDiskFits ==
  ASSUME NEW node \in Inode, Packed(node), ~ node.dir, node.nlink = 0, NEW old \in DiskInode
  PROVE  /\ OnDisk(node, old) \in DiskInode
         /\ OnDisk(node, old).dir = FALSE /\ OnDisk(node, old).nlink = 0
         /\ OnDisk(node, old).count \in 0 .. BlockPerFile
         /\ \A k \in Index : k <= OnDisk(node, old).count => OnDisk(node, old).ptr[k] # 0
<1> DEFINE pt == [k \in Index |-> IF k <= node.count THEN node.ptr[k] ELSE old.ptr[k]]
<1>1. /\ node.ptr \in [Index -> Blocks \cup {0}] /\ node.size \in Nat /\ node.count \in Nat
      /\ old.ptr \in [Index -> Blocks \cup {0}] /\ node.dir = FALSE
  BY InodeFields DEF DiskInode, Inode
<1>2. pt \in [Index -> Blocks \cup {0}] /\ \A k \in Index : k <= node.count => pt[k] # 0
  BY <1>1 DEF Packed
<1>3. OnDisk(node, old) =
        [dir |-> FALSE, nlink |-> 0, count |-> node.count, size |-> node.size, ptr |-> pt]
  BY <1>1 DEF OnDisk
<1> HIDE DEF pt
<1>4. QED  BY <1>1, <1>2, <1>3 DEF DiskInode, Packed

\* Write-back of a dirty inode.
LEMMA WriteInodeKeeps ==
  ASSUME SInv, NEW o \in Objs, WriteInode(o)
  PROVE  SInv'
<1> DEFINE n    == [obj[o] EXCEPT !.dirty = FALSE]
           disk == OnDisk(obj[o], itable[obj[o].ino])
<1>1. o \in Live /\ obj[o].dirty /\ obj' = [obj EXCEPT ![o].dirty = FALSE]
      /\ UNCHANGED <<imap, bmap, dent, blk, mvars>>
      /\ itable' = [itable EXCEPT ![obj[o].ino] = OnDisk(obj[o], @)]
  BY DEF WriteInode
<1>2. mounted
  BY <1>1, NewIsPlain DEF SInv, Down, Live
<1>3. obj \in [Objs -> Inode] /\ obj[o] \in Inode /\ WellFormed(obj) /\ Packed(obj[o])
      /\ Plain(obj[o]) /\ TableFits /\ itable \in [Inos -> DiskInode]
  BY DEF SInv, Good, WellFormed, Objects, TableFits
<1>4. ~ obj[o].dir /\ obj[o].nlink = 0 /\ obj[o].ino \in Inos
  BY <1>1, <1>3, InodeFields DEF Plain, Live
<1>5. obj' = [obj EXCEPT ![o] = n]
  BY <1>1, <1>3
<1>6. itable' = [itable EXCEPT ![obj[o].ino] = disk]
  BY <1>1, <1>3, <1>4
<1>7. n \in Inode /\ Packed(n) /\ Like(obj[o], n)
  BY <1>3 DEF Inode, Packed, Like
<1> HIDE DEF n
<1>8. WellFormed(obj') /\ AllFine(obj, obj')
  BY <1>3, <1>5, <1>7, UpdateOne, FineOne DEF Fine
<1>9. /\ disk \in DiskInode /\ ~ disk.dir /\ disk.nlink = 0 /\ disk.count \in 0 .. BlockPerFile
      /\ \A k \in Index : k <= disk.count => disk.ptr[k] # 0
  BY <1>3, <1>4, OnDiskFits
<1> HIDE DEF disk
<1>10. TableFits'
  <2>1. /\ itable' \in [Inos -> DiskInode]
        /\ \A i \in Inos : itable'[i] = IF i = obj[o].ino THEN disk ELSE itable[i]
    BY <1>3, <1>4, <1>6, <1>9
  <2>2. QED  BY <1>3, <1>9, <2>1 DEF TableFits
<1>11. Good'
  BY <1>1, <1>8 DEF SInv, Good
<1>12. RootIno \in imap' /\ NoRootRecord(blk') /\ \A e \in dent' : e.child # RootObj
  BY <1>1, <1>2, SInvFacts
<1>13. QED  BY <1>1, <1>2, <1>8, <1>10, <1>11, <1>12, FineKeeps

\* umount and naive_put_super
LEMMA UnmountKeeps ==
  ASSUME SInv, Unmount
  PROVE  SInv'
<1>1. /\ mounted /\ imap' = {} /\ bmap' = {} /\ dent' = {} /\ mounted' = FALSE
      /\ obj' = [o \in Objs |-> NoInode] /\ UNCHANGED <<blk, itable>>
      /\ held' = [r \in Resources |-> IF r \in {"block_bitmap", "inode_bitmap", "sb_bh", "sbi"}
                                      THEN held[r] - 1 ELSE held[r]]
  BY DEF Unmount
<1>2. Good'
  <2>1. NoInode \in Inode /\ Packed(NoInode)
    BY NewInodeType, NewInodePacked DEF NoInode
  <2>2. WellFormed(obj')
    BY <1>1, <2>1 DEF WellFormed
  <2>3. QED  BY <1>1, <2>2 DEF SInv, Good
<1>3. TableFits' /\ Objects' /\ Down'
  BY <1>1, NewIsPlain DEF SInv, TableFits, Objects, Down
<1>4. ReferencesBalance'
  <2>1. ReferencesBalance
    BY DEF SInv
  <2>2. \A r \in Resources :
          held'[r] = IF r \in {"block_bitmap", "inode_bitmap", "sb_bh", "sbi"}
                     THEN held[r] - 1 ELSE held[r]
    BY <1>1
  <2>3. \A r \in Resources :
          held[r] = IF r \in {"bmap_bh", "imap_bh"} THEN 0 ELSE 1
    BY <1>1, <2>1 DEF ReferencesBalance
  <2>4. \A r \in Resources : held'[r] = 0
    BY <2>2, <2>3 DEF Resources
  <2>5. QED  BY <1>1, <2>4 DEF ReferencesBalance
<1>5. QED  BY <1>1, <1>2, <1>3, <1>4 DEF SInv

\* The next naive_fill_super.
LEMMA MountKeeps ==
  ASSUME SInv, Mount
  PROVE  SInv'
<1> DEFINE root == NewInode(RootIno, TRUE, 2)
<1>1. /\ ~ mounted /\ imap' = {RootIno} /\ mounted' = TRUE
      /\ held' = Balance(HoldsAt(Mounts)) /\ UNCHANGED <<bmap, dent, blk, itable>>
      /\ obj' = [obj EXCEPT ![RootObj] = root]
  BY DEF Mount
<1>2. Good /\ TableFits /\ Objects /\ Down
  BY <1>1 DEF SInv
<1>3. root \in Inode /\ Packed(root) /\ Plain(root) /\ root.ino = RootIno
  BY RootFacts, NewInodeType, NewInodePacked, NewIsPlain
<1> HIDE DEF root
<1>4. obj \in [Objs -> Inode] /\ \A o \in Objs : obj'[o] = IF o = RootObj THEN root ELSE NoInode
  BY <1>1, <1>2, RootFacts DEF Good, WellFormed, Down
<1>5. Good'
  BY <1>1, <1>2, <1>3, RootFacts, UpdateOne DEF Good
<1>6. Rooted(imap', obj', dent')
  BY <1>1, <1>2, <1>3, <1>4, NewIsPlain, RootFacts DEF Rooted, Down
<1>7. Objects'
  BY <1>1, <1>2, <1>3, <1>4, NewIsPlain DEF Objects
<1>8. TableFits'
  BY <1>1, <1>2 DEF TableFits
<1>9. ReferencesBalance'
  BY <1>1, MountHolds DEF ReferencesBalance
<1>10. QED  BY <1>1, <1>5, <1>6, <1>7, <1>8, <1>9 DEF SInv

\* A naive_fill_super that fails.
LEMMA MountFailsKeeps ==
  ASSUME SInv, NEW k \in Calls, MountFails(k)
  PROVE  SInv'
<1>1. /\ ~ mounted /\ UNCHANGED <<imap, bmap, obj, dent, blk, itable, mounted>>
      /\ held' = [r \in Resources |-> Balance(HoldsAt(k))[r] - Releases(k, r)]
  BY DEF MountFails
<1>2. Good' /\ TableFits' /\ Objects' /\ Down' /\ mounted' = mounted
  BY <1>1 DEF SInv, Good, WellFormed, TableFits, Objects, Down
<1>3. \A r \in Resources : held'[r] = (IF r \in HoldsAt(k) THEN 1 ELSE 0) - Releases(k, r)
  BY <1>1 DEF Balance
<1>4. \A r \in Resources \ {"imap_bh"} : held'[r] = 0
  BY <1>3, ReleasesAre
<1>5. held'["imap_bh"] <= 0
  <2>1. "imap_bh" \in Resources
    BY DEF Resources
  <2>2. /\ Releases(k, "imap_bh") \in Nat
        /\ "imap_bh" \in HoldsAt(k) => Releases(k, "imap_bh") > 0
    BY ReleasesAre
  <2>3. QED  BY <1>3, <2>1, <2>2
<1>6. ReferencesBalance'
  BY <1>1, <1>4, <1>5 DEF ReferencesBalance
<1>7. QED  BY <1>1, <1>2, <1>6 DEF SInv

\* The invariant is inductive.
LEMMA StoreNextInv == SInv /\ [StoreNext]_svars => SInv'
<1> SUFFICES ASSUME SInv, [StoreNext]_svars PROVE SInv'
  OBVIOUS
<1>1. CASE Next /\ UNCHANGED <<itable, mvars>>
  BY <1>1, HandlerKeeps
<1>2. CASE \E d, o \in Objs, n \in Names : Lookup(d, n, o)
  BY <1>2, LookupKeeps
<1>3. CASE \E e \in dent : DropDentry(e)
  BY <1>3, DropKeeps
<1>4. CASE \E o \in Objs : WriteInode(o)
  BY <1>4, WriteInodeKeeps
<1>5. CASE Unmount
  BY <1>5, UnmountKeeps
<1>6. CASE Mount
  BY <1>6, MountKeeps
<1>7. CASE \E k \in Calls : MountFails(k)
  BY <1>7, MountFailsKeeps
<1>8. CASE UNCHANGED svars
  BY <1>8 DEF svars, SInv, Good, WellFormed, TableFits, Objects, Rooted, Down, ReferencesBalance
<1>9. QED  BY <1>1, <1>2, <1>3, <1>4, <1>5, <1>6, <1>7, <1>8 DEF StoreNext

\* Over any number of reclaims, write-backs, remounts and mounts that fail,
\* for every geometry and with and without read errors: the pointers of each
\* inode, read back or not, are exactly its first block_count ones; what
\* naive_iget makes has no link and is no directory; nothing but the root has
\* the root's number, whose bit stays set; and a mount holds exactly what
\* naive_put_super gives back.
THEOREM StoreIsSound ==
  StoreSpec => [](TypeOK /\ PointersPacked /\ ReadBackIsPlain /\ RootNumberIsKept
                  /\ ReferencesBalance)
<1>1. StoreInit => SInv
  BY InitSInv
<1>2. SInv /\ [StoreNext]_svars => SInv'
  BY StoreNextInv
<1>3. SInv => TypeOK /\ PointersPacked /\ ReadBackIsPlain /\ RootNumberIsKept /\ ReferencesBalance
  BY SInvIsProperties
<1>4. QED  BY <1>1, <1>2, <1>3, PTL DEF StoreSpec
=============================================================================
