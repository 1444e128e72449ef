-------------------------- MODULE NaiveNamesProofs -------------------------
(***************************************************************************)
(* Theorems about the records in the directories' blocks, for every        *)
(* geometry: they follow the names, and NaiveFS implements Namespace.      *)
(*                                                                         *)
(* They are about the system while no block is half added to a directory   *)
(* (HalfAdded: the one failing read that breaks them) and while no name is *)
(* longer than a record keeps; where a full directory would break them,    *)
(* they say "as long as every directory has room".                         *)
(***************************************************************************)
EXTENDS NaiveFSProofs

\* Names are shorter than 128 bytes: a record keeps them whole.
NamesAreKept == \A n \in Names : Stored[n] = n

----------------------------------------------------------------------------
(* The records of one directory.                                           *)

\* The places that hold a record in use.
Used(bl, node) == {p \in Places(node) : At(bl, node, p).ino # 0}

\* Nothing in use changes.
SameUsed(bl, node, bl2, node2) ==
  /\ Used(bl2, node2) = Used(bl, node)
  /\ \A p \in Used(bl, node) : At(bl2, node2, p) = At(bl, node, p)

\* One more record is in use.
Gains(bl, node, bl2, node2, rec) == \E p \in Index \X Slot :
  /\ p \notin Used(bl, node) /\ Used(bl2, node2) = Used(bl, node) \cup {p}
  /\ At(bl2, node2, p) = rec
  /\ \A q \in Used(bl, node) : At(bl2, node2, q) = At(bl, node, q)

\* The record at p is not in use any more.
Loses(bl, node, bl2, node2, p) ==
  /\ Used(bl2, node2) = Used(bl, node) \ {p}
  /\ \A q \in Used(bl, node) \ {p} : At(bl2, node2, q) = At(bl, node, q)

\* No record is free and no pointer is zero: add_entry has no place to write.
NoRoom(bl, node) == FreePlaces(bl, node) = {} /\ \A i \in Index : node.ptr[i] # 0

\* No two pointers of an inode are one block, and each is marked.
OwnsEach(node, bm) ==
  \A i, k \in Index : /\ node.ptr[i] \in bm \cup {0}
                      /\ node.ptr[i] # 0 /\ node.ptr[i] = node.ptr[k] => i = k

\* The blocks of an inode are the same in bl2.
SameBlocks(bl, node, bl2) == \A i \in Index : node.ptr[i] # 0 => bl2[node.ptr[i]] = bl[node.ptr[i]]

\* A directory whose pointers and blocks stay keeps its records.
LEMMA RecordsStay ==
  ASSUME NEW bl, NEW node, NEW bl2, NEW node2,
         SamePointers(node, node2), SameBlocks(bl, node, bl2)
  PROVE  SameUsed(bl, node, bl2, node2)
<1>1. Places(node2) = Places(node)
  BY DEF Places, SamePointers
<1>2. \A p \in Places(node) : At(bl2, node2, p) = At(bl, node, p)
  BY DEF Places, At, RecordsIn, SamePointers, SameBlocks
<1>3. QED  BY <1>1, <1>2 DEF Used, SameUsed

\* The records are a matter of the pointers and their count.
LEMMA RecordsByPointers ==
  ASSUME NEW bl, NEW node, NEW node2, SamePointers(node, node2)
  PROVE  Used(bl, node2) = Used(bl, node) /\ \A p : At(bl, node2, p) = At(bl, node, p)
  BY DEF Used, Places, At, RecordsIn, SamePointers

\* A block of records is read as it is.
LEMMA ReadAsWritten ==
  ASSUME NEW bl \in BlockImages, NEW b \in Blocks, NEW recs \in [Slot -> Record]
  PROVE  /\ RecordsIn([bl EXCEPT ![b] = recs], b) = recs
         /\ \A c \in Blocks \ {b} : RecordsIn([bl EXCEPT ![b] = recs], c) = RecordsIn(bl, c)
         /\ RecordsIn(bl, b) \in [Slot -> Record]
  BY TagAssumption, ZeroBlockType DEF RecordsIn, BlockImages

\* Putting a record changes the record at its place and no other.
LEMMA PutPlace ==
  ASSUME NEW bl \in BlockImages, NEW node \in Inode, NEW bm, OwnsEach(node, bm),
         NEW p \in Places(node), NEW rec \in Record
  PROVE  /\ At(Put(bl, node, p, rec), node, p) = rec
         /\ \A q \in Places(node) \ {p} : At(Put(bl, node, p, rec), node, q) = At(bl, node, q)
         /\ \A b \in Blocks : (\A k \in Index : node.ptr[k] # b) => Put(bl, node, p, rec)[b] = bl[b]
<1> DEFINE c    == node.ptr[p[1]]
           recs == [RecordsIn(bl, c) EXCEPT ![p[2]] = rec]
           bl2  == [bl EXCEPT ![c] = recs]
<1>1. p[1] \in Index /\ p[2] \in Slot /\ c \in Blocks /\ p = <<p[1], p[2]>>
  <2>1. p \in Index \X Slot
    BY DEF Places
  <2>2. QED  BY <2>1, PlacesType
<1>2. RecordsIn(bl, c) \in [Slot -> Record]
  BY <1>1, ReadAsWritten, ZeroBlockType
<1>3. recs \in [Slot -> Record] /\ recs[p[2]] = rec
      /\ \A j \in Slot \ {p[2]} : recs[j] = RecordsIn(bl, c)[j]
  BY <1>1, <1>2
<1>4. Put(bl, node, p, rec) = bl2
  BY DEF Put
<1> HIDE DEF recs
<1>5. RecordsIn(bl2, c) = recs /\ \A b \in Blocks \ {c} : RecordsIn(bl2, b) = RecordsIn(bl, b)
  <2> HIDE DEF c
  <2>1. QED  BY <1>1, <1>3, ReadAsWritten
<1>6. \A b \in Blocks \ {c} : bl2[b] = bl[b]
  BY DEF BlockImages
<1> HIDE DEF bl2
<1>7. At(bl2, node, p) = rec
  BY <1>3, <1>5 DEF At
<1>8. ASSUME NEW q \in Places(node) \ {p}
      PROVE  At(bl2, node, q) = At(bl, node, q)
  <2>1. q[1] \in Index /\ q[2] \in Slot /\ node.ptr[q[1]] \in Blocks /\ q = <<q[1], q[2]>>
    <3>1. q \in Index \X Slot
      BY DEF Places
    <3>2. QED  BY <3>1, PlacesType
  <2>2. CASE q[1] = p[1]
    <3>1. q[2] # p[2]
      BY <1>1, <2>1, <2>2
    <3>2. QED  BY <1>3, <1>5, <2>1, <2>2, <3>1 DEF At
  <2>3. CASE q[1] # p[1]
    <3>1. node.ptr[q[1]] # c
      BY <1>1, <2>1, <2>3, AllocFacts DEF OwnsEach
    <3>2. QED  BY <1>5, <2>1, <3>1 DEF At
  <2>4. QED  BY <2>2, <2>3
<1>9. QED  BY <1>1, <1>4, <1>6, <1>7, <1>8
\* A record put in a free place is one more in use.
LEMMA FillsRecords ==
  ASSUME NEW bl \in BlockImages, NEW node \in Inode, NEW bm, OwnsEach(node, bm),
         NEW new \in Record, new.ino # 0, NEW p \in FreePlaces(bl, node)
  PROVE  Gains(bl, node, Put(bl, node, p, new), node, new)
<1> DEFINE bl2 == Put(bl, node, p, new)
<1>1. p \in Places(node) /\ p \in Index \X Slot /\ p \notin Used(bl, node)
  BY DEF FreePlaces, Used, Places
<1>2. At(bl2, node, p) = new /\ \A q \in Places(node) \ {p} : At(bl2, node, q) = At(bl, node, q)
  BY <1>1, PutPlace
<1> HIDE DEF bl2
<1>3. Used(bl2, node) = Used(bl, node) \cup {p}
  BY <1>1, <1>2 DEF Used
<1>4. \A q \in Used(bl, node) : At(bl2, node, q) = At(bl, node, q)
  BY <1>1, <1>2 DEF Used
<1>5. Gains(bl, node, bl2, node, new)
  BY <1>1, <1>2, <1>3, <1>4 DEF Gains
<1>6. QED  BY <1>5 DEF bl2

\* A new block is attached with the record in it, or, when every pointer is in
\* use, written and forgotten.
LEMMA GrowsRecords ==
  ASSUME NEW bl \in BlockImages, NEW node \in Inode, Packed(node),
         NEW bm, OwnsEach(node, bm), NEW b \in Blocks \ bm, NEW n \in Attach(node, b),
         NEW new \in Record, new.ino # 0, FreePlaces(bl, node) = {},
         NEW bl2, bl2 = [bl EXCEPT ![b] = [ZeroBlock EXCEPT ![1] = new]]
  PROVE  \/ Gains(bl, node, bl2, n, new)
         \/ NoRoom(bl, node) /\ SameUsed(bl, node, bl2, n)
<1> DEFINE first == [ZeroBlock EXCEPT ![1] = new]
<1>1. 1 \in Slot /\ first \in [Slot -> Record] /\ first[1] = new
      /\ \A j \in Slot \ {1} : first[j].ino = 0
  BY ZeroBlockType, FSAssumption DEF Slot, ZeroBlock, EmptyRecord
<1>2. RecordsIn(bl2, b) = first
  <2> HIDE DEF first
  <2>1. RecordsIn([bl EXCEPT ![b] = first], b) = first
    BY <1>1, ReadAsWritten
  <2>2. QED  BY <2>1 DEF first
<1>3. \A c \in Blocks \ {b} : bl2[c] = bl[c] /\ RecordsIn(bl2, c) = RecordsIn(bl, c)
  BY DEF BlockImages, RecordsIn
<1> HIDE DEF first
<1>4. \A i \in Index : node.ptr[i] # b /\ (node.ptr[i] # 0 => node.ptr[i] \in Blocks)
  BY AllocFacts, InodeFields DEF OwnsEach
<1>5. CASE n = node /\ \A i \in Index : node.ptr[i] # 0
  <2>1. SameBlocks(bl, node, bl2)
    BY <1>3, <1>4 DEF SameBlocks
  <2>2. SamePointers(node, n)
    BY <1>5 DEF SamePointers
  <2>3. QED  BY <1>5, <2>1, <2>2, RecordsStay DEF NoRoom
<1>6. CASE \E k \in Index : HungAt(node, n, b, k)
  <2>1. PICK k \in Index : HungAt(node, n, b, k)
    BY <1>6
  <2>2. k = node.count + 1
    <3>1. n \in Inode
      BY AttachOutcome
    <3>2. QED  BY <2>1, <3>1, HungPacked
  <2>3. n.count = node.count + 1 /\ n.ptr = [node.ptr EXCEPT ![k] = b] /\ node.count \in Nat
        /\ node.ptr \in [Index -> Blocks \cup {0}]
    BY <2>1, InodeFields DEF HungAt
  <2>4. n.ptr[k] = b /\ b # 0 /\ \A i \in Index \ {k} : n.ptr[i] = node.ptr[i]
    BY <2>3, AllocFacts
  <2>5. \A i \in Index : i <= n.count <=> i <= node.count \/ i = k
    BY <2>2, <2>3, FSAssumption DEF Index
  <2>6. ~ (k <= node.count)
    BY <2>2, <2>3
  <2>7. \A p \in Index \X Slot : p \in Places(n) <=> p \in Places(node) \/ p[1] = k
    BY <2>4, <2>5, <2>6 DEF Places
  <2>8. \A p \in Places(node) : p[1] \in Index /\ p[1] # k /\ n.ptr[p[1]] = node.ptr[p[1]] /\ p \in Index \X Slot
    BY <2>4, <2>6 DEF Places
  <2>9. \A p \in Places(node) : At(bl2, n, p) = At(bl, node, p)
    <3> TAKE p \in Places(node)
    <3>1. node.ptr[p[1]] \in Blocks \ {b} /\ n.ptr[p[1]] = node.ptr[p[1]]
      BY <1>4, <2>8 DEF Places
    <3>2. QED  BY <1>3, <3>1 DEF At
  <2>10. \A p \in Index \X Slot : p[1] = k => At(bl2, n, p) = first[p[2]] /\ p[2] \in Slot
    BY <1>2, <2>4 DEF At
  <2> DEFINE p1 == <<k, 1>>
  <2>11. p1 \in Index \X Slot /\ p1[1] = k /\ p1[2] = 1
         /\ \A p \in Index \X Slot : p[1] = k /\ p[2] = 1 => p = p1
    BY <1>1, <2>1
  <2> HIDE DEF p1
  <2>12. At(bl2, n, p1) = new /\ p1 \in Places(n) /\ p1 \notin Used(bl, node)
    BY <1>1, <2>7, <2>8, <2>10, <2>11 DEF Used
  <2>13. Used(bl2, n) = Used(bl, node) \cup {p1}
    <3>1. ASSUME NEW p \in Used(bl2, n)
          PROVE  p \in Used(bl, node) \cup {p1}
      <4>1. p \in Places(n) /\ p \in Index \X Slot /\ At(bl2, n, p).ino # 0
        BY DEF Used, Places
      <4>2. CASE p \in Places(node)
        BY <2>9, <4>1, <4>2 DEF Used
      <4>3. CASE p[1] = k
        <5>1. first[p[2]].ino # 0 /\ p[2] \in Slot
          BY <2>10, <4>1, <4>3
        <5>2. p[2] = 1
          BY <1>1, <5>1
        <5>3. QED  BY <2>11, <4>1, <4>3, <5>2
      <4>4. QED  BY <2>7, <4>1, <4>2, <4>3
    <3>2. ASSUME NEW p \in Used(bl, node)
          PROVE  p \in Used(bl2, n)
      BY <2>7, <2>8, <2>9 DEF Used
    <3>3. p1 \in Used(bl2, n)
      BY <2>12 DEF Used
    <3>4. QED  BY <3>1, <3>2, <3>3
  <2>14. \A p \in Used(bl, node) : At(bl2, n, p) = At(bl, node, p)
    BY <2>9 DEF Used
  <2>15. QED  BY <2>11, <2>12, <2>13, <2>14 DEF Gains
<1>7. \/ n = node /\ (\A i \in Index : node.ptr[i] # 0)
      \/ \E k \in Index : HungAt(node, n, b, k)
  <2> DEFINE zeros == {i \in Index : node.ptr[i] = 0}
             S1 == {m \in {node} : zeros = {}}
             S2 == {[node EXCEPT !.ptr = [node.ptr EXCEPT ![i] = b], !.count = @ + 1] :
                      i \in {k \in zeros : \A l \in zeros : k <= l}}
  <2>1. n \in S1 \cup S2
    BY DEF Attach
  <2>2. CASE n \in S1
    BY <2>2
  <2>3. CASE n \in S2
    <3>1. PICK i \in zeros : /\ \A l \in zeros : i <= l
                             /\ n = [node EXCEPT !.ptr = [node.ptr EXCEPT ![i] = b], !.count = @ + 1]
      BY <2>3
    <3>2. n # node
      <4> DEFINE pt == [node.ptr EXCEPT ![i] = b]
                 c  == node.count + 1
      <4>1. n = [node EXCEPT !.ptr = pt, !.count = c]
        BY <3>1
      <4>2. c # node.count
        BY InodeFields
      <4> HIDE DEF pt, c
      <4>3. n.count = c
        BY <4>1 DEF Inode
      <4>4. QED  BY <4>2, <4>3
    <3>3. QED  BY <3>2, AttachOutcome
  <2>4. QED  BY <2>1, <2>2, <2>3
<1>8. QED  BY <1>5, <1>6, <1>7
\* What naive_add_entry does to the records of the directory and to blocks
\* that are not its own.
LEMMA AddEntryRecords ==
  ASSUME NEW node \in Inode, Packed(node), NEW name \in Names, NEW i \in Inos,
         NEW bm \in SUBSET Blocks, OwnsEach(node, bm), NEW bl \in BlockImages,
         NEW r \in AddEntry(node, name, i, bm, bl), r.ok \/ r.node.count = node.count
  PROVE  /\ \A b \in bm : (\A k \in Index : node.ptr[k] # b) => r.blk[b] = bl[b]
         /\ r.ok => \/ Gains(bl, node, r.blk, r.node, [ino |-> i, name |-> Stored[name]])
                    \/ NoRoom(bl, node) /\ SameUsed(bl, node, r.blk, r.node)
         /\ ~ r.ok => r.node = node /\ r.blk = bl
<1> DEFINE new == [ino |-> i, name |-> Stored[name]]
<1>1. new \in Record /\ new.ino # 0
  BY RecordType, AllocFacts
<1> HIDE DEF new
<1>2. CASE AddEntryFills(node, new, bm, bl, r)
  <2>1. PICK p \in FirstOf(FreePlaces(bl, node)) :
          r = [ok |-> TRUE, bmap |-> bm, node |-> node, blk |-> Put(bl, node, p, new)]
    BY <1>2 DEF AddEntryFills
  <2>2. p \in FreePlaces(bl, node) /\ p \in Places(node)
    BY DEF FirstOf, FreePlaces
  <2>3. Gains(bl, node, Put(bl, node, p, new), node, new)
    BY <1>1, <2>2, FillsRecords
  <2>4. \A b \in Blocks : (\A k \in Index : node.ptr[k] # b) => Put(bl, node, p, new)[b] = bl[b]
    BY <1>1, <2>2, PutPlace
  <2>5. r.ok = TRUE /\ r.node = node /\ r.blk = Put(bl, node, p, new)
    BY <2>1
  <2>6. QED  BY <2>3, <2>4, <2>5 DEF new
<1>3. CASE AddEntryFails(node, bm, bl, r)
  <2>1. r.ok = FALSE /\ r.node = node /\ r.blk = bl
    BY <1>3 DEF AddEntryFails
  <2>2. QED  BY <2>1
<1>4. CASE AddEntryGrows(node, new, bm, bl, r)
  <2>1. FreePlaces(bl, node) = {} /\ \E b \in AllocBlock(bm) : \E n \in Attach(node, b) :
          r = [ok |-> TRUE, bmap |-> bm \cup {b},
               node |-> MarkDirty([n EXCEPT !.size = @ + BlockSize]),
               blk |-> [bl EXCEPT ![b] = [ZeroBlock EXCEPT ![1] = new]]]
    BY <1>4 DEF AddEntryGrows
  <2>2. PICK b \in AllocBlock(bm) : \E n \in Attach(node, b) :
          r = [ok |-> TRUE, bmap |-> bm \cup {b},
               node |-> MarkDirty([n EXCEPT !.size = @ + BlockSize]),
               blk |-> [bl EXCEPT ![b] = [ZeroBlock EXCEPT ![1] = new]]]
    BY <2>1
  <2>3. PICK n \in Attach(node, b) :
          r = [ok |-> TRUE, bmap |-> bm \cup {b},
               node |-> MarkDirty([n EXCEPT !.size = @ + BlockSize]),
               blk |-> [bl EXCEPT ![b] = [ZeroBlock EXCEPT ![1] = new]]]
    BY <2>2
  <2>4. b \in Blocks \ bm
    BY AllocFacts
  <2>5. n \in Inode
    BY <2>4, AttachOutcome
  <2> DEFINE m == [n EXCEPT !.size = @ + BlockSize]
             bl2 == [bl EXCEPT ![b] = [ZeroBlock EXCEPT ![1] = new]]
  <2>6. n.size + BlockSize \in Nat
    BY <2>5, InodeFields, FSAssumption
  <2>7. m \in Inode /\ SamePointers(n, m)
    BY <2>5, <2>6, SetSize
  <2>8. r.ok = TRUE /\ r.node = MarkDirty(m) /\ r.blk = bl2
    BY <2>3
  <2> HIDE DEF m
  <2>9. SamePointers(n, r.node)
    BY <2>7, <2>8, MarkDirtyType DEF SamePointers
  <2>10. \A c \in bm : r.blk[c] = bl[c]
    BY <2>4, <2>8 DEF BlockImages
  <2>11. bl2 = [bl EXCEPT ![b] = [ZeroBlock EXCEPT ![1] = new]]
    OBVIOUS
  <2> HIDE DEF bl2
  <2>12. Gains(bl, node, bl2, n, new) \/ (NoRoom(bl, node) /\ SameUsed(bl, node, bl2, n))
    BY <1>1, <2>1, <2>4, <2>11, GrowsRecords
  <2>13. Used(bl2, r.node) = Used(bl2, n) /\ \A p : At(bl2, r.node, p) = At(bl2, n, p)
    BY <2>9, RecordsByPointers
  <2>14. Gains(bl, node, bl2, r.node, new) \/ (NoRoom(bl, node) /\ SameUsed(bl, node, bl2, r.node))
    BY <2>12, <2>13 DEF Gains, SameUsed
  <2>15. QED  BY <2>8, <2>10, <2>14 DEF new
<1>5. CASE AddEntryStops(node, bm, bl, r)
  <2>1. PICK b \in AllocBlock(bm) : \E n \in Attach(node, b) :
          r = [ok |-> FALSE, bmap |-> bm, node |-> n, blk |-> bl]
    BY <1>5 DEF AddEntryStops
  <2>2. PICK n \in Attach(node, b) : r = [ok |-> FALSE, bmap |-> bm, node |-> n, blk |-> bl]
    BY <2>1
  <2>3. b \in Blocks
    BY AllocFacts
  <2>4. r.ok = FALSE /\ r.node = n /\ r.blk = bl
    BY <2>2
  <2>5. n = node \/ \E k \in Index : HungAt(node, n, b, k)
    BY <2>3, AttachOutcome
  <2>6. ASSUME NEW k, HungAt(node, n, b, k) PROVE FALSE
    <3>1. n.count = node.count + 1 /\ node.count \in Nat
      BY <2>6, InodeFields DEF HungAt
    <3>2. n.count = node.count
      BY <2>4
    <3>3. QED  BY <3>1, <3>2
  <2>7. QED  BY <2>4, <2>5, <2>6
<1>6. QED  BY <1>2, <1>3, <1>4, <1>5, AddEntryCases DEF new

----------------------------------------------------------------------------
(* The kinds of step, with what happens to the records.                    *)

\* The records of object q's blocks stay.
RecordsKept(q) == SameUsed(blk, obj[q], blk', obj'[q])

\* No file's data becomes anything else.
FilesKept == \A q \in Objs : ~ obj[q].dir => \A i \in Index :
  obj[q].ptr[i] # 0 /\ blk[obj[q].ptr[i]] = FileBytes => blk'[obj[q].ptr[i]] = FileBytes

\* A directory's records are "." and "..".
OnlyDots(bl, node, i, parent) ==
  /\ Used(bl, node) = {<<1, 1>>, <<1, 2>>}
  /\ At(bl, node, <<1, 1>>) = [ino |-> i, name |-> Dot]
  /\ At(bl, node, <<1, 2>>) = [ino |-> parent, name |-> DotDot]

RecordsKeep == StepKeeps /\ \A q \in Objs : obj[q].dir => RecordsKept(q)

RecordsForget(o) == StepForgets(o) /\ \A q \in Objs \ {o} : RecordsKept(q)

RecordsAdd(d, name, o, i) ==
  /\ StepAdds(d, name, o, i)
  /\ \A q \in Objs \ {d, o} : RecordsKept(q)
  /\ \/ Gains(blk, obj[d], blk', obj'[d], [ino |-> i, name |-> Stored[name]])
     \/ NoRoom(blk, obj[d]) /\ RecordsKept(d)
  /\ obj'[o].dir => OnlyDots(blk', obj'[o], i, obj[d].ino)

RecordsRemove(e) ==
  /\ StepRemoves(e)
  /\ \A q \in Objs \ {e.par, e.child} : RecordsKept(q)
  /\ \E p \in Used(blk, obj[e.par]) :
       At(blk, obj[e.par], p).name = e.name /\ Loses(blk, obj[e.par], blk', obj'[e.par], p)
  /\ obj[e.child].dir =>
       \A p \in Used(blk, obj[e.child]) : At(blk, obj[e.child], p).name \in {Dot, DotDot}

\* What the records need to be known of blocks: no two inodes share one.
BlocksFit == TreeFits /\ Owns(obj, bmap)

\* The blocks of two objects differ.
LEMMA BlocksDiffer ==
  ASSUME BlocksFit, NEW q \in Objs
  PROVE  /\ OwnsEach(obj[q], bmap)
         /\ obj[q] \in Inode /\ Packed(obj[q])
         /\ \A i \in Index : obj[q].ptr[i] # 0 => obj[q].ptr[i] \in bmap /\ obj[q].ptr[i] \in Blocks
         /\ \A o \in Objs \ {q} : \A i, k \in Index : obj[q].ptr[i] # 0 => obj[o].ptr[k] # obj[q].ptr[i]
  BY InodeFields DEF BlocksFit, TreeFits, Good, WellFormed, Owns, OwnsEach

\* Where the blocks of a file stay or take file data, its data stays.
LEMMA FilesStay ==
  ASSUME \A q \in Objs : ~ obj[q].dir => SameBlocks(blk, obj[q], blk')
  PROVE  FilesKept
  BY DEF FilesKept, SameBlocks

\* open, close and truncate do not reach the blocks.
LEMMA OpenRecords ==
  ASSUME BlocksFit, NEW o \in Objs, Open(o) \/ Close(o)
  PROVE  (RecordsKeep \/ RecordsForget(o)) /\ FilesKept
<1>1. blk' = blk /\ obj \in [Objs -> Inode]
  BY DEF Open, Close, BlocksFit, TreeFits, Good, WellFormed
<1>2. \A q \in Objs : SameBlocks(blk, obj[q], blk')
  BY <1>1 DEF SameBlocks
<1>3. \A f : \A q \in Objs :
        SamePointers(obj[q], [obj EXCEPT ![o] = [obj[o] EXCEPT !.open = f]][q])
  BY <1>1 DEF SamePointers, Inode
<1>4. CASE Open(o)
  <2>1. \A q \in Objs : SamePointers(obj[q], obj'[q])
    BY <1>3, <1>4 DEF Open
  <2>2. dent' = dent
    BY <1>4 DEF Open
  <2>3. StepKeeps
    <3>1. obj' = [obj EXCEPT ![o] = [obj[o] EXCEPT !.open = TRUE]] /\ imap' = imap
      BY <1>4 DEF Open
    <3>2. \A q \in Objs : SameLinks(obj[q], obj'[q])
      BY <1>1, <3>1, LinksAside DEF SameLinks
    <3>3. QED  BY <2>2, <3>1, <3>2 DEF StepKeeps
  <2>4. QED  BY <1>2, <2>1, <2>3, RecordsStay, FilesStay DEF RecordsKeep, RecordsKept
<1>5. CASE Close(o)
  <2> DEFINE closed == [obj EXCEPT ![o] = [obj[o] EXCEPT !.open = FALSE]]
  <2>1. obj' = (IF Named(o) THEN closed ELSE Forget(closed, o)) /\ DOMAIN closed = Objs
    BY <1>1, <1>5 DEF Close
  <2>2. \A q \in Objs : SamePointers(obj[q], closed[q])
    BY <1>3
  <2> HIDE DEF closed
  <2>3. \A q \in Objs \ {o} : SamePointers(obj[q], obj'[q])
    BY <2>1, <2>2 DEF Forget
  <2>4. \A q \in Objs \ {o} : RecordsKept(q)
    BY <1>2, <2>3, RecordsStay DEF RecordsKept
  <2>5. CASE StepForgets(o)
    BY <1>2, <2>4, <2>5, FilesStay DEF RecordsForget
  <2>6. CASE StepKeeps
    <3>1. CASE obj' = closed
      BY <1>2, <2>2, <2>6, <3>1, RecordsStay, FilesStay DEF RecordsKeep, RecordsKept
    <3>2. CASE obj' # closed
      <4>1. obj' = [closed EXCEPT ![o] = NoInode]
        BY <2>1, <3>2 DEF Forget
      <4>2. ~ obj[o].dir
        BY <2>1, <2>6, <4>1 DEF StepKeeps, SameLinks, NoInode, NewInode
      <4>3. QED  BY <1>2, <2>4, <2>6, <4>2, FilesStay DEF RecordsKeep
    <3>3. QED  BY <3>1, <3>2
  <2>7. QED  BY <1>5, <2>5, <2>6, OpenKind DEF BlocksFit, TreeFits
<1>6. QED  BY <1>4, <1>5

\* The same for truncate.
LEMMA TruncateRecords ==
  ASSUME BlocksFit, NEW o \in Objs, NEW s \in TruncSizes, Truncate(o, s)
  PROVE  RecordsKeep /\ FilesKept
<1> DEFINE m == [obj[o] EXCEPT !.size = s]
<1>1. s \in Nat
  BY FSAssumption
<1>2. obj \in [Objs -> Inode] /\ obj[o] \in Inode
  BY DEF BlocksFit, TreeFits, Good, WellFormed
<1>3. m \in Inode /\ SamePointers(obj[o], m)
  BY <1>1, <1>2, SetSize
<1>4. obj' = [obj EXCEPT ![o] = MarkDirty(m)] /\ blk' = blk
  BY DEF Truncate
<1> HIDE DEF m
<1>5. SamePointers(m, MarkDirty(m))
  BY <1>3, MarkDirtyType
<1>6. \A q \in Objs : SamePointers(obj[q], obj'[q]) /\ SameBlocks(blk, obj[q], blk')
  BY <1>2, <1>3, <1>4, <1>5 DEF SamePointers, SameBlocks
<1>7. StepKeeps
  BY TruncateKind DEF BlocksFit, TreeFits
<1>8. QED  BY <1>6, <1>7, RecordsStay, FilesStay DEF RecordsKeep, RecordsKept
\* write turns blocks of its own file, and blocks that were free, into data.
LEMMA FileWriteRecords ==
  ASSUME BlocksFit, NEW o \in Objs, NEW pos \in 0 .. MaxFileSize, NEW len \in WriteLens,
         FileWrite(o, pos, len)
  PROVE  RecordsKeep /\ FilesKept
<1> DEFINE end == pos + len
           got == Got(obj[o], bmap, end)
<1>1. Good /\ end \in Nat
  BY FileWriteOutcome DEF BlocksFit, TreeFits
<1>2. /\ obj \in [Objs -> Inode] /\ obj[o] \in Inode /\ Packed(obj[o]) /\ ~ obj[o].dir
      /\ blk \in BlockImages
  BY <1>1 DEF Good, WellFormed, FileWrite
<1>3. PICK f \in LowestFree(bmap, got) :
        LET node == Extend(obj[o], got, f) IN
           \/ blk' = blk
           \/ \E stop \in StopsAt(node, pos, end) :
                blk' = [b \in Blocks |-> IF b \in Written(node, pos, stop)
                                         THEN FileBytes ELSE blk[b]]
  BY DEF FileWrite, Got
<1> DEFINE node == Extend(obj[o], got, f)
<1>4. got \in 0 .. (BlockPerFile - obj[o].count) /\ got \in Nat
  BY <1>1, <1>2, GotInRange
<1>5. f \in [1 .. got -> Blocks] /\ \A i \in 1 .. got : f[i] \in Blocks \ bmap
  <2> HIDE DEF got
  <2>1. QED  BY <1>4, LowestFreeBlocks
<1>6. node.ptr = [i \in Index |-> IF i > obj[o].count /\ i <= obj[o].count + got
                                  THEN f[i - obj[o].count] ELSE obj[o].ptr[i]]
  <2> HIDE DEF got
  <2>1. QED  BY <1>2, <1>4, <1>5, ExtendType
<1> HIDE DEF node, got
<1>7. \A i \in Index : node.ptr[i] = obj[o].ptr[i] \/ node.ptr[i] \notin bmap
  <2> TAKE i \in Index
  <2>1. CASE i > obj[o].count /\ i <= obj[o].count + got
    <3>1. i - obj[o].count \in 1 .. got
      BY <1>2, <1>4, <2>1, InodeFields DEF Index
    <3>2. QED  BY <1>5, <1>6, <2>1, <3>1
  <2>2. CASE ~ (i > obj[o].count /\ i <= obj[o].count + got)
    BY <1>6, <2>2
  <2>3. QED  BY <2>1, <2>2
<1>8. \/ blk' = blk
      \/ \E W \in SUBSET {node.ptr[i] : i \in Index} :
           blk' = [b \in Blocks |-> IF b \in W THEN FileBytes ELSE blk[b]]
  <2>1. CASE blk' = blk
    BY <2>1
  <2>2. CASE \E stop \in StopsAt(node, pos, end) :
                blk' = [b \in Blocks |-> IF b \in Written(node, pos, stop)
                                         THEN FileBytes ELSE blk[b]]
    <3>1. PICK stop \in StopsAt(node, pos, end) :
                blk' = [b \in Blocks |-> IF b \in Written(node, pos, stop)
                                         THEN FileBytes ELSE blk[b]]
      BY <2>2
    <3> DEFINE W == Written(node, pos, stop)
    <3>2. W \in SUBSET {node.ptr[i] : i \in Index}
      BY DEF Written
    <3>3. blk' = [b \in Blocks |-> IF b \in W THEN FileBytes ELSE blk[b]]
      BY <3>1
    <3> HIDE DEF W
    <3>4. QED  BY <3>2, <3>3
  <2>3. QED  BY <1>3, <2>1, <2>2 DEF node
<1>9. /\ \A q \in Objs \ {o} : SameBlocks(blk, obj[q], blk')
      /\ \A b \in Blocks : blk[b] = FileBytes => blk'[b] = FileBytes
  <2>1. CASE blk' = blk
    BY <2>1 DEF SameBlocks
  <2>2. CASE \E W \in SUBSET {node.ptr[i] : i \in Index} :
           blk' = [b \in Blocks |-> IF b \in W THEN FileBytes ELSE blk[b]]
    <3>1. PICK W \in SUBSET {node.ptr[i] : i \in Index} :
           blk' = [b \in Blocks |-> IF b \in W THEN FileBytes ELSE blk[b]]
      BY <2>2
    <3>2. ASSUME NEW q \in Objs \ {o}, NEW i \in Index, obj[q].ptr[i] # 0
          PROVE  obj[q].ptr[i] \in Blocks /\ obj[q].ptr[i] \notin W
      <4>1. obj[q].ptr[i] \in bmap /\ obj[q].ptr[i] \in Blocks /\ \A k \in Index : obj[o].ptr[k] # obj[q].ptr[i]
        BY <3>2, BlocksDiffer
      <4>2. \A k \in Index : node.ptr[k] # obj[q].ptr[i]
        BY <1>7, <4>1
      <4>3. QED  BY <4>1, <4>2
    <3>3. \A q \in Objs \ {o} : SameBlocks(blk, obj[q], blk')
      BY <3>1, <3>2 DEF SameBlocks
    <3>4. QED  BY <3>1, <3>3
  <2>3. QED  BY <1>8, <2>1, <2>2
<1>10. \A q \in Objs \ {o} : SamePointers(obj[q], obj'[q])
  <2>1. PICK g \in LowestFree(bmap, got) : \E n \in Inode : WriteStep(o, end, g, n)
    BY <1>1, FileWriteOutcome DEF got
  <2>2. PICK n \in Inode : obj' = [obj EXCEPT ![o] = n]
    BY <2>1 DEF WriteStep
  <2>3. QED  BY <1>2, <2>2 DEF SamePointers
<1>11. RecordsKeep
  <2>1. StepKeeps
    BY <1>1, FileWriteKind
  <2>2. \A q \in Objs \ {o} : RecordsKept(q)
    BY <1>9, <1>10, RecordsStay DEF RecordsKept
  <2>3. QED  BY <1>2, <2>1, <2>2 DEF RecordsKeep
<1>12. FilesKept
  BY <1>9, BlocksDiffer DEF FilesKept
<1>13. QED  BY <1>11, <1>12

\* create writes in the parent's blocks or in a free one.
LEMMA CreateRecords ==
  ASSUME ~ HalfAdded, BlocksFit,
         NEW d \in Objs, NEW name \in Names, NEW o \in Objs, Create(d, name, o)
  PROVE  (RecordsKeep \/ \E i : RecordsAdd(d, name, o, i)) /\ FilesKept
<1>1. PICK i \in FindFreeInode(imap) :
        \E r \in AddEntry(obj[d], name, i, bmap, blk) :
             /\ blk' = r.blk
             /\ IF r.ok
                THEN /\ obj' = [obj EXCEPT ![d] = r.node, ![o] = NewInode(i, FALSE, 1)]
                     /\ dent' = dent \cup {[par |-> d, name |-> name, child |-> o]}
                ELSE /\ obj' = [obj EXCEPT ![d] = r.node]
                     /\ dent' = dent
  BY DEF Create
<1>2. PICK r \in AddEntry(obj[d], name, i, bmap, blk) :
             /\ blk' = r.blk
             /\ IF r.ok
                THEN /\ obj' = [obj EXCEPT ![d] = r.node, ![o] = NewInode(i, FALSE, 1)]
                     /\ dent' = dent \cup {[par |-> d, name |-> name, child |-> o]}
                ELSE /\ obj' = [obj EXCEPT ![d] = r.node]
                     /\ dent' = dent
  BY <1>1
<1>3. /\ i \in Inos /\ obj \in [Objs -> Inode] /\ bmap \in SUBSET Blocks /\ blk \in BlockImages
      /\ TreeFits
  BY AllocFacts DEF BlocksFit, TreeFits, Good, WellFormed
<1>4. /\ obj[d] \in Inode /\ Packed(obj[d]) /\ OwnsEach(obj[d], bmap)
  BY BlocksDiffer
<1>5. /\ \A b \in bmap : (\A k \in Index : obj[d].ptr[k] # b) => r.blk[b] = blk[b]
      /\ r.ok => \/ Gains(blk, obj[d], r.blk, r.node, [ino |-> i, name |-> Stored[name]])
                 \/ NoRoom(blk, obj[d]) /\ SameUsed(blk, obj[d], r.blk, r.node)
      /\ ~ r.ok => r.node = obj[d] /\ r.blk = blk
  <2>1. obj[d].dir /\ (~ r.ok => dent' = dent /\ obj'[d] = r.node)
    BY <1>2, <1>3 DEF Create, MayCreate
  <2>2. SamePointers(obj[d], r.node) \/ \E b, k : HungAt(obj[d], r.node, b, k)
    BY <1>3, <1>4, AddEntryHangs
  <2>3. r.ok \/ r.node.count = obj[d].count
    BY <1>4, <2>1, <2>2, WholeAdd
  <2>4. QED  BY <1>3, <1>4, <2>3, AddEntryRecords
<1>6. \A q \in Objs \ {d} : SameBlocks(blk, obj[q], blk')
  BY <1>2, <1>5, BlocksDiffer DEF SameBlocks
<1>7. obj[d].dir /\ obj[d].nlink > 0 /\ obj[o].ino = 0
  BY DEF Create, MayCreate
<1>8. d # o
  BY <1>3, <1>7, UnusedIsOther
<1>9. FilesKept
  BY <1>6, <1>7 DEF FilesKept, SameBlocks
<1>10. \A q \in Objs \ {d, o} : RecordsKept(q)
  <2>1. \A q \in Objs \ {d, o} : obj'[q] = obj[q]
    BY <1>2, <1>3
  <2>2. QED  BY <1>6, <2>1, RecordsStay DEF SamePointers, RecordsKept
<1>12. CASE r.ok
  <2> DEFINE n == NewInode(i, FALSE, 1)
             new == [par |-> d, name |-> name, child |-> o]
  <2>1. n.ino = i /\ n.dir = FALSE
    BY DEF NewInode
  <2>2. obj' = [obj EXCEPT ![d] = r.node, ![o] = n] /\ dent' = dent \cup {new} /\ new.child = o
    BY <1>2, <1>12
  <2> HIDE DEF n, new
  <2>3. obj'[o] = n /\ obj'[d] = r.node
    BY <1>3, <1>8, <2>2
  <2>4. new \notin dent
    BY <1>3, <1>7, <2>2 DEF TreeFits, NamesFit
  <2>5. ~ StepKeeps
    BY <2>2, <2>4 DEF StepKeeps
  <2>6. PICK j : StepAdds(d, name, o, j) /\ obj'[o].dir = FALSE
    BY <1>3, <2>5, CreateKind
  <2>7. j = i
    BY <2>1, <2>3, <2>6 DEF StepAdds
  <2>8. \/ Gains(blk, obj[d], blk', obj'[d], [ino |-> i, name |-> Stored[name]])
        \/ NoRoom(blk, obj[d]) /\ RecordsKept(d)
    BY <1>2, <1>5, <1>12, <2>3 DEF RecordsKept
  <2>9. RecordsAdd(d, name, o, i)
    BY <1>10, <2>6, <2>7, <2>8 DEF RecordsAdd
  <2>10. QED  BY <1>9, <2>9
<1>13. CASE ~ r.ok
  <2>1. obj' = [obj EXCEPT ![d] = r.node] /\ dent' = dent
    BY <1>2, <1>13
  <2>2. obj' = obj /\ blk' = blk
    BY <1>2, <1>3, <1>5, <1>13, <2>1
  <2>3. \A q \in Objs : RecordsKept(q)
    BY <2>2 DEF RecordsKept, SameUsed
  <2>4. StepKeeps
    BY <2>1, <2>2 DEF StepKeeps, SameLinks, Create
  <2>5. QED  BY <1>9, <2>3, <2>4 DEF RecordsKeep
<1>14. QED  BY <1>12, <1>13
\* The block mkdir fills is read as "." and ".." and nothing else.
LEMMA DotsAreRead ==
  ASSUME NEW bl, NEW i \in Inos, NEW parent \in Inos, NEW b \in Blocks, bl[b] = DotBlock(i, parent)
  PROVE  OnlyDots(bl, DirNode(i, b), i, parent)
<1> DEFINE node == DirNode(i, b)
<1>1. /\ node.count = 1 /\ node.ptr = [k \in Index |-> IF k = 1 THEN b ELSE 0]
  BY DirNodeType
<1>2. b # 0 /\ i # 0 /\ parent # 0 /\ 1 \in Index /\ 1 \in Slot /\ 2 \in Slot /\ Slot \subseteq Nat /\ Index \subseteq Nat
  BY AllocFacts, FSAssumption DEF Index, Slot
<1>3. DotBlock(i, parent) \in [Slot -> Record]
  BY DotBlockType
<1>4. RecordsIn(bl, b) = DotBlock(i, parent)
  BY <1>3, TagAssumption DEF RecordsIn
<1>5. /\ DotBlock(i, parent)[1] = [ino |-> i, name |-> Dot]
      /\ DotBlock(i, parent)[2] = [ino |-> parent, name |-> DotDot]
      /\ \A j \in Slot \ {1, 2} : DotBlock(i, parent)[j].ino = 0
  BY <1>2 DEF DotBlock, ZeroBlock, EmptyRecord
<1> HIDE DEF node
<1>6. \A p \in Index \X Slot : p \in Places(node) <=> p[1] = 1
  BY <1>1, <1>2 DEF Places, Index
<1>7. \A p \in Index \X Slot : p[1] = 1 => At(bl, node, p) = DotBlock(i, parent)[p[2]] /\ p[2] \in Slot
  BY <1>1, <1>2, <1>4 DEF At
<1>8. \A p \in Index \X Slot : /\ p[1] = 1 /\ p[2] = 1 => p = <<1, 1>>
                               /\ p[1] = 1 /\ p[2] = 2 => p = <<1, 2>>
  OBVIOUS
<1>9. <<1, 1>> \in Index \X Slot /\ <<1, 2>> \in Index \X Slot
  BY <1>2
<1>10. At(bl, node, <<1, 1>>) = [ino |-> i, name |-> Dot] /\ At(bl, node, <<1, 2>>) = [ino |-> parent, name |-> DotDot]
  BY <1>5, <1>7, <1>9
<1>11. Used(bl, node) = {<<1, 1>>, <<1, 2>>}
  <2>1. ASSUME NEW p \in Used(bl, node) PROVE p \in {<<1, 1>>, <<1, 2>>}
    <3>1. p \in Index \X Slot /\ p \in Places(node) /\ At(bl, node, p).ino # 0
      BY DEF Used, Places
    <3>2. p[1] = 1 /\ p[2] \in Slot /\ DotBlock(i, parent)[p[2]].ino # 0
      BY <1>6, <1>7, <3>1
    <3>3. p[2] \in {1, 2}
      BY <1>5, <3>2
    <3>4. QED  BY <1>8, <3>1, <3>2, <3>3
  <2>2. <<1, 1>> \in Used(bl, node) /\ <<1, 2>> \in Used(bl, node)
    BY <1>2, <1>6, <1>9, <1>10 DEF Used
  <2>3. QED  BY <2>1, <2>2
<1>12. QED  BY <1>10, <1>11 DEF OnlyDots, node

\* A directory whose used records stay has the room it had.
LEMMA RoomStays ==
  ASSUME NEW bl, NEW node, NEW bl2, SameUsed(bl, node, bl2, node)
  PROVE  NoRoom(bl2, node) <=> NoRoom(bl, node)
<1>1. \A b : FreePlaces(b, node) = Places(node) \ Used(b, node)
  BY DEF FreePlaces, Used
<1>2. QED  BY <1>1 DEF SameUsed, NoRoom

\* mkdir writes in a free block, then as create does.
LEMMA MkdirRecords ==
  ASSUME ~ HalfAdded, BlocksFit,
         NEW d \in Objs, NEW name \in Names, NEW o \in Objs, Mkdir(d, name, o)
  PROVE  (RecordsKeep \/ \E i : RecordsAdd(d, name, o, i)) /\ FilesKept
<1> DEFINE filled(i, b) == [blk EXCEPT ![b] = DotBlock(i, obj[d].ino)]
           Add(i, b, r) ==
             /\ blk' = r.blk
             /\ IF r.ok
                THEN /\ obj' = [obj EXCEPT ![d] = MarkDirty([r.node EXCEPT !.nlink = @ + 1]),
                                           ![o] = DirNode(i, b)]
                     /\ dent' = dent \cup {[par |-> d, name |-> name, child |-> o]}
                ELSE /\ obj' = [obj EXCEPT ![d] = r.node]
                     /\ dent' = dent
<1>1. PICK i \in FindFreeInode(imap) : \E b \in AllocBlock(bmap) :
        /\ imap' = imap \cup {i}
        /\ \E r \in AddEntry(obj[d], name, i, bmap \cup {b}, filled(i, b)) : Add(i, b, r)
  BY DEF Mkdir, DirNode
<1>2. PICK b \in AllocBlock(bmap) :
        /\ imap' = imap \cup {i}
        /\ \E r \in AddEntry(obj[d], name, i, bmap \cup {b}, filled(i, b)) : Add(i, b, r)
  BY <1>1
<1>3. PICK r \in AddEntry(obj[d], name, i, bmap \cup {b}, filled(i, b)) : Add(i, b, r)
  BY <1>2
<1> DEFINE bm1 == bmap \cup {b}
           bl1 == filled(i, b)
           new == [ino |-> i, name |-> Stored[name]]
<1>4. /\ i \in Inos /\ b \in Blocks \ bmap /\ obj \in [Objs -> Inode] /\ obj[d] \in Inode /\ Packed(obj[d])
      /\ bm1 \in SUBSET Blocks /\ TreeFits /\ blk \in BlockImages
  BY AllocFacts DEF BlocksFit, TreeFits, Good, WellFormed
<1>5. /\ obj[d].dir /\ obj[d].nlink > 0 /\ obj[o].ino = 0
      /\ \A e \in dent : ~ (e.par = d /\ e.name = name)
  BY DEF Mkdir, MayCreate
<1>6. obj[d].ino \in Inos
  BY <1>4, <1>5, InodeFields DEF TreeFits, NamesFit
<1>7. DotBlock(i, obj[d].ino) \in [Slot -> Record]
  BY <1>4, <1>6, DotBlockType
<1>8. bl1 \in BlockImages /\ bl1[b] = DotBlock(i, obj[d].ino) /\ \A c \in Blocks \ {b} : bl1[c] = blk[c]
  BY <1>4, <1>7 DEF BlockImages
<1> HIDE DEF filled
<1>9. \A q \in Objs : SameBlocks(blk, obj[q], bl1)
  BY <1>4, <1>8, BlocksDiffer DEF SameBlocks
<1>10. OwnsEach(obj[d], bm1)
  BY BlocksDiffer DEF OwnsEach
<1> HIDE DEF bm1, bl1
<1>11. /\ \A c \in bm1 : (\A k \in Index : obj[d].ptr[k] # c) => r.blk[c] = bl1[c]
       /\ r.ok => \/ Gains(bl1, obj[d], r.blk, r.node, new)
                  \/ NoRoom(bl1, obj[d]) /\ SameUsed(bl1, obj[d], r.blk, r.node)
       /\ ~ r.ok => r.node = obj[d] /\ r.blk = bl1
  <2>1. obj[d].dir /\ (~ r.ok => dent' = dent /\ obj'[d] = r.node)
    BY <1>3, <1>4, <1>5
  <2>2. r \in AddEntry(obj[d], name, i, bm1, bl1)
    BY DEF bm1, bl1
  <2>3. SamePointers(obj[d], r.node) \/ \E c, k : HungAt(obj[d], r.node, c, k)
    BY <1>4, <1>8, <2>2, AddEntryHangs
  <2>4. r.ok \/ r.node.count = obj[d].count
    BY <1>4, <2>1, <2>3, WholeAdd
  <2>5. QED  BY <1>4, <1>8, <1>10, <2>2, <2>4, AddEntryRecords
<1>12. r.blk[b] = DotBlock(i, obj[d].ino)
  BY <1>4, <1>8, <1>11, BlocksDiffer, AllocFacts DEF bm1
<1>13. \A q \in Objs \ {d} : SameBlocks(blk, obj[q], r.blk)
  <2> TAKE q \in Objs \ {d}
  <2>1. \A k \in Index : obj[q].ptr[k] # 0 => obj[q].ptr[k] \in bm1 /\ \A l \in Index : obj[d].ptr[l] # obj[q].ptr[k]
    BY BlocksDiffer DEF bm1
  <2>2. \A k \in Index : obj[q].ptr[k] # 0 => r.blk[obj[q].ptr[k]] = bl1[obj[q].ptr[k]]
    BY <1>11, <2>1
  <2>3. QED  BY <1>9, <2>2 DEF SameBlocks
<1>14. SameUsed(blk, obj[d], bl1, obj[d])
  BY <1>9, RecordsStay DEF SamePointers
<1>15. blk' = r.blk /\ FilesKept
  BY <1>3, <1>5, <1>13 DEF FilesKept, SameBlocks
<1>17. d # o
  BY <1>4, <1>5, UnusedIsOther
<1>18. CASE r.ok
  <2> DEFINE n1  == [r.node EXCEPT !.nlink = @ + 1]
             n2  == MarkDirty(n1)
             n   == DirNode(i, b)
             ent == [par |-> d, name |-> name, child |-> o]
  <2>1. r.node \in Inode /\ r.node.nlink + 1 \in Nat
    <3>1. r \in AddEntry(obj[d], name, i, bm1, bl1)
      BY DEF bm1, bl1
    <3>2. r.node \in Inode
      BY <1>4, <1>8, <3>1, AddEntryOutcome
    <3>3. QED  BY <3>2, InodeFields
  <2>2. n1 \in Inode /\ SamePointers(r.node, n1)
    BY <2>1, SetLinks
  <2>3. SamePointers(r.node, n2)
    BY <2>2, MarkDirtyType DEF SamePointers
  <2>4. obj' = [obj EXCEPT ![d] = n2, ![o] = n] /\ dent' = dent \cup {ent} /\ ent.child = o
    BY <1>3, <1>18
  <2>5. n.ino = i /\ n.dir = TRUE
    BY DEF DirNode, NewInode
  <2>6. OnlyDots(r.blk, n, i, obj[d].ino)
    BY <1>4, <1>6, <1>12, DotsAreRead
  <2> HIDE DEF n, n2, ent
  <2>7. obj'[o] = n /\ obj'[d] = n2 /\ \A q \in Objs \ {d, o} : obj'[q] = obj[q]
    BY <1>4, <1>17, <2>4
  <2>8. ent \notin dent
    BY <1>4, <1>5, <2>4 DEF TreeFits, NamesFit
  <2>9. ~ StepKeeps
    BY <2>4, <2>8 DEF StepKeeps
  <2>10. PICK j : StepAdds(d, name, o, j) /\ obj'[o].dir = TRUE
    BY <1>4, <2>9, MkdirKind
  <2>11. j = i
    BY <2>5, <2>7, <2>10 DEF StepAdds
  <2>12. Used(r.blk, n2) = Used(r.blk, r.node) /\ \A p : At(r.blk, n2, p) = At(r.blk, r.node, p)
    BY <2>3, RecordsByPointers
  <2>13. \/ Gains(blk, obj[d], blk', obj'[d], new)
         \/ NoRoom(blk, obj[d]) /\ RecordsKept(d)
    <3>1. CASE Gains(bl1, obj[d], r.blk, r.node, new)
      <4>1. Gains(blk, obj[d], r.blk, n2, new)
        BY <1>14, <2>12, <3>1 DEF Gains, SameUsed
      <4>2. QED  BY <1>15, <2>7, <4>1
    <3>2. CASE NoRoom(bl1, obj[d]) /\ SameUsed(bl1, obj[d], r.blk, r.node)
      <4>1. NoRoom(blk, obj[d])
        BY <1>14, <3>2, RoomStays
      <4>2. SameUsed(blk, obj[d], r.blk, n2)
        BY <1>14, <2>12, <3>2 DEF SameUsed
      <4>3. QED  BY <1>15, <2>7, <4>1, <4>2 DEF RecordsKept
    <3>3. QED  BY <1>11, <1>18, <3>1, <3>2
  <2>14. \A q \in Objs \ {d, o} : RecordsKept(q)
    BY <1>13, <1>15, <2>7, RecordsStay DEF SamePointers, RecordsKept
  <2>15. RecordsAdd(d, name, o, i)
    BY <1>15, <2>6, <2>7, <2>10, <2>11, <2>13, <2>14 DEF RecordsAdd, new
  <2>16. QED  BY <1>15, <2>15
<1>19. CASE ~ r.ok
  <2>1. obj' = [obj EXCEPT ![d] = r.node] /\ dent' = dent
    BY <1>3, <1>19
  <2>2. obj' = obj /\ blk' = bl1
    BY <1>4, <1>11, <1>15, <1>19, <2>1
  <2>3. \A q \in Objs : RecordsKept(q)
    BY <1>9, <2>2, RecordsStay DEF SamePointers, RecordsKept
  <2>4. StepKeeps
    BY <1>2, <2>1, <2>2 DEF StepKeeps, SameLinks
  <2>5. QED  BY <1>15, <2>3, <2>4 DEF RecordsKeep
<1>20. QED  BY <1>18, <1>19

\* The record unlink and rmdir clear is the one of that name.
LEMMA RemoveRecords ==
  ASSUME BlocksFit, NEW e \in dent, StepRemoves(e), NEW parent \in Inode,
         SamePointers(obj[e.par], parent),
         NEW p \in FirstOf(Matches(blk, obj[e.par], e.name)), Remove(e, p, parent),
         obj[e.child].dir => IsEmptyDir(obj[e.child])
  PROVE  RecordsRemove(e) /\ FilesKept
<1> DEFINE c == e.child
           d == e.par
           bl2 == Put(blk, obj[d], p, EmptyRecord)
<1>1. /\ c \in Objs /\ d \in Objs /\ c # d /\ obj \in [Objs -> Inode] /\ blk \in BlockImages /\ obj[d].dir
  BY DEF BlocksFit, TreeFits, NamesFit, Good, WellFormed, Dentry
<1>2. OwnsEach(obj[d], bmap) /\ obj[d] \in Inode
  BY <1>1, BlocksDiffer
<1>3. p \in Places(obj[d]) /\ p \in Used(blk, obj[d]) /\ At(blk, obj[d], p).name = e.name
  BY DEF FirstOf, Matches, Used
<1>4. blk' = bl2
  BY DEF Remove, ClearRecord
<1>5. /\ At(bl2, obj[d], p) = EmptyRecord
      /\ \A q \in Places(obj[d]) \ {p} : At(bl2, obj[d], q) = At(blk, obj[d], q)
      /\ \A b \in Blocks : (\A k \in Index : obj[d].ptr[k] # b) => bl2[b] = blk[b]
  BY <1>1, <1>2, <1>3, PutPlace, ZeroBlockType
<1> HIDE DEF bl2
<1>6. \A q \in Objs \ {d} : SameBlocks(blk, obj[q], blk')
  BY <1>1, <1>4, <1>5, BlocksDiffer DEF SameBlocks
<1>7. obj'[d] = parent /\ \A q \in Objs \ {c, d} : obj'[q] = obj[q]
  <2> DEFINE rel == [[obj EXCEPT ![d] = parent] EXCEPT ![c] = Released(@)]
  <2>1. obj' = Forget(rel, c)
    BY DEF Remove
  <2>2. DOMAIN rel = Objs /\ rel[d] = parent /\ \A q \in Objs \ {c, d} : rel[q] = obj[q]
    BY <1>1
  <2> HIDE DEF rel
  <2>3. QED  BY <1>1, <2>1, <2>2 DEF Forget
<1>8. Loses(blk, obj[d], blk', obj'[d], p)
  <2>1. Used(blk', parent) = Used(blk', obj[d]) /\ \A q : At(blk', parent, q) = At(blk', obj[d], q)
    BY RecordsByPointers
  <2>2. Used(blk', obj[d]) = Used(blk, obj[d]) \ {p}
    BY <1>4, <1>5 DEF Used, EmptyRecord
  <2>3. \A q \in Used(blk, obj[d]) \ {p} : At(blk', obj[d], q) = At(blk, obj[d], q)
    BY <1>4, <1>5 DEF Used
  <2>4. QED  BY <1>7, <2>1, <2>2, <2>3 DEF Loses
<1>9. \A q \in Objs \ {c, d} : RecordsKept(q)
  BY <1>6, <1>7, RecordsStay DEF SamePointers, RecordsKept
<1>10. obj[c].dir => \A q \in Used(blk, obj[c]) : At(blk, obj[c], q).name \in {Dot, DotDot}
  BY DEF IsEmptyDir, Used
<1>11. FilesKept
  BY <1>1, <1>6 DEF FilesKept, SameBlocks
<1>12. QED  BY <1>3, <1>8, <1>9, <1>10, <1>11 DEF RecordsRemove

\* unlink and rmdir.
LEMMA UnlinkRecords ==
  ASSUME BlocksFit, NEW e \in dent, Unlink(e) \/ Rmdir(e)
  PROVE  RecordsRemove(e) /\ FilesKept
<1>1. e.par \in Objs /\ obj[e.par] \in Inode /\ TreeFits
  BY DEF BlocksFit, TreeFits, Good, Dentry, WellFormed
<1>2. StepRemoves(e)
  BY <1>1, UnlinkKind
<1>3. CASE Unlink(e)
  <2>1. PICK p \in FirstOf(Matches(blk, obj[e.par], e.name)) : Remove(e, p, obj[e.par])
    BY <1>3 DEF Unlink
  <2>2. ~ obj[e.child].dir /\ SamePointers(obj[e.par], obj[e.par])
    BY <1>3 DEF Unlink, SamePointers
  <2>3. QED  BY <1>1, <1>2, <2>1, <2>2, RemoveRecords
<1>4. CASE Rmdir(e)
  <2> DEFINE n1 == [obj[e.par] EXCEPT !.nlink = Pred(@)]
  <2>1. Pred(obj[e.par].nlink) \in Nat
    BY <1>1, InodeFields DEF Pred
  <2>2. n1 \in Inode /\ SamePointers(obj[e.par], n1)
    BY <1>1, <2>1, SetLinks
  <2>3. PICK p \in FirstOf(Matches(blk, obj[e.par], e.name)) : Remove(e, p, MarkDirty(n1))
    BY <1>4 DEF Rmdir
  <2> HIDE DEF n1
  <2>4. MarkDirty(n1) \in Inode /\ SamePointers(obj[e.par], MarkDirty(n1))
    BY <2>2, MarkDirtyType DEF SamePointers
  <2>5. IsEmptyDir(obj[e.child])
    BY <1>4 DEF Rmdir
  <2>6. QED  BY <1>2, <2>3, <2>4, <2>5, RemoveRecords
<1>5. QED  BY <1>3, <1>4

\* Every step is of one of the four kinds, and no file's data is overwritten.
LEMMA NextRecords ==
  ASSUME ~ HalfAdded, BlocksFit, [Next]_vars
  PROVE  /\ \/ RecordsKeep
            \/ \E o \in Objs : RecordsForget(o)
            \/ \E d, o \in Objs, name \in Names : \E i : RecordsAdd(d, name, o, i)
            \/ \E e \in dent : RecordsRemove(e)
         /\ FilesKept
<1>1. CASE \E d \in Objs, o \in Objs, n \in Names : Create(d, n, o) \/ Mkdir(d, n, o)
  <2>1. PICK d \in Objs, o \in Objs, n \in Names : Create(d, n, o) \/ Mkdir(d, n, o)
    BY <1>1
  <2>2. (RecordsKeep \/ \E i : RecordsAdd(d, n, o, i)) /\ FilesKept
    BY <2>1, CreateRecords, MkdirRecords
  <2>3. QED  BY <2>2
<1>2. CASE \E e \in dent : Unlink(e) \/ Rmdir(e)
  BY <1>2, UnlinkRecords
<1>3. CASE \E o \in Objs : Open(o) \/ Close(o)
  BY <1>3, OpenRecords
<1>4. CASE \E o \in Objs, pos \in 0 .. MaxFileSize, len \in WriteLens : FileWrite(o, pos, len)
  BY <1>4, FileWriteRecords
<1>5. CASE \E o \in Objs, s \in TruncSizes : Truncate(o, s)
  BY <1>5, TruncateRecords
<1>6. CASE UNCHANGED vars
  BY <1>6 DEF vars, StepKeeps, SameLinks, RecordsKeep, RecordsKept, SameUsed, FilesKept
<1>7. QED  BY <1>1, <1>2, <1>3, <1>4, <1>5, <1>6 DEF Next

----------------------------------------------------------------------------
(* What follows for single steps.                                          *)

\* The steps the theorems are about: no block is half added.
WholeNext == [Next]_vars /\ [~ HalfAdded]_vars

LEMMA WholeIsNotHalf == ASSUME BlocksFit, WholeNext PROVE [Next]_vars /\ ~ HalfAdded
  BY NotHalf DEF BlocksFit, TreeFits, WholeNext

\* In them, blocks stay one inode's each.
LEMMA BlocksFitHolds == (Init => BlocksFit) /\ (BlocksFit /\ WholeNext => BlocksFit')
<1>1. Init => BlocksFit
  BY InitTreeFits, InitOwns DEF BlocksFit
<1>2. BlocksFit /\ WholeNext => BlocksFit'
  BY WholeIsNotHalf, NextTreeFits, NextOwns DEF BlocksFit, TreeFits
<1>3. QED  BY <1>1, <1>2

\* As long as no block is half added, no step turns data that a file goes on
\* holding into anything else: not a directory's new record, not the "." and
\* ".." of a new directory, not a write to another file.
THEOREM FileDataStays == Spec /\ [][~ HalfAdded]_vars => FileBlocksStay
<1>1. ASSUME BlocksFit, WholeNext
      PROVE  \A o \in Objs : ~ obj[o].dir =>
               \A b \in OwnBlocks(obj[o]) \cap OwnBlocks(obj[o]') :
                  blk[b] = FileBytes => blk'[b] = FileBytes
  <2>1. FilesKept
    BY <1>1, WholeIsNotHalf, NextRecords
  <2>2. \A o \in Objs : \A b \in OwnBlocks(obj[o]) : \E i \in Index : b = obj[o].ptr[i] /\ b # 0
    BY DEF OwnBlocks
  <2>3. QED  BY <2>1, <2>2 DEF FilesKept
<1>2. BlocksFit /\ WholeNext =>
        [\A o \in Objs : ~ obj[o].dir =>
           \A b \in OwnBlocks(obj[o]) \cap OwnBlocks(obj[o]') :
              blk[b] = FileBytes => blk'[b] = FileBytes]_vars
  BY <1>1
<1>3. (Init => BlocksFit) /\ (BlocksFit /\ WholeNext => BlocksFit')
  BY BlocksFitHolds
<1>4. QED  BY <1>2, <1>3, PTL DEF Spec, FileBlocksStay, WholeNext

\* Entries of any blocks and inode.
EntriesIn(bl, node) ==
  {At(bl, node, p) : p \in {q \in Used(bl, node) : At(bl, node, q).name \notin {Dot, DotDot}}}

\* It is what the properties call Entries, before a step and after it.
LEMMA EntriesAre ==
  \A d : Entries(d) = EntriesIn(blk, obj[d]) /\ Entries(d)' = EntriesIn(blk', obj'[d])
<1>1. ASSUME NEW d
      PROVE  {p \in Places(obj[d]) : /\ At(blk, obj[d], p).ino # 0
                                     /\ At(blk, obj[d], p).name \notin {Dot, DotDot}}
             = {q \in Used(blk, obj[d]) : At(blk, obj[d], q).name \notin {Dot, DotDot}}
  BY DEF Used
<1>2. ASSUME NEW d
      PROVE  {p \in Places(obj'[d]) : /\ At(blk', obj'[d], p).ino # 0
                                      /\ At(blk', obj'[d], p).name \notin {Dot, DotDot}}
             = {q \in Used(blk', obj'[d]) : At(blk', obj'[d], q).name \notin {Dot, DotDot}}
  BY DEF Used
<1>3. QED  BY <1>1, <1>2 DEF Entries, EntryPlaces, EntriesIn

\* Entries of records that stay.
LEMMA EntriesSame ==
  ASSUME NEW bl, NEW node, NEW bl2, NEW node2, SameUsed(bl, node, bl2, node2)
  PROVE  EntriesIn(bl2, node2) = EntriesIn(bl, node)
  BY DEF EntriesIn, SameUsed

\* A record more is an entry more.
LEMMA EntriesGain ==
  ASSUME NEW bl, NEW node, NEW bl2, NEW node2, NEW rec, Gains(bl, node, bl2, node2, rec),
         rec.name \notin {Dot, DotDot}
  PROVE  EntriesIn(bl2, node2) = EntriesIn(bl, node) \cup {rec}
<1>1. PICK p \in Index \X Slot :
        /\ p \notin Used(bl, node) /\ Used(bl2, node2) = Used(bl, node) \cup {p}
        /\ At(bl2, node2, p) = rec
        /\ \A q \in Used(bl, node) : At(bl2, node2, q) = At(bl, node, q)
  BY DEF Gains
<1>2. QED  BY <1>1 DEF EntriesIn

\* A record less is an entry less, when no other record has its name.
LEMMA EntriesLose ==
  ASSUME NEW bl, NEW node, NEW bl2, NEW node2, NEW p \in Used(bl, node),
         Loses(bl, node, bl2, node2, p),
         At(bl, node, p).name \notin {Dot, DotDot},
         \A q \in Used(bl, node) : At(bl, node, q).name = At(bl, node, p).name => q = p
  PROVE  EntriesIn(bl2, node2) = EntriesIn(bl, node) \ {At(bl, node, p)}
  BY DEF EntriesIn, Loses

\* As long as no block is half added, the records of a directory change only in
\* a step that changes its names.
THEOREM OnlyNamesChangeRecords == Spec /\ [][~ HalfAdded]_vars => RecordsFollowNames
<1>1. ASSUME BlocksFit, WholeNext, NEW d \in LinkedDirs \cap LinkedDirs',
             ChildrenOf(d)' = ChildrenOf(d)
      PROVE  Entries(d)' = Entries(d)
  <2>1. /\ d \in Objs /\ obj[d].ino # 0 /\ obj[d].dir
        /\ obj'[d].ino # 0 /\ obj'[d].nlink > 0
    BY DEF LinkedDirs, Linked, Live
  <2>2. {e \in dent' : e.par = d} = {e \in dent : e.par = d}
    BY <1>1 DEF ChildrenOf
  <2>3. RecordsKept(d)
    <3>1. CASE RecordsKeep
      BY <2>1, <3>1 DEF RecordsKeep
    <3>2. CASE \E o \in Objs : RecordsForget(o)
      BY <2>1, <3>2 DEF RecordsForget, StepForgets
    <3>3. CASE \E c, o \in Objs, name \in Names : \E i : RecordsAdd(c, name, o, i)
      <4>1. PICK c \in Objs, o \in Objs, name \in Names : \E i : RecordsAdd(c, name, o, i)
        BY <3>3
      <4>2. PICK i : RecordsAdd(c, name, o, i)
        BY <4>1
      <4> DEFINE new == [par |-> c, name |-> name, child |-> o]
      <4>3. new \in dent' /\ new \notin dent /\ new.par = c /\ d # o
        BY <2>1, <4>2 DEF RecordsAdd, StepAdds
      <4>4. d # c
        <5> HIDE DEF new
        <5>1. QED  BY <2>2, <4>3
      <4>5. QED  BY <2>1, <4>2, <4>3, <4>4 DEF RecordsAdd
    <3>4. CASE \E e \in dent : RecordsRemove(e)
      <4>1. PICK e \in dent : RecordsRemove(e)
        BY <3>4
      <4>2. d # e.par /\ d # e.child
        BY <2>1, <2>2, <4>1 DEF RecordsRemove, StepRemoves
      <4>3. QED  BY <2>1, <4>1, <4>2 DEF RecordsRemove
    <3>5. QED  BY <1>1, <3>1, <3>2, <3>3, <3>4, WholeIsNotHalf, NextRecords
  <2>4. QED  BY <2>3, EntriesAre, EntriesSame DEF RecordsKept
<1>2. BlocksFit /\ WholeNext =>
        [\A d \in LinkedDirs \cap LinkedDirs' :
           Entries(d)' # Entries(d) => ChildrenOf(d)' # ChildrenOf(d)]_vars
  BY <1>1
<1>3. (Init => BlocksFit) /\ (BlocksFit /\ WholeNext => BlocksFit')
  BY BlocksFitHolds
<1>4. QED  BY <1>2, <1>3, PTL DEF Spec, RecordsFollowNames, WholeNext

----------------------------------------------------------------------------
(* The records of linked directories.                                      *)

\* RecordOf of any objects.
RecordIn(os, e) == [ino |-> os[e.child].ino, name |-> e.name]

\* Every record of a linked directory but "." and ".." is the one of a dentry,
\* and no two have one name.
LiveDir(bl, os, dn, d) ==
  /\ \A p \in Used(bl, os[d]) : At(bl, os[d], p).name \notin {Dot, DotDot} =>
       \E e \in dn : e.par = d /\ At(bl, os[d], p) = RecordIn(os, e)
  /\ \A p, q \in Used(bl, os[d]) : At(bl, os[d], p).name = At(bl, os[d], q).name => p = q
LiveFit(bl, os, dn) == \A d \in Objs : os[d].nlink > 0 /\ os[d].dir => LiveDir(bl, os, dn, d)

\* A directory that has a name has "." and "..", also after its parent is gone.
DotsIn(bl, os, e) ==
  /\ {<<1, 1>>, <<1, 2>>} \subseteq Used(bl, os[e.child])
  /\ At(bl, os[e.child], <<1, 1>>) = [ino |-> os[e.child].ino, name |-> Dot]
  /\ At(bl, os[e.child], <<1, 2>>) = [ino |-> os[e.par].ino, name |-> DotDot]
DotsFit(bl, os, dn) == \A e \in dn : os[e.child].dir => DotsIn(bl, os, e)

\* What is linked is the root or has a name.
Reached(os, dn) == \A o \in Objs : os[o].nlink > 0 => o = RootObj \/ \E e \in dn : e.child = o

RecordsFit == /\ BlocksFit
              /\ LiveFit(blk, obj, dent) /\ DotsFit(blk, obj, dent) /\ Reached(obj, dent)

\* The invariant gives the two properties of the runs.
LEMMA RecordsFitIsProperties == RecordsFit => RecordsAreLive /\ DotEntries
<1> SUFFICES ASSUME RecordsFit PROVE RecordsAreLive /\ DotEntries
  OBVIOUS
<1>1. ASSUME NEW d \in LinkedDirs
      PROVE  /\ Entries(d) \subseteq {RecordOf(e) : e \in ChildrenOf(d)}
             /\ \A p, q \in EntryPlaces(d) :
                  At(blk, obj[d], p).name = At(blk, obj[d], q).name => p = q
  <2>1. d \in Objs /\ obj[d].nlink > 0 /\ obj[d].dir
    BY DEF LinkedDirs, Linked
  <2>2. EntryPlaces(d) = {p \in Used(blk, obj[d]) : At(blk, obj[d], p).name \notin {Dot, DotDot}}
    BY DEF EntryPlaces, Used
  <2>3. ASSUME NEW p \in EntryPlaces(d)
        PROVE  At(blk, obj[d], p) \in {RecordOf(e) : e \in ChildrenOf(d)}
    <3>1. PICK e \in dent : e.par = d /\ At(blk, obj[d], p) = RecordIn(obj, e)
      BY <2>1, <2>2 DEF RecordsFit, LiveFit, LiveDir
    <3>2. QED  BY <3>1 DEF ChildrenOf, RecordIn, RecordOf
  <2>4. QED  BY <2>1, <2>2, <2>3 DEF Entries, RecordsFit, LiveFit, LiveDir
<1>2. DotEntries
  BY DEF RecordsFit, DotsFit, DotsIn, DotEntries
<1>3. QED  BY <1>1, <1>2 DEF RecordsAreLive

\* At the start no record is in use.
LEMMA InitRecordsFit == Init => RecordsFit
<1> SUFFICES ASSUME Init PROVE RecordsFit
  OBVIOUS
<1>1. BlocksFit
  BY InitTreeFits, InitOwns DEF BlocksFit
<1>2. obj = [o \in Objs |-> IF o = RootObj THEN NewInode(RootIno, TRUE, 2) ELSE NoInode] /\ dent = {}
  BY DEF Init
<1>3. \A o \in Objs : Used(blk, obj[o]) = {}
  <2>1. \A o \in Objs : obj[o].ptr = [k \in Index |-> 0]
    BY <1>2 DEF NewInode, NoInode
  <2>2. QED  BY <2>1 DEF Used, Places
<1>4. Reached(obj, dent)
  BY <1>2 DEF Reached, NoInode, NewInode
<1>5. QED  BY <1>1, <1>2, <1>3, <1>4 DEF RecordsFit, LiveFit, LiveDir, DotsFit

\* A directory that keeps its records and its names stays in order.
LEMMA KeptIsLive ==
  ASSUME NEW d \in Objs, LiveDir(blk, obj, dent, d), RecordsKept(d),
         \A e \in dent : e.par = d => e \in dent' /\ obj'[e.child].ino = obj[e.child].ino
  PROVE  LiveDir(blk', obj', dent', d)
<1>1. \A e \in dent : e.par = d => e \in dent' /\ RecordIn(obj', e) = RecordIn(obj, e)
  BY DEF RecordIn
<1>2. /\ Used(blk', obj'[d]) = Used(blk, obj[d])
      /\ \A p \in Used(blk, obj[d]) : At(blk', obj'[d], p) = At(blk, obj[d], p)
  BY DEF RecordsKept, SameUsed
<1>3. QED  BY <1>1, <1>2 DEF LiveDir

\* And keeps its two dots.
LEMMA KeptHasDots ==
  ASSUME NEW e, DotsIn(blk, obj, e), RecordsKept(e.child),
         obj'[e.child].ino = obj[e.child].ino, obj'[e.par].ino = obj[e.par].ino
  PROVE  DotsIn(blk', obj', e)
  BY DEF DotsIn, RecordsKept, SameUsed

\* Steps that keep names and links.
LEMMA KeepsRecordsFit ==
  ASSUME RecordsFit, BlocksFit', RecordsKeep
  PROVE  RecordsFit'
<1>1. /\ \A e \in dent : e.par \in Objs /\ e.child \in Objs
      /\ dent' = dent
      /\ \A q \in Objs : /\ obj'[q].ino = obj[q].ino /\ obj'[q].dir = obj[q].dir
                         /\ obj'[q].nlink = obj[q].nlink
                         /\ obj[q].dir => RecordsKept(q)
  BY DEF RecordsFit, BlocksFit, TreeFits, Good, Dentry, RecordsKeep, StepKeeps, SameLinks
<1>2. LiveFit(blk, obj, dent) /\ DotsFit(blk, obj, dent) /\ Reached(obj, dent)
  BY DEF RecordsFit
<1>3. LiveFit(blk', obj', dent')
  <2>1. ASSUME NEW d \in Objs, obj'[d].nlink > 0, obj'[d].dir
        PROVE  LiveDir(blk', obj', dent', d)
    <3>1. LiveDir(blk, obj, dent, d) /\ RecordsKept(d)
      BY <1>1, <1>2, <2>1 DEF LiveFit
    <3>2. \A e \in dent : e.par = d => e \in dent' /\ obj'[e.child].ino = obj[e.child].ino
      BY <1>1
    <3>3. QED  BY <3>1, <3>2, KeptIsLive
  <2>2. QED  BY <2>1 DEF LiveFit
<1>4. DotsFit(blk', obj', dent')
  <2>1. ASSUME NEW e \in dent, obj'[e.child].dir
        PROVE  DotsIn(blk', obj', e)
    BY <1>1, <1>2, <2>1, KeptHasDots DEF DotsFit
  <2>2. QED  BY <1>1, <2>1 DEF DotsFit
<1>5. Reached(obj', dent')
  BY <1>1, <1>2 DEF Reached
<1>6. QED  BY <1>3, <1>4, <1>5 DEF RecordsFit

\* The end of an object without a name.
LEMMA ForgetsRecordsFit ==
  ASSUME RecordsFit, BlocksFit', NEW o \in Objs, RecordsForget(o)
  PROVE  RecordsFit'
<1>1. /\ \A e \in dent : e.par \in Objs \ {o} /\ e.child \in Objs \ {o}
      /\ dent' = dent /\ ~ (obj'[o].nlink > 0)
      /\ \A q \in Objs \ {o} : /\ obj'[q].ino = obj[q].ino /\ obj'[q].dir = obj[q].dir
                               /\ obj'[q].nlink = obj[q].nlink
                               /\ RecordsKept(q)
  BY DEF RecordsFit, BlocksFit, TreeFits, Good, Dentry, RecordsForget, StepForgets, SameLinks
<1>2. LiveFit(blk, obj, dent) /\ DotsFit(blk, obj, dent) /\ Reached(obj, dent)
  BY DEF RecordsFit
<1>3. LiveFit(blk', obj', dent')
  <2>1. ASSUME NEW d \in Objs, obj'[d].nlink > 0, obj'[d].dir
        PROVE  LiveDir(blk', obj', dent', d)
    <3>1. LiveDir(blk, obj, dent, d) /\ RecordsKept(d)
      BY <1>1, <1>2, <2>1 DEF LiveFit
    <3>2. \A e \in dent : e.par = d => e \in dent' /\ obj'[e.child].ino = obj[e.child].ino
      BY <1>1
    <3>3. QED  BY <3>1, <3>2, KeptIsLive
  <2>2. QED  BY <2>1 DEF LiveFit
<1>4. DotsFit(blk', obj', dent')
  <2>1. ASSUME NEW e \in dent, obj'[e.child].dir
        PROVE  DotsIn(blk', obj', e)
    BY <1>1, <1>2, <2>1, KeptHasDots DEF DotsFit
  <2>2. QED  BY <1>1, <2>1 DEF DotsFit
<1>5. Reached(obj', dent')
  BY <1>1, <1>2 DEF Reached
<1>6. QED  BY <1>3, <1>4, <1>5 DEF RecordsFit

\* The record names of "." and ".." differ.
LEMMA DotsDiffer == Dot # DotDot /\ \A n \in Names : n \notin {Dot, DotDot}
<1>1. ASSUME Dot = DotDot PROVE FALSE
  <2>1. {Dot, DotDot, NoName} = {DotDot} \cup {NoName}
    BY <1>1
  <2>2. IsFiniteSet({DotDot}) /\ Cardinality({DotDot}) = 1 /\ IsFiniteSet({NoName}) /\ Cardinality({NoName}) = 1
    BY FS_Singleton
  <2>3. Cardinality({DotDot} \cup {NoName}) <= 2
    <3>1. CASE NoName \in {DotDot}
      <4>1. {DotDot} \cup {NoName} = {DotDot}
        BY <3>1
      <4>2. QED  BY <2>2, <4>1
    <3>2. CASE NoName \notin {DotDot}
      BY <2>2, <3>2, FS_AddElement
    <3>3. QED  BY <3>1, <3>2
  <2>4. QED  BY <2>1, <2>3, FSAssumption
<1>2. QED  BY <1>1, FSAssumption

\* A directory has no record of a name that has no dentry, also where
\* naive_lookup did not read them all.
LEMMA NameIsNew ==
  ASSUME RecordsFit, NEW d \in Objs, NEW o \in Objs, NEW name \in Names, NEW i, RecordsAdd(d, name, o, i),
         NEW q \in Used(blk, obj[d])
  PROVE  At(blk, obj[d], q).name # name
<1>1. /\ LiveDir(blk, obj, dent, d)
      /\ \A e \in dent : ~ (e.par = d /\ e.name = name)
  BY DEF RecordsFit, LiveFit, RecordsAdd, StepAdds
<1>2. SUFFICES ASSUME At(blk, obj[d], q).name = name PROVE FALSE
  OBVIOUS
<1>3. PICK e \in dent : e.par = d /\ At(blk, obj[d], q) = RecordIn(obj, e)
  BY <1>1, <1>2, DotsDiffer DEF LiveDir
<1>4. QED  BY <1>1, <1>2, <1>3 DEF RecordIn

\* A name and its record are added; a new directory has its dots.
LEMMA AddsRecordsFit ==
  ASSUME NamesAreKept, RecordsFit, BlocksFit', NEW d \in Objs, NEW o \in Objs, NEW name \in Names,
         NEW i, RecordsAdd(d, name, o, i)
  PROVE  RecordsFit'
<1> DEFINE new == [par |-> d, name |-> name, child |-> o]
<1>1. /\ \A e \in dent : e.par \in Objs \ {o} /\ e.child \in Objs \ {o}
      /\ d # o /\ new.par = d /\ new.name = name /\ new.child = o
      /\ \A q \in Objs : obj[q].nlink \in Nat
  <2>1. obj[o].ino = 0 /\ obj[d].nlink > 0
    BY DEF RecordsAdd, StepAdds
  <2>2. \A q \in Objs : obj[q].nlink \in Nat
    BY InodeFields DEF RecordsFit, BlocksFit, TreeFits, Good, WellFormed
  <2>3. QED  BY <2>1, <2>2 DEF RecordsFit, BlocksFit, TreeFits, NamesFit, Good, Dentry
<1>2. dent' = dent \cup {new} /\ obj'[o].ino = i /\ obj'[d].ino = obj[d].ino /\ obj'[d].dir = obj[d].dir
      /\ obj[d].nlink > 0 /\ obj[d].dir
      /\ \A q \in Objs \ {d, o} : /\ obj'[q].ino = obj[q].ino /\ obj'[q].dir = obj[q].dir
                                  /\ obj'[q].nlink = obj[q].nlink /\ RecordsKept(q)
  BY DEF RecordsAdd, StepAdds, SameLinks
<1> HIDE DEF new
<1>3. LiveFit(blk, obj, dent) /\ DotsFit(blk, obj, dent) /\ Reached(obj, dent)
  BY DEF RecordsFit
<1>4. \A q \in Objs \ {o} : obj'[q].ino = obj[q].ino /\ obj'[q].dir = obj[q].dir
  BY <1>2
<1>5. \A q \in Objs : \A e \in dent : e.par = q => e \in dent' /\ obj'[e.child].ino = obj[e.child].ino
  BY <1>1, <1>2, <1>4
<1>6. name \notin {Dot, DotDot} /\ Dot # DotDot
  BY DotsDiffer
<1>7. LiveDir(blk, obj, dent, d)
  BY <1>2, <1>3 DEF LiveFit
<1>8. LiveDir(blk', obj', dent', d)
  <2>1. CASE RecordsKept(d)
    BY <1>5, <1>7, <2>1, KeptIsLive
  <2>2. CASE Gains(blk, obj[d], blk', obj'[d], [ino |-> i, name |-> Stored[name]])
    <3>1. [ino |-> i, name |-> Stored[name]] = RecordIn(obj', new)
      BY <1>1, <1>2 DEF RecordIn, NamesAreKept
    <3>2. PICK p \in Index \X Slot :
            /\ p \notin Used(blk, obj[d]) /\ Used(blk', obj'[d]) = Used(blk, obj[d]) \cup {p}
            /\ At(blk', obj'[d], p) = RecordIn(obj', new)
            /\ \A q \in Used(blk, obj[d]) : At(blk', obj'[d], q) = At(blk, obj[d], q)
      BY <2>2, <3>1 DEF Gains
    <3>3. RecordIn(obj', new).name = name
      BY <1>1 DEF RecordIn
    <3>4. \A q \in Used(blk, obj[d]) : At(blk, obj[d], q).name # name
      BY NameIsNew
    <3>5. \A e \in dent : e.par = d => e \in dent' /\ RecordIn(obj', e) = RecordIn(obj, e)
      BY <1>5 DEF RecordIn
    <3>6. ASSUME NEW q \in Used(blk', obj'[d]), At(blk', obj'[d], q).name \notin {Dot, DotDot}
          PROVE  \E e \in dent' : e.par = d /\ At(blk', obj'[d], q) = RecordIn(obj', e)
      <4>1. CASE q = p
        BY <1>1, <1>2, <3>2, <4>1
      <4>2. CASE q \in Used(blk, obj[d])
        BY <1>7, <3>2, <3>5, <3>6, <4>2 DEF LiveDir
      <4>3. QED  BY <3>2, <4>1, <4>2
    <3>7. ASSUME NEW q \in Used(blk', obj'[d]), NEW s \in Used(blk', obj'[d]),
                 At(blk', obj'[d], q).name = At(blk', obj'[d], s).name
          PROVE  q = s
      <4>1. CASE q = p \/ s = p
        BY <3>2, <3>3, <3>4, <3>7, <4>1
      <4>2. CASE q \in Used(blk, obj[d]) /\ s \in Used(blk, obj[d])
        BY <1>7, <3>2, <3>7, <4>2 DEF LiveDir
      <4>3. QED  BY <3>2, <4>1, <4>2
    <3>8. QED  BY <3>6, <3>7 DEF LiveDir
  <2>3. QED  BY <2>1, <2>2 DEF RecordsAdd
<1>9. obj'[o].dir => OnlyDots(blk', obj'[o], i, obj[d].ino)
  BY DEF RecordsAdd
<1>10. LiveFit(blk', obj', dent')
  <2>1. ASSUME NEW q \in Objs, obj'[q].nlink > 0, obj'[q].dir
        PROVE  LiveDir(blk', obj', dent', q)
    <3>1. CASE q = d
      BY <1>8, <3>1
    <3>2. CASE q = o
      BY <1>6, <1>9, <2>1, <3>2 DEF LiveDir, OnlyDots
    <3>3. CASE q \in Objs \ {d, o}
      <4>1. LiveDir(blk, obj, dent, q) /\ RecordsKept(q)
        BY <1>2, <1>3, <2>1, <3>3 DEF LiveFit
      <4>2. QED  BY <1>5, <4>1, KeptIsLive
    <3>4. QED  BY <3>1, <3>2, <3>3
  <2>2. QED  BY <2>1 DEF LiveFit
<1>11. DotsFit(blk', obj', dent')
  <2>1. ASSUME NEW e \in dent', obj'[e.child].dir
        PROVE  DotsIn(blk', obj', e)
    <3>1. CASE e = new
      BY <1>1, <1>2, <1>9, <2>1, <3>1 DEF DotsIn, OnlyDots
    <3>2. CASE e \in dent
      <4>1. /\ DotsIn(blk, obj, e)
            /\ obj'[e.child].ino = obj[e.child].ino /\ obj'[e.par].ino = obj[e.par].ino
        BY <1>1, <1>3, <1>4, <2>1, <3>2 DEF DotsFit
      <4>2. CASE e.child = d
        <5>1. CASE RecordsKept(d)
          BY <4>1, <4>2, <5>1, KeptHasDots
        <5>2. CASE Gains(blk, obj[d], blk', obj'[d], [ino |-> i, name |-> Stored[name]])
          <6>1. PICK p \in Index \X Slot :
                  /\ Used(blk', obj'[d]) = Used(blk, obj[d]) \cup {p}
                  /\ \A q \in Used(blk, obj[d]) : At(blk', obj'[d], q) = At(blk, obj[d], q)
            BY <5>2 DEF Gains
          <6>2. QED  BY <4>1, <4>2, <6>1 DEF DotsIn
        <5>3. QED  BY <5>1, <5>2 DEF RecordsAdd
      <4>3. CASE e.child # d
        BY <1>1, <1>2, <3>2, <4>1, <4>3, KeptHasDots
      <4>4. QED  BY <4>2, <4>3
    <3>3. QED  BY <1>2, <3>1, <3>2
  <2>2. QED  BY <2>1 DEF DotsFit
<1>12. Reached(obj', dent')
  <2>1. ASSUME NEW q \in Objs, obj'[q].nlink > 0
        PROVE  q = RootObj \/ \E e \in dent' : e.child = q
    <3>1. CASE q = o
      BY <1>1, <1>2, <3>1
    <3>2. CASE q # o
      <4>1. obj[q].nlink > 0
        BY <1>2, <2>1, <3>2
      <4>2. QED  BY <1>2, <1>3, <4>1 DEF Reached
    <3>3. QED  BY <3>1, <3>2
  <2>2. QED  BY <2>1 DEF Reached
<1>13. QED  BY <1>10, <1>11, <1>12 DEF RecordsFit

\* The record of the name that goes is the only one of it.
LEMMA RemovesRecordsFit ==
  ASSUME RecordsFit, BlocksFit', NEW e \in dent, RecordsRemove(e)
  PROVE  RecordsFit'
<1> DEFINE d == e.par
           c == e.child
<1>1. /\ \A f \in dent : f.par \in Objs /\ f.child \in Objs /\ f.name \in Names
      /\ c # d /\ \A f \in dent : (f.child = c \/ (f.par = d /\ f.name = e.name)) => f = e
  BY DEF RecordsFit, BlocksFit, TreeFits, NamesFit, Good, Dentry
<1>2. /\ dent' = dent \ {e} /\ ~ (obj'[c].nlink > 0)
      /\ obj'[d].ino = obj[d].ino /\ obj'[d].dir = obj[d].dir
      /\ \/ obj'[c].ino = obj[c].ino /\ obj'[c].dir = obj[c].dir
         \/ \A f \in dent : f.par # c
      /\ obj[d].nlink > 0 /\ obj[d].dir
      /\ \A q \in Objs \ {d, c} : /\ obj'[q].ino = obj[q].ino /\ obj'[q].dir = obj[q].dir
                                  /\ obj'[q].nlink = obj[q].nlink /\ RecordsKept(q)
  BY DEF RecordsRemove, StepRemoves, SameLinks, RecordsFit, BlocksFit, TreeFits, NamesFit
<1>3. LiveFit(blk, obj, dent) /\ DotsFit(blk, obj, dent) /\ Reached(obj, dent)
  BY DEF RecordsFit
<1>4. PICK p \in Used(blk, obj[d]) :
        At(blk, obj[d], p).name = e.name /\ Loses(blk, obj[d], blk', obj'[d], p)
  BY DEF RecordsRemove
<1>5. /\ Used(blk', obj'[d]) = Used(blk, obj[d]) \ {p}
      /\ \A q \in Used(blk, obj[d]) \ {p} : At(blk', obj'[d], q) = At(blk, obj[d], q)
  BY <1>4 DEF Loses
<1>6. e.name \notin {Dot, DotDot}
  BY <1>1, FSAssumption
<1>7. \A f \in dent \ {e} : f \in dent' /\ obj'[f.child].ino = obj[f.child].ino /\ f.child # c
                            /\ obj'[f.child].dir = obj[f.child].dir
  BY <1>1, <1>2
<1>8. LiveDir(blk, obj, dent, d)
  BY <1>1, <1>2, <1>3 DEF LiveFit
<1>9. LiveDir(blk', obj', dent', d)
  <2>1. ASSUME NEW q \in Used(blk', obj'[d]), At(blk', obj'[d], q).name \notin {Dot, DotDot}
        PROVE  \E f \in dent' : f.par = d /\ At(blk', obj'[d], q) = RecordIn(obj', f)
    <3>1. q \in Used(blk, obj[d]) /\ q # p /\ At(blk', obj'[d], q) = At(blk, obj[d], q)
      BY <1>5
    <3>2. PICK f \in dent : f.par = d /\ At(blk, obj[d], q) = RecordIn(obj, f)
      BY <1>8, <2>1, <3>1 DEF LiveDir
    <3>3. At(blk, obj[d], q).name # e.name
      BY <1>4, <1>8, <3>1 DEF LiveDir
    <3>4. f # e
      BY <3>2, <3>3 DEF RecordIn
    <3>5. f \in dent' /\ RecordIn(obj', f) = RecordIn(obj, f)
      BY <1>7, <3>4 DEF RecordIn
    <3>6. QED  BY <3>1, <3>2, <3>5
  <2>2. \A q, s \in Used(blk', obj'[d]) : At(blk', obj'[d], q).name = At(blk', obj'[d], s).name => q = s
    BY <1>5, <1>8 DEF LiveDir
  <2>3. QED  BY <2>1, <2>2 DEF LiveDir
<1>10. LiveFit(blk', obj', dent')
  <2>1. ASSUME NEW q \in Objs, obj'[q].nlink > 0, obj'[q].dir
        PROVE  LiveDir(blk', obj', dent', q)
    <3>1. CASE q = d
      BY <1>9, <3>1
    <3>2. CASE q # d
      <4>1. q # c
        BY <1>2, <2>1
      <4>2. LiveDir(blk, obj, dent, q) /\ RecordsKept(q)
        BY <1>2, <1>3, <2>1, <3>2, <4>1 DEF LiveFit
      <4>3. \A f \in dent : f.par = q => f \in dent' /\ obj'[f.child].ino = obj[f.child].ino
        BY <1>7, <3>2
      <4>4. QED  BY <4>2, <4>3, KeptIsLive
    <3>3. QED  BY <3>1, <3>2
  <2>2. QED  BY <2>1 DEF LiveFit
<1>11. DotsFit(blk', obj', dent')
  <2>1. ASSUME NEW f \in dent', obj'[f.child].dir
        PROVE  DotsIn(blk', obj', f)
    <3>1. f \in dent /\ f # e /\ f.child # c /\ obj'[f.child].ino = obj[f.child].ino /\ obj[f.child].dir
      BY <1>2, <1>7, <2>1
    <3>2. obj'[f.par].ino = obj[f.par].ino
      BY <1>1, <1>2, <3>1
    <3>3. DotsIn(blk, obj, f)
      BY <1>3, <3>1 DEF DotsFit
    <3>4. CASE f.child = d
      <4>1. <<1, 1>> # p /\ <<1, 2>> # p
        BY <1>4, <1>6, <3>3, <3>4 DEF DotsIn
      <4>2. QED  BY <1>5, <3>1, <3>2, <3>3, <3>4, <4>1 DEF DotsIn
    <3>5. CASE f.child # d
      BY <1>1, <1>2, <3>1, <3>2, <3>3, <3>5, KeptHasDots
    <3>6. QED  BY <3>4, <3>5
  <2>2. QED  BY <2>1 DEF DotsFit
<1>12. Reached(obj', dent')
  <2>1. ASSUME NEW q \in Objs, obj'[q].nlink > 0
        PROVE  q = RootObj \/ \E f \in dent' : f.child = q
    <3>1. q # c /\ obj[q].nlink > 0
      BY <1>2, <2>1
    <3>2. QED  BY <1>2, <1>3, <3>1 DEF Reached
  <2>2. QED  BY <2>1 DEF Reached
<1>13. QED  BY <1>10, <1>11, <1>12 DEF RecordsFit

\* The invariant is inductive.
LEMMA RecordsFitHolds ==
  NamesAreKept => (Init => RecordsFit) /\ (RecordsFit /\ WholeNext => RecordsFit')
<1>1. ASSUME NamesAreKept, RecordsFit, WholeNext PROVE RecordsFit'
  <2>1. BlocksFit /\ BlocksFit'
    BY <1>1, BlocksFitHolds DEF RecordsFit
  <2>2. QED  BY <1>1, <2>1, WholeIsNotHalf, NextRecords,
               KeepsRecordsFit, ForgetsRecordsFit, AddsRecordsFit, RemovesRecordsFit
<1>2. QED  BY <1>1, InitRecordsFit

\* As long as no block is half added, where names are short, every record in a
\* linked directory is of a live object and of the name the VFS has for it, no
\* directory holds a name twice, and "." and ".." name the directory and its
\* parent; also in directories that ran out of room.
THEOREM RecordsAreOfNames ==
  NamesAreKept => (Spec /\ [][~ HalfAdded]_vars => [](RecordsAreLive /\ DotEntries))
<1> SUFFICES ASSUME NamesAreKept
             PROVE  Spec /\ [][~ HalfAdded]_vars => [](RecordsAreLive /\ DotEntries)
  OBVIOUS
<1>1. RecordsFit => RecordsAreLive /\ DotEntries
  BY RecordsFitIsProperties
<1>2. (Init => RecordsFit) /\ (RecordsFit /\ WholeNext => RecordsFit')
  BY RecordsFitHolds
<1>3. QED  BY <1>1, <1>2, PTL DEF Spec, WholeNext

----------------------------------------------------------------------------
(* With room in every directory, names have records.                       *)

\* add_entry has a place to write in every linked directory: a record that is
\* free, or a pointer that is zero.
RoomLeft == \A d \in LinkedDirs : ~ NoRoom(blk, obj[d])

\* Each dentry of a linked directory is a record of it.
RecordedIn(bl, os, e) == \E p \in Used(bl, os[e.par]) : At(bl, os[e.par], p) = RecordIn(os, e)
NamesRecorded(bl, os, dn) == \A e \in dn : os[e.par].nlink > 0 => RecordedIn(bl, os, e)

AllFits == RecordsFit /\ NamesRecorded(blk, obj, dent)

\* The invariant gives the property of the runs.
LEMMA AllFitsIsRecorded == AllFits => NamesAreRecorded
<1> SUFFICES ASSUME AllFits, NEW d \in LinkedDirs, NEW e \in ChildrenOf(d)
             PROVE  RecordOf(e) \in Entries(d)
  BY DEF NamesAreRecorded
<1>1. e \in dent /\ e.par = d /\ obj[d].nlink > 0 /\ e.name \in Names
  BY DEF ChildrenOf, LinkedDirs, Linked, AllFits, RecordsFit, BlocksFit, TreeFits, Good, Dentry
<1>2. PICK p \in Used(blk, obj[d]) : At(blk, obj[d], p) = RecordIn(obj, e)
  BY <1>1 DEF AllFits, NamesRecorded, RecordedIn
<1>3. RecordIn(obj, e).name = e.name /\ RecordOf(e) = RecordIn(obj, e)
  BY DEF RecordIn, RecordOf
<1>4. At(blk, obj[d], p) \in EntriesIn(blk, obj[d])
  BY <1>1, <1>2, <1>3, DotsDiffer DEF EntriesIn
<1>5. QED  BY <1>2, <1>3, <1>4, EntriesAre

\* Records that stay, of names whose objects keep their numbers.
LEMMA KeptIsRecorded ==
  ASSUME NEW e, RecordedIn(blk, obj, e), RecordsKept(e.par), obj'[e.child].ino = obj[e.child].ino
  PROVE  RecordedIn(blk', obj', e)
<1>1. RecordIn(obj', e) = RecordIn(obj, e)
  BY DEF RecordIn
<1>2. QED  BY <1>1 DEF RecordedIn, RecordsKept, SameUsed

\* Each kind of step keeps it, as long as no name is added without its record.
LEMMA NextNamesRecorded ==
  ASSUME NamesAreKept, AllFits, RoomLeft, WholeNext
  PROVE  AllFits'
<1>1. RecordsFit /\ BlocksFit /\ RecordsFit'
  BY RecordsFitHolds DEF AllFits, RecordsFit
<1>2. /\ \A e \in dent : /\ e.par \in Objs /\ e.child \in Objs /\ e.name \in Names
                         /\ obj[e.par].dir /\ obj[e.par].ino # 0
      /\ \A e, f \in dent : (e.child = f.child \/ (e.par = f.par /\ e.name = f.name)) => e = f
  BY <1>1 DEF BlocksFit, TreeFits, NamesFit, Good, Dentry
<1>3. \A e \in dent : obj[e.par].nlink > 0 => RecordedIn(blk, obj, e)
  BY DEF AllFits, NamesRecorded
<1>4. CASE RecordsKeep
  <2>1. /\ dent' = dent
        /\ \A q \in Objs : /\ obj'[q].ino = obj[q].ino /\ obj'[q].nlink = obj[q].nlink
                           /\ obj[q].dir => RecordsKept(q)
    BY <1>4 DEF RecordsKeep, StepKeeps, SameLinks
  <2>2. \A e \in dent' : obj'[e.par].nlink > 0 => RecordedIn(blk', obj', e)
    BY <1>2, <1>3, <2>1, KeptIsRecorded
  <2>3. QED  BY <1>1, <2>2 DEF AllFits, NamesRecorded
<1>5. CASE \E o \in Objs : RecordsForget(o)
  <2>1. PICK o \in Objs : RecordsForget(o)
    BY <1>5
  <2>2. /\ dent' = dent /\ \A e \in dent : e.child # o /\ e.par # o
        /\ \A q \in Objs \ {o} : /\ obj'[q].ino = obj[q].ino /\ obj'[q].nlink = obj[q].nlink
                                 /\ RecordsKept(q)
    BY <2>1 DEF RecordsForget, StepForgets, SameLinks
  <2>3. \A e \in dent' : obj'[e.par].nlink > 0 => RecordedIn(blk', obj', e)
    BY <1>2, <1>3, <2>2, KeptIsRecorded
  <2>4. QED  BY <1>1, <2>3 DEF AllFits, NamesRecorded
<1>6. CASE \E d, o \in Objs, name \in Names : \E i : RecordsAdd(d, name, o, i)
  <2>1. PICK d \in Objs, o \in Objs, name \in Names : \E i : RecordsAdd(d, name, o, i)
    BY <1>6
  <2>2. PICK i : RecordsAdd(d, name, o, i)
    BY <2>1
  <2> DEFINE new == [par |-> d, name |-> name, child |-> o]
  <2>3. /\ dent' = dent \cup {new} /\ obj'[o].ino = i /\ obj[o].ino = 0 /\ obj'[d].ino = obj[d].ino
        /\ obj[d].nlink > 0 /\ obj[d].dir /\ new.par = d /\ new.name = name /\ new.child = o
        /\ \A q \in Objs \ {d, o} : /\ obj'[q].ino = obj[q].ino /\ obj'[q].nlink = obj[q].nlink
                                    /\ RecordsKept(q)
    BY <2>2 DEF RecordsAdd, StepAdds, SameLinks
  <2> HIDE DEF new
  <2>4. ~ NoRoom(blk, obj[d])
    <3>1. obj[d].ino # 0
      BY <1>1, <2>3 DEF BlocksFit, TreeFits, NamesFit
    <3>2. QED  BY <2>3, <3>1 DEF RoomLeft, LinkedDirs, Linked, Live
  <2>5. RecordIn(obj', new) = [ino |-> i, name |-> Stored[name]]
    BY <2>3 DEF RecordIn, NamesAreKept
  <2>6. PICK p \in Index \X Slot :
          /\ Used(blk', obj'[d]) = Used(blk, obj[d]) \cup {p}
          /\ At(blk', obj'[d], p) = RecordIn(obj', new)
          /\ \A q \in Used(blk, obj[d]) : At(blk', obj'[d], q) = At(blk, obj[d], q)
    BY <2>2, <2>4, <2>5 DEF RecordsAdd, Gains
  <2>7. RecordedIn(blk', obj', new)
    BY <2>3, <2>6 DEF RecordedIn
  <2>8. ASSUME NEW e \in dent, obj'[e.par].nlink > 0
        PROVE  RecordedIn(blk', obj', e)
    <3>1. e.child # o /\ e.par # o
      BY <1>1, <1>2, <2>3 DEF BlocksFit, TreeFits, NamesFit
    <3>2. obj'[e.child].ino = obj[e.child].ino
      BY <1>2, <2>3, <3>1
    <3>3. obj[e.par].nlink > 0
      BY <1>2, <2>3, <2>8, <3>1
    <3>4. CASE e.par = d
      <4>1. PICK q \in Used(blk, obj[d]) : At(blk, obj[d], q) = RecordIn(obj, e)
        BY <1>3, <3>3, <3>4 DEF RecordedIn
      <4>2. q \in Used(blk', obj'[d]) /\ At(blk', obj'[d], q) = RecordIn(obj', e)
        BY <2>6, <3>2, <4>1 DEF RecordIn
      <4>3. QED  BY <3>4, <4>2 DEF RecordedIn
    <3>5. CASE e.par # d
      BY <1>2, <1>3, <2>3, <3>1, <3>2, <3>3, <3>5, KeptIsRecorded
    <3>6. QED  BY <3>4, <3>5
  <2>9. QED  BY <1>1, <2>3, <2>7, <2>8 DEF AllFits, NamesRecorded
<1>7. CASE \E e \in dent : RecordsRemove(e)
  <2>1. PICK x \in dent : RecordsRemove(x)
    BY <1>7
  <2>2. /\ dent' = dent \ {x} /\ obj'[x.child].nlink = 0 /\ obj[x.par].nlink > 0
        /\ obj'[x.par].ino = obj[x.par].ino
        /\ \A q \in Objs \ {x.par, x.child} : /\ obj'[q].ino = obj[q].ino
                                              /\ obj'[q].nlink = obj[q].nlink /\ RecordsKept(q)
    BY <2>1 DEF RecordsRemove, StepRemoves, SameLinks
  <2>3. PICK p \in Used(blk, obj[x.par]) :
          /\ At(blk, obj[x.par], p).name = x.name
          /\ Loses(blk, obj[x.par], blk', obj'[x.par], p)
    BY <2>1 DEF RecordsRemove
  <2>4. ASSUME NEW e \in dent', obj'[e.par].nlink > 0
        PROVE  RecordedIn(blk', obj', e)
    <3>1. e \in dent /\ e # x /\ e.child # x.child /\ e.par # x.child
      BY <1>2, <2>2, <2>4
    <3>2. obj'[e.child].ino = obj[e.child].ino /\ RecordIn(obj', e) = RecordIn(obj, e)
      BY <1>2, <2>2, <3>1 DEF RecordIn
    <3>3. obj[e.par].nlink > 0 /\ RecordedIn(blk, obj, e)
      BY <1>2, <1>3, <2>2, <2>4, <3>1
    <3>4. CASE e.par = x.par
      <4>1. PICK q \in Used(blk, obj[x.par]) : At(blk, obj[x.par], q) = RecordIn(obj, e)
        BY <3>3, <3>4 DEF RecordedIn
      <4>2. q # p
        BY <1>2, <2>3, <3>1, <3>4, <4>1 DEF RecordIn
      <4>3. q \in Used(blk', obj'[x.par]) /\ At(blk', obj'[x.par], q) = RecordIn(obj', e)
        BY <2>3, <3>2, <4>1, <4>2 DEF Loses
      <4>4. QED  BY <3>4, <4>3 DEF RecordedIn
    <3>5. CASE e.par # x.par
      BY <1>2, <2>2, <3>1, <3>2, <3>3, <3>5, KeptIsRecorded
    <3>6. QED  BY <3>4, <3>5
  <2>5. QED  BY <1>1, <2>4 DEF AllFits, NamesRecorded
<1>8. QED  BY <1>1, <1>4, <1>5, <1>6, <1>7, WholeIsNotHalf, NextRecords

\* At the start nothing has a name.
LEMMA InitAllFits == Init => AllFits
  BY InitRecordsFit DEF Init, AllFits, NamesRecorded

\* As long as no directory is out of room and no block half added, where names
\* are short, what was created is a record of its directory: lookup, unlink and the test
\* of rmdir find it.
THEOREM NamesHaveRecords ==
  NamesAreKept => (Spec /\ [][~ HalfAdded]_vars /\ []RoomLeft => []NamesAreRecorded)
<1> SUFFICES ASSUME NamesAreKept
             PROVE  Spec /\ [][~ HalfAdded]_vars /\ []RoomLeft => []NamesAreRecorded
  OBVIOUS
<1>1. AllFits /\ RoomLeft /\ WholeNext => AllFits'
  BY NextNamesRecorded
<1>2. QED  BY <1>1, InitAllFits, AllFitsIsRecorded, PTL DEF Spec, WholeNext

----------------------------------------------------------------------------
(* The records implement Namespace.                                        *)

\* The tree of any blocks and objects.
LinkedIn(os)      == {q \in Objs : os[q].nlink > 0}
DirsIn(os)        == {os[q].ino : q \in {s \in LinkedIn(os) : os[s].dir}}
FilesIn(os)       == {os[q].ino : q \in {s \in LinkedIn(os) : ~ os[s].dir}}
EntryOf(d, r)     == [dir |-> d, name |-> r.name, ino |-> r.ino]
TreeIn(bl, os)    == UNION {{EntryOf(os[q].ino, r) : r \in EntriesIn(bl, os[q])}
                             : q \in {s \in LinkedIn(os) : os[s].dir}}

\* The entries of a tree, one by one.
LEMMA InTree ==
  ASSUME NEW bl, NEW os, NEW y
  PROVE  y \in TreeIn(bl, os) <=>
           \E q \in {s \in LinkedIn(os) : os[s].dir} : \E r \in EntriesIn(bl, os[q]) : y = EntryOf(os[q].ino, r)
  BY DEF TreeIn

\* It is what the refinement mapping says, before a step and after it.
LEMMA TreeAre ==
  ASSUME BlocksFit, BlocksFit'
  PROVE  /\ TreeDirs = DirsIn(obj) /\ TreeDirs' = DirsIn(obj')
         /\ TreeFiles = FilesIn(obj) /\ TreeFiles' = FilesIn(obj')
         /\ TreeEntry = TreeIn(blk, obj) /\ TreeEntry' = TreeIn(blk', obj')
<1>1. /\ LinkedDirs = {s \in LinkedIn(obj) : obj[s].dir}
      /\ {q \in Objs : Linked(q) /\ ~ obj[q].dir} = {s \in LinkedIn(obj) : ~ obj[s].dir}
  BY DEF BlocksFit, TreeFits, NamesFit, LinkedDirs, Linked, Live, LinkedIn
<1>2. /\ LinkedDirs' = {s \in LinkedIn(obj') : obj'[s].dir}
      /\ {q \in Objs : Linked(q) /\ ~ obj[q].dir}' = {s \in LinkedIn(obj') : ~ obj'[s].dir}
  BY DEF BlocksFit, TreeFits, NamesFit, LinkedDirs, Linked, Live, LinkedIn
<1>3. TreeDirs = DirsIn(obj) /\ TreeFiles = FilesIn(obj)
  BY <1>1 DEF TreeDirs, DirsIn, TreeFiles, FilesIn
<1>4. TreeDirs' = DirsIn(obj') /\ TreeFiles' = FilesIn(obj')
  BY <1>2 DEF TreeDirs, DirsIn, TreeFiles, FilesIn
<1>5. TreeEntry = TreeIn(blk, obj)
  BY <1>1, EntriesAre DEF TreeEntry, TreeIn, EntryOf
<1>6. TreeEntry' = TreeIn(blk', obj')
  BY <1>2, EntriesAre DEF TreeEntry, TreeIn, EntryOf
<1>7. QED  BY <1>3, <1>4, <1>5, <1>6

\* Linked objects that stay as they are, with their records, are the same tree.
LEMMA SameTree ==
  ASSUME LinkedIn(obj') = LinkedIn(obj),
         \A q \in LinkedIn(obj) : /\ obj'[q].ino = obj[q].ino /\ obj'[q].dir = obj[q].dir
                                  /\ obj[q].dir => RecordsKept(q)
  PROVE  DirsIn(obj') = DirsIn(obj) /\ FilesIn(obj') = FilesIn(obj) /\ TreeIn(blk', obj') = TreeIn(blk, obj)
<1>1. {s \in LinkedIn(obj') : obj'[s].dir} = {s \in LinkedIn(obj) : obj[s].dir}
  OBVIOUS
<1>2. \A q \in {s \in LinkedIn(obj) : obj[s].dir} :
         obj'[q].ino = obj[q].ino /\ EntriesIn(blk', obj'[q]) = EntriesIn(blk, obj[q])
  BY EntriesSame DEF RecordsKept
<1>3. DirsIn(obj') = DirsIn(obj)
  BY <1>1 DEF DirsIn
<1>4. FilesIn(obj') = FilesIn(obj)
  BY DEF FilesIn
<1>5. TreeIn(blk', obj') = TreeIn(blk, obj)
  <2>1. ASSUME NEW y PROVE y \in TreeIn(blk', obj') <=> y \in TreeIn(blk, obj)
    BY <1>1, <1>2, InTree
  <2>2. QED  BY <2>1
<1>6. QED  BY <1>3, <1>4, <1>5

\* A name that is added, with its record, is an entry more.
LEMMA AddsTree ==
  ASSUME NamesAreKept, RecordsFit, BlocksFit', NEW d \in Objs, NEW o \in Objs, NEW name \in Names,
         NEW i, RecordsAdd(d, name, o, i), ~ NoRoom(blk, obj[d])
  PROVE  /\ TreeIn(blk', obj') = TreeIn(blk, obj) \cup {[dir |-> obj[d].ino, name |-> name, ino |-> i]}
         /\ obj[d].ino \in DirsIn(obj) /\ i \notin DirsIn(obj) \cup FilesIn(obj) /\ i \in Inos
         /\ \A x \in TreeIn(blk, obj) : ~ (x.dir = obj[d].ino /\ x.name = name)
         /\ \/ DirsIn(obj') = DirsIn(obj) \cup {i} /\ FilesIn(obj') = FilesIn(obj)
            \/ FilesIn(obj') = FilesIn(obj) \cup {i} /\ DirsIn(obj') = DirsIn(obj)
<1> DEFINE rec == [ino |-> i, name |-> Stored[name]]
           x   == [dir |-> obj[d].ino, name |-> name, ino |-> i]
<1>1. /\ i \in Inos \ imap /\ obj[o].ino = 0 /\ obj[d].nlink > 0 /\ obj[d].dir
      /\ obj'[o].ino = i /\ obj'[o].dir \in BOOLEAN /\ obj'[o].nlink > 0
      /\ obj'[d].ino = obj[d].ino /\ obj'[d].dir = obj[d].dir
      /\ \A q \in Objs \ {d, o} : /\ obj'[q].ino = obj[q].ino /\ obj'[q].dir = obj[q].dir
                                  /\ obj'[q].nlink = obj[q].nlink /\ RecordsKept(q)
  BY DEF RecordsAdd, StepAdds, SameLinks
<1>2. /\ d # o /\ obj'[d].nlink > 0 /\ ~ (obj[o].nlink > 0)
      /\ \A q, s \in LinkedIn(obj) : obj[q].ino \in imap /\ (obj[q].ino = obj[s].ino => q = s)
  <2>1. d # o /\ ~ (obj[o].nlink > 0)
    BY <1>1 DEF RecordsFit, BlocksFit, TreeFits, NamesFit
  <2>2. obj'[d].nlink > 0
    <3>1. obj[d].nlink \in Nat /\ (obj'[d].nlink = obj[d].nlink + 1 \/ obj'[d].nlink = obj[d].nlink)
      BY InodeFields DEF RecordsFit, BlocksFit, TreeFits, Good, WellFormed, RecordsAdd, StepAdds
    <3>2. QED  BY <1>1, <3>1
  <2>3. QED  BY <2>1, <2>2 DEF RecordsFit, BlocksFit, TreeFits, NumbersFit, LinkedIn
<1>3. LinkedIn(obj') = LinkedIn(obj) \cup {o} /\ d \in LinkedIn(obj) /\ o \notin LinkedIn(obj)
  BY <1>1, <1>2 DEF LinkedIn
<1>4. rec.name \notin {Dot, DotDot} /\ EntryOf(obj[d].ino, rec) = x
  BY DotsDiffer DEF NamesAreKept, EntryOf
<1>5. EntriesIn(blk', obj'[d]) = EntriesIn(blk, obj[d]) \cup {rec}
  <2>1. Gains(blk, obj[d], blk', obj'[d], rec)
    BY DEF RecordsAdd
  <2> HIDE DEF rec
  <2>2. QED  BY <1>4, <2>1, EntriesGain
<1>6. \A q \in LinkedIn(obj) \ {d} : EntriesIn(blk', obj'[q]) = EntriesIn(blk, obj[q])
  BY <1>1, <1>3, EntriesSame DEF RecordsKept, LinkedIn
<1>7. obj'[o].dir => EntriesIn(blk', obj'[o]) = {}
  <2>1. obj'[o].dir => OnlyDots(blk', obj'[o], i, obj[d].ino)
    BY DEF RecordsAdd
  <2>2. QED  BY <2>1 DEF OnlyDots, EntriesIn
<1>8. \A q \in LinkedIn(obj) : obj'[q].ino = obj[q].ino /\ obj'[q].dir = obj[q].dir
  BY <1>1, <1>2 DEF LinkedIn
<1> HIDE DEF rec, x
<1>9. TreeIn(blk', obj') = TreeIn(blk, obj) \cup {x}
  <2>1. ASSUME NEW y \in TreeIn(blk', obj') PROVE y \in TreeIn(blk, obj) \cup {x}
    <3>1. PICK q \in LinkedIn(obj') : obj'[q].dir /\ \E r \in EntriesIn(blk', obj'[q]) : y = EntryOf(obj'[q].ino, r)
      BY DEF TreeIn
    <3>2. PICK r \in EntriesIn(blk', obj'[q]) : y = EntryOf(obj'[q].ino, r)
      BY <3>1
    <3>3. q \in LinkedIn(obj) /\ obj[q].dir /\ obj'[q].ino = obj[q].ino
      BY <1>3, <1>7, <1>8, <3>1, <3>2
    <3>4. CASE r \in EntriesIn(blk, obj[q])
      BY <3>2, <3>3, <3>4 DEF TreeIn
    <3>5. CASE r \notin EntriesIn(blk, obj[q])
      BY <1>4, <1>5, <1>6, <3>2, <3>3, <3>5
    <3>6. QED  BY <3>4, <3>5
  <2>2. ASSUME NEW y \in TreeIn(blk, obj) PROVE y \in TreeIn(blk', obj')
    <3>1. PICK q \in LinkedIn(obj) : obj[q].dir /\ \E r \in EntriesIn(blk, obj[q]) : y = EntryOf(obj[q].ino, r)
      BY DEF TreeIn
    <3>2. PICK r \in EntriesIn(blk, obj[q]) : y = EntryOf(obj[q].ino, r)
      BY <3>1
    <3>3. q \in LinkedIn(obj') /\ obj'[q].dir /\ obj'[q].ino = obj[q].ino /\ r \in EntriesIn(blk', obj'[q])
      BY <1>3, <1>5, <1>6, <1>8, <3>1
    <3>4. QED  BY <3>2, <3>3 DEF TreeIn
  <2>3. x \in TreeIn(blk', obj')
    <3>1. rec \in EntriesIn(blk', obj'[d]) /\ x = EntryOf(obj'[d].ino, rec)
      BY <1>1, <1>4, <1>5
    <3>2. d \in {s \in LinkedIn(obj') : obj'[s].dir}
      BY <1>1, <1>3
    <3>3. QED  BY <3>1, <3>2, InTree
  <2>4. QED  BY <2>1, <2>2, <2>3
<1>10. obj[d].ino \in DirsIn(obj) /\ i \notin DirsIn(obj) \cup FilesIn(obj)
  BY <1>1, <1>2, <1>3 DEF DirsIn, FilesIn
<1>11. ASSUME NEW y \in TreeIn(blk, obj), y.dir = obj[d].ino, y.name = name
       PROVE  FALSE
  <2>1. PICK q \in LinkedIn(obj) : obj[q].dir /\ \E r \in EntriesIn(blk, obj[q]) : y = EntryOf(obj[q].ino, r)
    BY DEF TreeIn
  <2>2. PICK r \in EntriesIn(blk, obj[q]) : y = EntryOf(obj[q].ino, r)
    BY <2>1
  <2>3. obj[q].ino = obj[d].ino /\ r.name = name
    BY <1>11, <2>2 DEF EntryOf
  <2>4. r \in EntriesIn(blk, obj[d])
    BY <1>2, <1>3, <2>3
  <2>5. QED  BY <2>3, <2>4, NameIsNew DEF EntriesIn
<1>12. CASE obj'[o].dir
  <2>1. {s \in LinkedIn(obj') : obj'[s].dir} = {s \in LinkedIn(obj) : obj[s].dir} \cup {o}
        /\ {s \in LinkedIn(obj') : ~ obj'[s].dir} = {s \in LinkedIn(obj) : ~ obj[s].dir}
    BY <1>3, <1>8, <1>12
  <2>2. DirsIn(obj') = DirsIn(obj) \cup {i} /\ FilesIn(obj') = FilesIn(obj)
    BY <1>1, <1>8, <2>1 DEF DirsIn, FilesIn
  <2>3. QED  BY <1>1, <1>9, <1>10, <1>11, <2>2 DEF x
<1>13. CASE ~ obj'[o].dir
  <2>1. {s \in LinkedIn(obj') : obj'[s].dir} = {s \in LinkedIn(obj) : obj[s].dir}
        /\ {s \in LinkedIn(obj') : ~ obj'[s].dir} = {s \in LinkedIn(obj) : ~ obj[s].dir} \cup {o}
    BY <1>3, <1>8, <1>13
  <2>2. FilesIn(obj') = FilesIn(obj) \cup {i} /\ DirsIn(obj') = DirsIn(obj)
    BY <1>1, <1>8, <2>1 DEF DirsIn, FilesIn
  <2>3. QED  BY <1>1, <1>9, <1>10, <1>11, <2>2 DEF x
<1>14. QED  BY <1>12, <1>13

\* A name that goes is an entry less, and a directory that goes had none.
LEMMA RemovesTree ==
  ASSUME RecordsFit, BlocksFit', NEW e \in dent, RecordsRemove(e)
  PROVE  LET x == [dir |-> obj[e.par].ino, name |-> e.name, ino |-> obj[e.child].ino]
         IN  /\ x \in TreeIn(blk, obj) /\ TreeIn(blk', obj') = TreeIn(blk, obj) \ {x}
             /\ \/ /\ x.ino \in FilesIn(obj)
                   /\ FilesIn(obj') = FilesIn(obj) \ {x.ino} /\ DirsIn(obj') = DirsIn(obj)
                \/ /\ x.ino \in DirsIn(obj) /\ ~ \E y \in TreeIn(blk, obj) : y.dir = x.ino
                   /\ DirsIn(obj') = DirsIn(obj) \ {x.ino} /\ FilesIn(obj') = FilesIn(obj)
<1> DEFINE d == e.par
           c == e.child
           x == [dir |-> obj[d].ino, name |-> e.name, ino |-> obj[c].ino]
           rec == RecordIn(obj, e)
<1>1. /\ c \in Objs /\ d \in Objs /\ e.name \in Names /\ c # d /\ obj[c].nlink > 0 /\ obj[c].dir \in BOOLEAN
      /\ \A f \in dent : (f.par = d /\ f.name = e.name) => f = e
  BY DEF RecordsFit, BlocksFit, TreeFits, NamesFit, Good, WellFormed, Inode, Dentry
<1>2. /\ ~ (obj'[c].nlink > 0) /\ obj[d].nlink > 0 /\ obj[d].dir
      /\ obj'[d].ino = obj[d].ino /\ obj'[d].dir = obj[d].dir
      /\ \A q \in Objs \ {d, c} : /\ obj'[q].ino = obj[q].ino /\ obj'[q].dir = obj[q].dir
                                  /\ obj'[q].nlink = obj[q].nlink /\ RecordsKept(q)
  BY DEF RecordsRemove, StepRemoves, SameLinks, RecordsFit, BlocksFit, TreeFits, NamesFit
<1>3. obj'[d].nlink > 0
  <2>1. obj[d].nlink = 2 + Cardinality(SubDirs(obj, dent, d)) /\ IsFiniteSet(SubDirs(obj, dent, d))
    BY <1>1, <1>2, FS_Subset DEF RecordsFit, BlocksFit, TreeFits, LinksFit, SubDirs
  <2>2. Cardinality(SubDirs(obj, dent, d)) \in Nat
    BY <2>1, FS_CardinalityType
  <2>3. obj'[d].nlink = Pred(obj[d].nlink) \/ obj'[d].nlink = obj[d].nlink
    BY DEF RecordsRemove, StepRemoves
  <2>4. QED  BY <2>1, <2>2, <2>3 DEF Pred
<1>4. \A q, s \in LinkedIn(obj) : obj[q].ino = obj[s].ino => q = s
  BY DEF RecordsFit, BlocksFit, TreeFits, NumbersFit, LinkedIn
<1>5. LinkedIn(obj') = LinkedIn(obj) \ {c} /\ d \in LinkedIn(obj) /\ c \in LinkedIn(obj)
  BY <1>1, <1>2, <1>3 DEF LinkedIn
<1>6. \A q \in LinkedIn(obj) \ {c} : obj'[q].ino = obj[q].ino /\ obj'[q].dir = obj[q].dir
  BY <1>2 DEF LinkedIn
<1>7. PICK p \in Used(blk, obj[d]) :
        At(blk, obj[d], p).name = e.name /\ Loses(blk, obj[d], blk', obj'[d], p)
  BY DEF RecordsRemove
<1>8. LiveDir(blk, obj, dent, d)
  BY <1>1, <1>2 DEF RecordsFit, LiveFit
<1>9. At(blk, obj[d], p) = rec /\ EntryOf(obj[d].ino, rec) = x /\ rec.name = e.name
  <2>1. PICK f \in dent : f.par = d /\ At(blk, obj[d], p) = RecordIn(obj, f)
    BY <1>1, <1>7, <1>8, DotsDiffer DEF LiveDir
  <2>2. f = e
    BY <1>1, <1>7, <2>1 DEF RecordIn
  <2>3. QED  BY <2>1, <2>2 DEF RecordIn, EntryOf
<1>10. EntriesIn(blk', obj'[d]) = EntriesIn(blk, obj[d]) \ {rec} /\ rec \in EntriesIn(blk, obj[d])
  <2>1. At(blk, obj[d], p).name \notin {Dot, DotDot}
    BY <1>1, <1>7, DotsDiffer
  <2>2. \A q \in Used(blk, obj[d]) : At(blk, obj[d], q).name = At(blk, obj[d], p).name => q = p
    BY <1>8 DEF LiveDir
  <2>3. EntriesIn(blk', obj'[d]) = EntriesIn(blk, obj[d]) \ {At(blk, obj[d], p)}
    BY <1>7, <2>1, <2>2, EntriesLose
  <2>4. At(blk, obj[d], p) \in EntriesIn(blk, obj[d])
    BY <2>1 DEF EntriesIn
  <2>5. QED  BY <1>9, <2>3, <2>4
<1>11. \A r \in EntriesIn(blk, obj[d]) : r.name = e.name => r = rec
  <2>1. TAKE r \in EntriesIn(blk, obj[d])
  <2>2. HAVE r.name = e.name
  <2>3. PICK q \in Used(blk, obj[d]) : r = At(blk, obj[d], q)
    BY DEF EntriesIn
  <2>4. q = p
    BY <1>7, <1>8, <2>2, <2>3 DEF LiveDir
  <2>5. QED  BY <1>9, <2>3, <2>4
<1>12. \A q \in LinkedIn(obj) \ {c, d} : EntriesIn(blk', obj'[q]) = EntriesIn(blk, obj[q])
  BY <1>2, EntriesSame DEF RecordsKept, LinkedIn
<1>13. obj[c].dir => EntriesIn(blk, obj[c]) = {}
  BY DEF RecordsRemove, EntriesIn
<1> HIDE DEF rec
<1> DEFINE Dirs == {s \in LinkedIn(obj) : obj[s].dir}
<1>14. {s \in LinkedIn(obj') : obj'[s].dir} = Dirs \ {c}
  BY <1>5, <1>6
<1>15. x \in TreeIn(blk, obj)
  BY <1>2, <1>5, <1>9, <1>10, InTree
<1>16. TreeIn(blk', obj') = TreeIn(blk, obj) \ {x}
  <2>1. ASSUME NEW y \in TreeIn(blk', obj') PROVE y \in TreeIn(blk, obj) /\ y # x
    <3>1. PICK q \in Dirs \ {c} : \E r \in EntriesIn(blk', obj'[q]) : y = EntryOf(obj'[q].ino, r)
      BY <1>14, InTree
    <3>2. PICK r \in EntriesIn(blk', obj'[q]) : y = EntryOf(obj'[q].ino, r)
      BY <3>1
    <3>3. obj'[q].ino = obj[q].ino /\ r \in EntriesIn(blk, obj[q])
      BY <1>6, <1>10, <1>12
    <3>4. y \in TreeIn(blk, obj)
      BY <3>2, <3>3, InTree
    <3>5. ASSUME y = x PROVE FALSE
      <4>1. obj[q].ino = obj[d].ino /\ r.name = e.name
        BY <3>2, <3>3, <3>5 DEF EntryOf
      <4>2. q = d
        BY <1>4, <1>5, <4>1
      <4>3. QED  BY <1>10, <1>11, <3>3, <4>1, <4>2
    <3>6. QED  BY <3>4, <3>5
  <2>2. ASSUME NEW y \in TreeIn(blk, obj), y # x PROVE y \in TreeIn(blk', obj')
    <3>1. PICK q \in Dirs : \E r \in EntriesIn(blk, obj[q]) : y = EntryOf(obj[q].ino, r)
      BY InTree
    <3>2. PICK r \in EntriesIn(blk, obj[q]) : y = EntryOf(obj[q].ino, r)
      BY <3>1
    <3>3. q # c
      BY <1>13, <3>2
    <3>4. r \in EntriesIn(blk', obj'[q])
      BY <1>9, <1>10, <1>12, <2>2, <3>2, <3>3
    <3>5. obj'[q].ino = obj[q].ino
      BY <1>6, <3>3
    <3>6. QED  BY <1>14, <3>2, <3>3, <3>4, <3>5, InTree
  <2>3. QED  BY <1>15, <2>1, <2>2
<1>17. x.ino = obj[c].ino
  OBVIOUS
<1> HIDE DEF x
<1>18. CASE ~ obj[c].dir
  <2>1. {s \in LinkedIn(obj') : ~ obj'[s].dir} = {s \in LinkedIn(obj) : ~ obj[s].dir} \ {c} /\ c \notin Dirs
    BY <1>5, <1>6, <1>18
  <2>2. FilesIn(obj') = FilesIn(obj) \ {obj[c].ino} /\ obj[c].ino \in FilesIn(obj)
    BY <1>4, <1>5, <1>6, <1>18, <2>1 DEF FilesIn
  <2>3. DirsIn(obj') = DirsIn(obj)
    BY <1>6, <1>14, <2>1 DEF DirsIn
  <2>4. QED  BY <1>15, <1>16, <1>17, <2>2, <2>3 DEF x
<1>19. CASE obj[c].dir
  <2>1. {s \in LinkedIn(obj') : ~ obj'[s].dir} = {s \in LinkedIn(obj) : ~ obj[s].dir} /\ c \in Dirs
    BY <1>5, <1>6, <1>19
  <2>2. DirsIn(obj') = DirsIn(obj) \ {obj[c].ino} /\ obj[c].ino \in DirsIn(obj)
    BY <1>4, <1>5, <1>6, <1>14, <2>1 DEF DirsIn
  <2>3. FilesIn(obj') = FilesIn(obj)
    BY <1>6, <2>1 DEF FilesIn
  <2>4. ASSUME NEW y \in TreeIn(blk, obj), y.dir = obj[c].ino PROVE FALSE
    <3>1. PICK q \in Dirs : \E r \in EntriesIn(blk, obj[q]) : y = EntryOf(obj[q].ino, r)
      BY InTree
    <3>2. PICK r \in EntriesIn(blk, obj[q]) : y = EntryOf(obj[q].ino, r)
      BY <3>1
    <3>3. q = c
      BY <1>4, <1>5, <2>4, <3>2 DEF EntryOf
    <3>4. QED  BY <1>13, <1>19, <3>2, <3>3
  <2>5. QED  BY <1>15, <1>16, <1>17, <2>2, <2>3, <2>4 DEF x
<1>20. QED  BY <1>1, <1>18, <1>19

\* The mounted image is the tree of the root alone.
LEMMA InitMaps == Init => Tree!NSInit
<1> SUFFICES ASSUME Init PROVE Tree!NSInit
  OBVIOUS
<1>1. RootObj \in Objs /\ RootIno # 0
  BY FSAssumption DEF RootIno
<1>2. obj = [o \in Objs |-> IF o = RootObj THEN NewInode(RootIno, TRUE, 2) ELSE NoInode]
  BY DEF Init
<1>3. /\ \A o \in Objs \ {RootObj} : obj[o].nlink = 0
      /\ obj[RootObj].ino = RootIno /\ obj[RootObj].dir = TRUE /\ obj[RootObj].nlink = 2
      /\ obj[RootObj].ptr = [k \in Index |-> 0]
  BY <1>1, <1>2 DEF NewInode, NoInode
<1>4. LinkedDirs = {RootObj} /\ {q \in Objs : Linked(q) /\ ~ obj[q].dir} = {}
  BY <1>1, <1>3 DEF LinkedDirs, Linked, Live
<1>5. Entries(RootObj) = {}
  BY <1>3 DEF Entries, EntryPlaces, Places
<1>6. TreeDirs = {RootIno} /\ TreeFiles = {} /\ TreeEntry = {}
  BY <1>3, <1>4, <1>5 DEF TreeDirs, TreeFiles, TreeEntry
<1>7. QED  BY <1>6 DEF Tree!NSInit

\* A step that changes names is a step of the tree, and no other is seen in it.
LEMMA NextMaps ==
  ASSUME NamesAreKept, AllFits, RoomLeft, WholeNext
  PROVE  [Tree!NSNext]_(Tree!nsvars)
<1>1. RecordsFit /\ BlocksFit /\ BlocksFit'
  BY BlocksFitHolds DEF AllFits, RecordsFit
<1>2. /\ TreeDirs = DirsIn(obj) /\ TreeDirs' = DirsIn(obj')
      /\ TreeFiles = FilesIn(obj) /\ TreeFiles' = FilesIn(obj')
      /\ TreeEntry = TreeIn(blk, obj) /\ TreeEntry' = TreeIn(blk', obj')
  BY <1>1, TreeAre
<1>3. CASE RecordsKeep
  <2>1. LinkedIn(obj') = LinkedIn(obj)
    BY <1>3 DEF RecordsKeep, StepKeeps, SameLinks, LinkedIn
  <2>2. \A q \in LinkedIn(obj) : /\ obj'[q].ino = obj[q].ino /\ obj'[q].dir = obj[q].dir
                                 /\ obj[q].dir => RecordsKept(q)
    BY <1>3 DEF RecordsKeep, StepKeeps, SameLinks, LinkedIn
  <2>3. QED  BY <1>2, <2>1, <2>2, SameTree DEF Tree!nsvars
<1>4. CASE \E o \in Objs : RecordsForget(o)
  <2>1. PICK o \in Objs : RecordsForget(o)
    BY <1>4
  <2>2. o # RootObj /\ (\A e \in dent : e.child # o) /\ obj'[o].nlink = 0
        /\ \A q \in Objs \ {o} : /\ obj'[q].ino = obj[q].ino /\ obj'[q].dir = obj[q].dir
                                 /\ obj'[q].nlink = obj[q].nlink /\ RecordsKept(q)
    BY <2>1 DEF RecordsForget, StepForgets, SameLinks
  <2>3. ~ (obj[o].nlink > 0)
    BY <1>1, <2>2 DEF RecordsFit, Reached
  <2>4. LinkedIn(obj') = LinkedIn(obj) /\ o \notin LinkedIn(obj)
    BY <2>2, <2>3 DEF LinkedIn
  <2>5. \A q \in LinkedIn(obj) : /\ obj'[q].ino = obj[q].ino /\ obj'[q].dir = obj[q].dir
                                 /\ obj[q].dir => RecordsKept(q)
    BY <2>2, <2>4 DEF LinkedIn
  <2>6. QED  BY <1>2, <2>4, <2>5, SameTree DEF Tree!nsvars
<1>5. CASE \E d, o \in Objs, name \in Names : \E i : RecordsAdd(d, name, o, i)
  <2>1. PICK d \in Objs, o \in Objs, name \in Names : \E i : RecordsAdd(d, name, o, i)
    BY <1>5
  <2>2. PICK i : RecordsAdd(d, name, o, i)
    BY <2>1
  <2>3. ~ NoRoom(blk, obj[d])
    <3>1. obj[d].nlink > 0 /\ obj[d].dir
      BY <2>2 DEF RecordsAdd, StepAdds
    <3>2. obj[d].ino # 0
      BY <1>1, <3>1 DEF BlocksFit, TreeFits, NamesFit
    <3>3. QED  BY <3>1, <3>2 DEF RoomLeft, LinkedDirs, Linked, Live
  <2> DEFINE n == obj[d].ino
  <2>4. /\ TreeEntry' = TreeEntry \cup {[dir |-> n, name |-> name, ino |-> i]}
        /\ n \in TreeDirs /\ i \notin TreeDirs \cup TreeFiles /\ i \in Inos
        /\ \A x \in TreeEntry : ~ (x.dir = n /\ x.name = name)
        /\ \/ TreeDirs' = TreeDirs \cup {i} /\ TreeFiles' = TreeFiles
           \/ TreeFiles' = TreeFiles \cup {i} /\ TreeDirs' = TreeDirs
    BY <1>1, <1>2, <2>2, <2>3, AddsTree
  <2> HIDE DEF n
  <2>5. Tree!CreateFile(n, name, i) \/ Tree!MakeDir(n, name, i)
    BY <2>4 DEF Tree!CreateFile, Tree!MakeDir, Tree!Absent, Tree!Enter
  <2>6. QED  BY <2>4, <2>5 DEF Tree!NSNext
<1>6. CASE \E e \in dent : RecordsRemove(e)
  <2>1. PICK e \in dent : RecordsRemove(e)
    BY <1>6
  <2> DEFINE x == [dir |-> obj[e.par].ino, name |-> e.name, ino |-> obj[e.child].ino]
  <2>2. /\ x \in TreeEntry /\ TreeEntry' = TreeEntry \ {x}
        /\ \/ /\ x.ino \in TreeFiles
              /\ TreeFiles' = TreeFiles \ {x.ino} /\ TreeDirs' = TreeDirs
           \/ /\ x.ino \in TreeDirs /\ ~ \E y \in TreeEntry : y.dir = x.ino
              /\ TreeDirs' = TreeDirs \ {x.ino} /\ TreeFiles' = TreeFiles
    BY <1>1, <1>2, <2>1, RemovesTree
  <2> HIDE DEF x
  <2>3. Tree!RemoveFile(x) \/ Tree!RemoveDir(x)
    BY <2>2 DEF Tree!RemoveFile, Tree!RemoveDir
  <2>4. QED  BY <2>2, <2>3 DEF Tree!NSNext
<1>7. QED  BY <1>1, <1>3, <1>4, <1>5, <1>6, WholeIsNotHalf, NextRecords

\* As long as no directory is out of room and no block half added, where names
\* are short, the records and inodes behave as a directory tree: each handler, with every
\* record it writes and clears, is one step of Namespace or none.
THEOREM RecordsAreATree ==
  NamesAreKept => (Spec /\ [][~ HalfAdded]_vars /\ []RoomLeft => ImplementsNamespace)
<1> SUFFICES ASSUME NamesAreKept
             PROVE  Spec /\ [][~ HalfAdded]_vars /\ []RoomLeft => ImplementsNamespace
  OBVIOUS
<1>1. AllFits /\ RoomLeft /\ WholeNext => AllFits'
  BY NextNamesRecorded
<1>2. AllFits /\ RoomLeft /\ WholeNext => [Tree!NSNext]_(Tree!nsvars)
  BY NextMaps
<1>3. QED  BY <1>1, <1>2, InitAllFits, InitMaps, PTL DEF Spec, WholeNext, ImplementsNamespace, Tree!NSSpec

----------------------------------------------------------------------------
(* Directories that cannot run out of room.                                *)

\* A directory has more records than there are names, with "." and "..".
NamesAreFew == IsFiniteSet(Names) /\ Cardinality(Names) + 2 < BlockPerFile * RecordsPerBlock

\* A directory without room would need a name for each of its records.
LEMMA FewNamesFit == NamesAreFew /\ RecordsFit => RoomLeft
<1> SUFFICES ASSUME NamesAreFew, RecordsFit, NEW d \in LinkedDirs, NoRoom(blk, obj[d])
             PROVE  FALSE
  BY DEF RoomLeft
<1> DEFINE places == Index \X Slot
           names  == (Names \cup {Dot}) \cup {DotDot}
           f      == [p \in places |-> At(blk, obj[d], p).name]
<1>1. d \in Objs /\ obj[d].nlink > 0 /\ obj[d].dir /\ LiveDir(blk, obj, dent, d) /\ Packed(obj[d])
  BY DEF LinkedDirs, Linked, RecordsFit, LiveFit, BlocksFit, TreeFits, Good, WellFormed
<1>2. Used(blk, obj[d]) = places
  <2>1. \A i \in Index : obj[d].ptr[i] # 0 /\ i <= obj[d].count
    BY <1>1 DEF NoRoom, Packed
  <2>2. Places(obj[d]) = places
    BY <2>1 DEF Places
  <2>3. QED  BY <2>2 DEF NoRoom, FreePlaces, Used
<1>3. \A p \in places : At(blk, obj[d], p).name \in names
  <2> TAKE p \in places
  <2>1. CASE At(blk, obj[d], p).name \in {Dot, DotDot}
    BY <2>1
  <2>2. CASE At(blk, obj[d], p).name \notin {Dot, DotDot}
    <3>1. PICK e \in dent : At(blk, obj[d], p) = RecordIn(obj, e)
      BY <1>1, <1>2, <2>2 DEF LiveDir
    <3>2. e.name \in Names
      BY DEF RecordsFit, BlocksFit, TreeFits, Good, Dentry
    <3>3. QED  BY <3>1, <3>2 DEF RecordIn
  <2>3. QED  BY <2>1, <2>2
<1>4. \A p, q \in places : At(blk, obj[d], p).name = At(blk, obj[d], q).name => p = q
  BY <1>1, <1>2 DEF LiveDir
<1>5. f \in Injection(places, names)
  <2> HIDE DEF places, names
  <2>1. QED  BY <1>3, <1>4 DEF Injection, IsInjective
<1>6. IsFiniteSet(names) /\ Cardinality(names) <= Cardinality(Names) + 2
  <2>1. /\ IsFiniteSet(Names \cup {Dot}) /\ Cardinality(Names) \in Nat
        /\ Cardinality(Names \cup {Dot}) \in {Cardinality(Names), Cardinality(Names) + 1}
    <3>1. IsFiniteSet(Names)
      BY DEF NamesAreFew
    <3>2. QED  BY <3>1, FS_AddElement, FS_CardinalityType
  <2>2. Cardinality(Names \cup {Dot}) \in Nat
    BY <2>1, FS_CardinalityType
  <2>3. /\ IsFiniteSet(names)
        /\ Cardinality(names) \in {Cardinality(Names \cup {Dot}), Cardinality(Names \cup {Dot}) + 1}
    BY <2>1, FS_AddElement
  <2>4. QED  BY <2>1, <2>2, <2>3
<1>7. Cardinality(places) = BlockPerFile * RecordsPerBlock
  <2>1. /\ IsFiniteSet(Index) /\ Cardinality(Index) = BlockPerFile
        /\ IsFiniteSet(Slot) /\ Cardinality(Slot) = RecordsPerBlock
    BY FSAssumption, FS_Interval DEF Index, Slot
  <2>2. QED  BY <2>1, FS_Product
<1>8. Cardinality(places) <= Cardinality(names)
  <2> HIDE DEF places, names, f
  <2>1. QED  BY <1>5, <1>6, FS_Injection
<1>9. Cardinality(names) \in Nat /\ Cardinality(Names) \in Nat /\ BlockPerFile * RecordsPerBlock \in Nat
  BY <1>6, FS_CardinalityType, FSAssumption DEF NamesAreFew
<1>10. QED  BY <1>6, <1>7, <1>8, <1>9 DEF NamesAreFew

\* Where directories have more records than there are names and names are
\* short, nothing is left to assume of the executions but that no block is
\* half added: every name has its record, and the records are a tree.
THEOREM SmallDirectoriesAreATree ==
  NamesAreKept /\ NamesAreFew =>
    (Spec /\ [][~ HalfAdded]_vars => []NamesAreRecorded /\ ImplementsNamespace)
<1> SUFFICES ASSUME NamesAreKept, NamesAreFew
             PROVE  Spec /\ [][~ HalfAdded]_vars => []NamesAreRecorded /\ ImplementsNamespace
  OBVIOUS
<1>1. RecordsFit => RoomLeft
  BY FewNamesFit
<1>2. (Init => RecordsFit) /\ (RecordsFit /\ WholeNext => RecordsFit')
  BY RecordsFitHolds
<1>3. Spec /\ [][~ HalfAdded]_vars => []RoomLeft
  BY <1>1, <1>2, PTL DEF Spec, WholeNext
<1>4. /\ Spec /\ [][~ HalfAdded]_vars /\ []RoomLeft => []NamesAreRecorded
      /\ Spec /\ [][~ HalfAdded]_vars /\ []RoomLeft => ImplementsNamespace
  BY NamesHaveRecords, RecordsAreATree
<1>5. QED  BY <1>3, <1>4

\* All of it where no read fails and names are shorter than 128 bytes: blocks
\* have one owner, file data stays, records are those of the names, and, as
\* long as every directory has room, every name is found and the names are
\* those of a tree.
THEOREM SoundWithoutReadErrors ==
  ~ IoErrors /\ NamesAreKept =>
    /\ Spec => /\ [](NoSharedBlock /\ OwnedBlocksMarked /\ RecordsAreLive /\ DotEntries)
               /\ FileBlocksStay /\ RecordsFollowNames
    /\ Spec /\ []RoomLeft => []NamesAreRecorded /\ ImplementsNamespace
<1> SUFFICES ASSUME ~ IoErrors, NamesAreKept
             PROVE  /\ Spec => /\ [](NoSharedBlock /\ OwnedBlocksMarked /\ RecordsAreLive /\ DotEntries)
                               /\ FileBlocksStay /\ RecordsFollowNames
                    /\ Spec /\ []RoomLeft => []NamesAreRecorded /\ ImplementsNamespace
  OBVIOUS
<1>1. Spec => [][~ HalfAdded]_vars
  BY NoErrorsNoHalfAdds
<1>2. Spec /\ [][~ HalfAdded]_vars => /\ [](NoSharedBlock /\ OwnedBlocksMarked)
                                      /\ [](RecordsAreLive /\ DotEntries)
                                      /\ FileBlocksStay /\ RecordsFollowNames
  BY NoBlockIsShared, RecordsAreOfNames, FileDataStays, OnlyNamesChangeRecords
<1>3. Spec /\ [][~ HalfAdded]_vars /\ []RoomLeft => []NamesAreRecorded /\ ImplementsNamespace
  BY NamesHaveRecords, RecordsAreATree
<1>4. QED  BY <1>1, <1>2, <1>3, PTL
============================================================================
