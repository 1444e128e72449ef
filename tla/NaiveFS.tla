------------------------------ MODULE NaiveFS ------------------------------
(***************************************************************************)
(* The mounted split Naive file system: the directory, inode and file      *)
(* handlers of src/naive/naivefs_{dir,inode,file,super}.c, each one atomic *)
(* (NaiveAllocRace takes two of them apart).                               *)
(*                                                                         *)
(* This module is the file system while the VFS keeps every dentry and     *)
(* inode object it was given: no dentry is reclaimed and no inode is read  *)
(* back from the inode table.  NaiveStore adds reclaim, naive_iget,        *)
(* write-back and remount.                                                 *)
(*                                                                         *)
(* Abstractions: file bytes are one value (FileBytes); times, owners and   *)
(* permission bits are left out; a call that returns an error without      *)
(* changing state is a stuttering step; NAIVE_I(inode) is the inode's own  *)
(* naive_inode_info.  The VFS (external) resolves names, refuses to work   *)
(* in a removed directory, and frees an inode object with its last user.   *)
(***************************************************************************)
EXTENDS NaiveAlloc, FiniteSets

CONSTANTS
  Objs,           \* struct inode objects the kernel may hold at once (a bound)
  RootObj,        \* the object naive_fill_super makes for the root
  Names,          \* file names
  Stored,         \* [Names -> Names]: a name cut to the 127 bytes a record keeps
  Dot, DotDot, NoName,   \* record names ".", ".." and the zeroed name
  FileBytes,      \* a block holding file data
  BlockSize,      \* NAIVE_BLOCK_SIZE
  BlockPerFile,   \* NAIVE_BLOCK_PER_FILE
  RecordsPerBlock,\* NAIVE_DIR_RECORDS_PER_BLOCK
  WriteLens,      \* the lengths of write(2) calls tried
  TruncSizes,     \* the sizes given to truncate(2)
  IoErrors        \* whether sb_bread may fail

ASSUME FSAssumption ==
  /\ RootObj \in Objs
  /\ Stored \in [Names -> Names]
  /\ {Dot, DotDot, NoName} \cap Names = {}
  /\ Cardinality({Dot, DotDot, NoName}) = 3
  /\ BlockSize \in Nat \ {0} /\ BlockPerFile \in Nat \ {0}
  /\ RecordsPerBlock \in Nat /\ RecordsPerBlock >= 2
  /\ WriteLens \subseteq Nat /\ TruncSizes \subseteq 0 .. (BlockSize * BlockPerFile)
  /\ IoErrors \in BOOLEAN
  /\ RootIno \in ScannedInos

Index       == 1 .. BlockPerFile
Slot        == 1 .. RecordsPerBlock
MaxFileSize == BlockSize * BlockPerFile     \* NAIVE_MAX_FILE_SIZE

Record == [ino : Inos \cup {0}, name : Names \cup {Dot, DotDot, NoName}]
EmptyRecord == [ino |-> 0, name |-> NoName]
ZeroBlock   == [j \in Slot |-> EmptyRecord]

\* The tag of file data is no block of records.
ASSUME TagAssumption == FileBytes \notin [Slot -> Record]

\* struct inode with its naive_inode_info; ino = 0 is an unused object.
Inode == [ino : Inos \cup {0}, dir : BOOLEAN, nlink : Nat, size : Nat,
          count : Nat, ptr : [Index -> Blocks \cup {0}],
          open : BOOLEAN, hashed : BOOLEAN, dirty : BOOLEAN]

NewInode(i, isdir, links) ==
  [ino |-> i, dir |-> isdir, nlink |-> links, size |-> 0, count |-> 0,
   ptr |-> [k \in Index |-> 0], open |-> FALSE, hashed |-> FALSE,
   dirty |-> FALSE]
NoInode == NewInode(0, FALSE, 0)

VARIABLES
  imap,   \* inode_bitmap: the inode numbers in use
  bmap,   \* block_bitmap: the data blocks in use
  obj,    \* [Objs -> Inode]: the inode objects in memory
  dent,   \* positive dentries: [par, name, child]
  blk     \* [Blocks -> records or FileBytes]: the buffers of the data blocks

vars == <<imap, bmap, obj, dent, blk>>

Live == {o \in Objs : obj[o].ino # 0}
Dentry == [par : Objs, name : Names, child : Objs]

\* naive_fill_super on the image kept in the repository, the one that mounts
\* (NaiveMkfs): no block of the data area is marked, and the root has no
\* block, whatever its disk inode says.
Init ==
  /\ imap = {RootIno}
  /\ bmap = {}
  /\ obj = [o \in Objs |-> IF o = RootObj THEN NewInode(RootIno, TRUE, 2) ELSE NoInode]
  /\ dent = {}
  /\ blk = [b \in Blocks |-> ZeroBlock]
----------------------------------------------------------------------------
\* Directory records.

\* What a block says when it is read as directory records.
RecordsIn(bl, b) == IF bl[b] = FileBytes THEN ZeroBlock ELSE bl[b]

\* Places <<i, j>>: record j of the i-th block a directory's scan visits.
Places(node) == {p \in Index \X Slot : p[1] <= node.count /\ node.ptr[p[1]] # 0}
At(bl, node, p) == RecordsIn(bl, node.ptr[p[1]])[p[2]]

Before(p, q) == p[1] < q[1] \/ (p[1] = q[1] /\ p[2] <= q[2])
FirstOf(S)   == {p \in S : \A q \in S : Before(p, q)}

FreePlaces(bl, node)    == {p \in Places(node) : At(bl, node, p).ino = 0}
Matches(bl, node, name) == {p \in Places(node) : At(bl, node, p).ino # 0
                                                 /\ At(bl, node, p).name = name}

Put(bl, node, p, rec) ==
  [bl EXCEPT ![node.ptr[p[1]]] = [RecordsIn(bl, node.ptr[p[1]]) EXCEPT ![p[2]] = rec]]

\* Faulty: as if new inodes were in the inode hash.
MarkDirtyHashed(node) == [node EXCEPT !.dirty = TRUE]

\* __mark_inode_dirty queues only an inode that is in the inode hash, and
\* neither new_inode nor naive_alloc_inode puts it there.
MarkDirty(node) == [node EXCEPT !.dirty = node.hashed]

\* Faulty: block_count is not counted up; the last zero pointer is taken.
AttachUncounted(node, b) ==
  {[node EXCEPT !.ptr = [node.ptr EXCEPT ![i] = b]] : i \in {k \in Index : node.ptr[k] = 0}}
AttachLast(node, b) ==
  {[node EXCEPT !.ptr = [node.ptr EXCEPT ![i] = b], !.count = @ + 1] :
       i \in {k \in Index : node.ptr[k] = 0 /\ \A l \in Index : node.ptr[l] = 0 => l <= k}}

\* The pointer array of add_entry takes the new block at its first zero
\* pointer; when there is none the block is used without being attached.
Attach(node, b) ==
  LET zeros == {i \in Index : node.ptr[i] = 0} IN
  {n \in {node} : zeros = {}} \cup
  {[node EXCEPT !.ptr = [node.ptr EXCEPT ![i] = b], !.count = @ + 1] :
       i \in {k \in zeros : \A l \in zeros : k <= l}}

\* naive_add_entry on directory inode node: the possible results.
AddEntry(node, name, i, bm, bl) ==
  LET new   == [ino |-> i, name |-> Stored[name]]
      free  == FreePlaces(bl, node)
      taken == {b \in AllocBlock(bm) : free = {}}
      Result(ok, m, n, d) == [ok |-> ok, bmap |-> m, node |-> n, blk |-> d]
  IN  {Result(TRUE, bm, node, Put(bl, node, p, new)) : p \in FirstOf(free)}
      \cup {r \in {Result(FALSE, bm, node, bl)} :
              \/ IoErrors /\ Places(node) # {}
              \/ free = {} /\ AllocBlock(bm) = {}}
      \cup (UNION {{Result(TRUE, bm \cup {b}, MarkDirty([n EXCEPT !.size = @ + BlockSize]),
                          [bl EXCEPT ![b] = [ZeroBlock EXCEPT ![1] = new]])
                      : n \in Attach(node, b)} : b \in taken})
      \cup (UNION {{Result(FALSE, bm, n, bl) : n \in Attach(node, b)}
                   : b \in {c \in taken : IoErrors}})
----------------------------------------------------------------------------
\* The VFS contract (external).

ChildrenOf(o) == {e \in dent : e.par = o}

\* An object is reached by a name, as the root, by a handle, or from a child.
Named(o) == o = RootObj \/ \E e \in dent : e.child = o
Forget(os, o) == IF os[o].open \/ ChildrenOf(o) # {} THEN os ELSE [os EXCEPT ![o] = NoInode]

\* create and mkdir run in a live directory after a lookup found nothing;
\* naive_lookup skips a block it cannot read.
MayCreate(d, name) ==
  /\ obj[d].dir /\ obj[d].nlink > 0
  /\ ~ \E e \in dent : e.par = d /\ e.name = name
  /\ Matches(blk, obj[d], name) = {} \/ IoErrors

\* open(2), or a working directory, and the close that ends it.
Open(o) ==
  /\ o \in Live /\ ~ obj[o].open /\ Named(o)
  /\ obj' = [obj EXCEPT ![o].open = TRUE]
  /\ UNCHANGED <<imap, bmap, dent, blk>>

Close(o) ==
  /\ obj[o].open
  /\ LET closed == [obj EXCEPT ![o].open = FALSE] IN
     obj' = IF Named(o) THEN closed ELSE Forget(closed, o)
  /\ UNCHANGED <<imap, bmap, dent, blk>>
----------------------------------------------------------------------------
\* naive_create: the inode bit is set before the entry is added and stays
\* set when adding it fails.
Create(d, name, o) ==
  /\ MayCreate(d, name) /\ obj[o].ino = 0
  /\ \E i \in FindFreeInode(imap) :
       /\ imap' = imap \cup {i}
       /\ \E r \in AddEntry(obj[d], name, i, bmap, blk) :
            /\ bmap' = r.bmap
            /\ blk' = r.blk
            /\ IF r.ok
               THEN /\ obj' = [obj EXCEPT ![d] = r.node, ![o] = NewInode(i, FALSE, 1)]
                    /\ dent' = dent \cup {[par |-> d, name |-> name, child |-> o]}
               ELSE /\ obj' = [obj EXCEPT ![d] = r.node]
                    /\ UNCHANGED dent

\* Faulty: ".." names the directory itself.
DotBlockSelf(i, parent) ==
  [ZeroBlock EXCEPT ![1] = [ino |-> i, name |-> Dot], ![2] = [ino |-> i, name |-> DotDot]]

\* The first block of a new directory.
DotBlock(i, parent) ==
  [ZeroBlock EXCEPT ![1] = [ino |-> i, name |-> Dot], ![2] = [ino |-> parent, name |-> DotDot]]

\* naive_mkdir: the first block is taken before the entry is added and given
\* back when adding it fails; the inode bit is not.
Mkdir(d, name, o) ==
  /\ MayCreate(d, name) /\ obj[o].ino = 0
  /\ \E i \in FindFreeInode(imap), b \in AllocBlock(bmap) :
       LET filled == [blk EXCEPT ![b] = DotBlock(i, obj[d].ino)]
           node   == [NewInode(i, TRUE, 2) EXCEPT !.size = BlockSize, !.count = 1, !.ptr[1] = b]
       IN  /\ imap' = imap \cup {i}
           /\ \E r \in AddEntry(obj[d], name, i, bmap \cup {b}, filled) :
                /\ blk' = r.blk
                /\ IF r.ok
                   THEN /\ bmap' = r.bmap
                        /\ obj' = [obj EXCEPT ![d] = MarkDirty([r.node EXCEPT !.nlink = @ + 1]),
                                              ![o] = node]
                        /\ dent' = dent \cup {[par |-> d, name |-> name, child |-> o]}
                   ELSE /\ bmap' = r.bmap \ {b}
                        /\ obj' = [obj EXCEPT ![d] = r.node]
                        /\ UNCHANGED dent

\* The blocks the release loop of unlink and rmdir gives back.
OwnBlocks(node) == {node.ptr[i] : i \in {k \in Index : k <= node.count}} \ {0}

\* Faulty: the pointers and their count stay.
ReleasedKept(node) == [node EXCEPT !.nlink = 0, !.size = 0]

\* Faulty: i_size is not reset.
ReleasedSized(node) ==
  [node EXCEPT !.ptr = [i \in Index |-> IF i <= node.count THEN 0 ELSE node.ptr[i]],
               !.count = 0, !.nlink = 0]

\* The inode after unlink or rmdir.
Released(node) ==
  [node EXCEPT !.ptr = [i \in Index |-> IF i <= node.count THEN 0 ELSE node.ptr[i]],
               !.count = 0, !.nlink = 0, !.size = 0]

\* Faulty: the name is cleared and the inode number is not.
ClearNameOnly(bl, node, p) == Put(bl, node, p, [At(bl, node, p) EXCEPT !.name = NoName])

\* naive_remove_entry clears the record it found.
ClearRecord(bl, node, p) == Put(bl, node, p, EmptyRecord)

\* naive_remove_entry finds the record at p, then the blocks and the inode
\* number are released; the object lives on while it is in use.
Remove(e, p, parent) ==
  /\ blk' = ClearRecord(blk, obj[e.par], p)
  /\ bmap' = bmap \ OwnBlocks(obj[e.child])
  /\ imap' = imap \ {obj[e.child].ino}
  /\ dent' = dent \ {e}
  /\ LET left == [obj EXCEPT ![e.par] = parent] IN
     obj' = Forget([left EXCEPT ![e.child] = Released(@)], e.child)

\* naive_unlink
Unlink(e) ==
  /\ obj[e.par].nlink > 0 /\ ~ obj[e.child].dir
  /\ \E p \in FirstOf(Matches(blk, obj[e.par], e.name)) : Remove(e, p, obj[e.par])

\* Faulty: no test.
IsEmptyDirUntested(node) == TRUE

\* naive_rmdir: the directory must hold no record besides "." and "..".
IsEmptyDir(node) ==
  \A p \in Places(node) : At(blk, node, p).ino # 0 => At(blk, node, p).name \in {Dot, DotDot}

\* Faulty: rmdir without drop_nlink.
PredUnchanged(n) == n

Pred(n) == IF n = 0 THEN 0 ELSE n - 1   \* drop_nlink

Rmdir(e) ==
  /\ obj[e.par].nlink > 0 /\ obj[e.child].dir
  /\ IsEmptyDir(obj[e.child])
  /\ \E p \in FirstOf(Matches(blk, obj[e.par], e.name)) :
       Remove(e, p, MarkDirty([obj[e.par] EXCEPT !.nlink = Pred(@)]))
----------------------------------------------------------------------------
\* Files.

CeilDiv(n)   == (n + BlockSize - 1) \div BlockSize
Least(a, b)  == IF a <= b THEN a ELSE b

\* Faulty: the scan ignores the bitmap.
LowestUnchecked(bm, k) == {[i \in 1 .. k |-> DataStart + i - 1]}

\* The k lowest free blocks, in the order the allocation loop takes them.
LowestFree(bm, k) ==
  {f \in [1 .. k -> FreeBlocks(bm)] :
     /\ \A i, j \in 1 .. k : i < j => f[i] < f[j]
     /\ \A b \in FreeBlocks(bm) : (\A i \in 1 .. k : f[i] # b) => \A i \in 1 .. k : f[i] < b}

\* needed_blocks of naive_file_write, computed from the size and not from
\* the number of blocks the file already has.
NeededBlocks(node, end) ==
  IF end > node.size THEN CeilDiv(end) - (node.size \div BlockSize) ELSE 0

\* Faulty: every new pointer takes the first block.
ExtendSame(node, k, f) ==
  [node EXCEPT !.count = @ + k,
               !.ptr = [i \in Index |-> IF i > node.count /\ i <= node.count + k
                                        THEN f[1] ELSE node.ptr[i]]]

\* The new blocks follow the ones the file has.
Extend(node, k, f) ==
  [node EXCEPT !.count = @ + k,
               !.ptr = [i \in Index |-> IF i > node.count /\ i <= node.count + k
                                        THEN f[i - node.count] ELSE node.ptr[i]]]

\* Where the copy loop stops: at the end of the request, at the last block
\* the file has, or, when a block cannot be read, at that block's start.
StopsAt(node, pos, end) ==
  LET have == node.count * BlockSize
      last == IF pos >= have THEN pos ELSE Least(end, have)
  IN  {last} \cup {q \in pos .. last : IoErrors /\ (q = pos \/ q % BlockSize = 0)}

\* The blocks that hold the bytes pos .. stop - 1.
Written(node, pos, stop) ==
  {node.ptr[i] : i \in {k \in Index : k <= node.count /\ pos < k * BlockSize
                                      /\ stop > (k - 1) * BlockSize /\ stop > pos}}

\* naive_file_write.  When the allocation loop fails, the blocks it attached
\* stay and nothing is written.
FileWrite(o, pos, len) ==
  /\ obj[o].open /\ ~ obj[o].dir
  /\ pos + len <= MaxFileSize
  /\ LET end    == pos + len
         needed == NeededBlocks(obj[o], end)
         got    == Least(needed, Least(BlockPerFile - obj[o].count,
                                       Cardinality(FreeBlocks(bmap))))
     IN  \E f \in LowestFree(bmap, got) :
           LET node == Extend(obj[o], got, f) IN
           /\ bmap' = bmap \cup {f[i] : i \in 1 .. got}
           /\ IF got < needed
              THEN obj' = [obj EXCEPT ![o] = node] /\ UNCHANGED blk
              ELSE \E stop \in StopsAt(node, pos, end) :
                     /\ obj' = [obj EXCEPT ![o] = IF stop > node.size
                                  THEN MarkDirty([node EXCEPT !.size = stop]) ELSE node]
                     /\ blk' = [b \in Blocks |-> IF b \in Written(node, pos, stop)
                                                 THEN FileBytes ELSE blk[b]]
  /\ UNCHANGED <<imap, dent>>

\* naive_file_read: the position after reading len bytes from pos, when every
\* block can be read.  It stops at the last block the file has.
ReadStop(node, pos, len) ==
  IF pos >= node.size THEN pos
  ELSE LET end   == Least(pos + len, node.size)
           holes == {q \in pos .. end - 1 : \A i \in Index :
                       i = q \div BlockSize + 1 => i > node.count \/ node.ptr[i] = 0}
       IN  CHOOSE q \in holes \cup {end} : \A h \in holes \cup {end} : q <= h

\* truncate(2): naive_file_iops has no setattr, so the VFS (external) runs
\* simple_setattr, which sets the size and keeps the blocks.
Truncate(o, size) ==
  /\ o \in Live /\ ~ obj[o].dir /\ obj[o].open /\ size # obj[o].size
  /\ obj' = [obj EXCEPT ![o] = MarkDirty([@ EXCEPT !.size = size])]
  /\ UNCHANGED <<imap, bmap, dent, blk>>
----------------------------------------------------------------------------
Next ==
  \/ \E d \in Objs, o \in Objs, n \in Names : Create(d, n, o) \/ Mkdir(d, n, o)
  \/ \E e \in dent : Unlink(e) \/ Rmdir(e)
  \/ \E o \in Objs : Open(o) \/ Close(o)
  \/ \E o \in Objs, pos \in 0 .. MaxFileSize, len \in WriteLens : FileWrite(o, pos, len)
  \/ \E o \in Objs, s \in TruncSizes : Truncate(o, s)

Spec == Init /\ [][Next]_vars
----------------------------------------------------------------------------
\* Type invariant: also that every pointer of a file or directory lies in the
\* data area, so no handler ever writes over a bitmap or the inode table.
TypeOK ==
  /\ imap \subseteq Inos
  /\ bmap \subseteq Blocks
  /\ obj \in [Objs -> Inode]
  /\ dent \subseteq Dentry
  /\ blk \in [Blocks -> [Slot -> Record] \cup {FileBytes}]

Linked(o)  == o \in Live /\ obj[o].nlink > 0
LinkedDirs == {d \in Objs : Linked(d) /\ obj[d].dir}

\* The nonzero pointers are exactly the first block_count ones: the scans of
\* naivefs_dir.c stop at block_count and naive_file_write appends at it, while
\* add_entry fills the first zero pointer.
PointersPacked ==
  \A o \in Objs : /\ obj[o].count \in 0 .. BlockPerFile
                  /\ \A i \in Index : obj[o].ptr[i] # 0 <=> i <= obj[o].count

\* No block belongs to two inodes or twice to one, unlinked files still held
\* open included: freeing a file's blocks at unlink must not let a later
\* write through the old handle reach the block's next owner.
NoSharedBlock ==
  \A o, q \in Objs : \A i, k \in Index :
     obj[o].ptr[i] # 0 /\ obj[o].ptr[i] = obj[q].ptr[k] => o = q /\ i = k

\* Every block an inode points to is marked in the block bitmap: an owned
\* block that reads as free is handed out a second time.
OwnedBlocksMarked == \A o \in Objs : \A i \in Index : obj[o].ptr[i] \in bmap \cup {0}

BlockOwnership == PointersPacked /\ NoSharedBlock /\ OwnedBlocksMarked

\* Every byte below a file's size can be read in one read, unlinked files
\* still open included: no way the write loops end, and no unlink, leaves a
\* size the blocks do not reach.  (A truncate that enlarges the file does.)
ReadsReachTheEnd ==
  \A o \in Live : ~ obj[o].dir => ReadStop(obj[o], 0, obj[o].size) = obj[o].size

\* Two linked files or directories never have the same inode number, and the
\* number of each is marked in the inode bitmap, although unlink frees a
\* number whose object may live on and be joined by a new one.
LinkedInodeNumbers ==
  \A o, q \in Objs : Linked(o) =>
     /\ obj[o].ino \in imap
     /\ Linked(q) /\ obj[o].ino = obj[q].ino => o = q

\* A directory's link count is 2 plus its subdirectories, through failed
\* mkdirs and rmdirs.
DirLinkCount ==
  \A d \in LinkedDirs :
     obj[d].nlink = 2 + Cardinality({e \in ChildrenOf(d) : obj[e.child].dir})

EntryPlaces(d) == {p \in Places(obj[d]) : /\ At(blk, obj[d], p).ino # 0
                                          /\ At(blk, obj[d], p).name \notin {Dot, DotDot}}
RecordOf(e) == [ino |-> obj[e.child].ino, name |-> e.name]

\* The entries a directory's blocks hold.
Entries(d) == {At(blk, obj[d], p) : p \in EntryPlaces(d)}

\* Every name the VFS holds for a linked directory is a record of it: what was
\* created can be looked up, unlinked, and keeps rmdir from removing the
\* directory.
NamesAreRecorded == \A d \in LinkedDirs : \A e \in ChildrenOf(d) : RecordOf(e) \in Entries(d)

\* Conversely a record stands for a live object of that name, and no
\* directory holds a name twice: a stale or doubled record outlives its
\* unlink and names an inode number that was given to another file.
RecordsAreLive ==
  \A d \in LinkedDirs :
     /\ Entries(d) \subseteq {RecordOf(e) : e \in ChildrenOf(d)}
     /\ \A p, q \in EntryPlaces(d) :
          At(blk, obj[d], p).name = At(blk, obj[d], q).name => p = q

\* The first block of a linked directory opens with "." and "..", and they
\* name the directory and its parent.
DotEntries ==
  \A e \in dent : Linked(e.child) /\ obj[e.child].dir /\ Linked(e.par) =>
     /\ At(blk, obj[e.child], <<1, 1>>) = [ino |-> obj[e.child].ino, name |-> Dot]
     /\ At(blk, obj[e.child], <<1, 2>>) = [ino |-> obj[e.par].ino, name |-> DotDot]

\* A step changes the records of a directory only when it changes that
\* directory's names: no write to a file, no other directory's operation and
\* no failed operation reaches them.
RecordsFollowNames ==
  [][\A d \in LinkedDirs \cap LinkedDirs' :
       Entries(d)' # Entries(d) => ChildrenOf(d)' # ChildrenOf(d)]_vars

\* While a file keeps a block, its data there is not turned into anything
\* else: no directory operation, on any step, lands in it.
FileBlocksStay ==
  [][\A o \in Objs : ~ obj[o].dir =>
       \A b \in OwnBlocks(obj[o]) \cap OwnBlocks(obj[o]') :
          blk[b] = FileBytes => blk'[b] = FileBytes]_vars

\* The tree as the blocks of the directories tell it; dentries play no part.
TreeDirs  == {obj[d].ino : d \in LinkedDirs}
TreeFiles == {obj[o].ino : o \in {q \in Objs : Linked(q) /\ ~ obj[q].dir}}
TreeEntry == UNION {{[dir |-> obj[d].ino, name |-> r.name, ino |-> r.ino] : r \in Entries(d)}
                    : d \in LinkedDirs}

Tree == INSTANCE Namespace WITH
          Root <- RootIno, dirs <- TreeDirs, files <- TreeFiles, entry <- TreeEntry

\* The records and inodes behave as a directory tree: every step of the file
\* system is one step of Namespace or leaves the tree alone.
ImplementsNamespace == Tree!NSSpec
============================================================================
