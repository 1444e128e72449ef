----------------------------- MODULE NaiveMono -----------------------------
(***************************************************************************)
(* The monolithic naivefs of steps 7 and 8 (naivefs-8/naivefs.c): bitmaps  *)
(* and inode table are used in the buffers they were read into, so what a  *)
(* handler marks dirty survives an unmount and what it does not may not.   *)
(*                                                                         *)
(* Each handler is one step.  There are no directories but the root (no    *)
(* mkdir operation), and a name lives in the dcache only: simple_lookup    *)
(* makes dentries that are dropped with their last user, so a file has a   *)
(* name exactly while it is open and linked, and names need no variable.   *)
(*                                                                         *)
(* Two calls of the code have no defined outcome.  NAIVE_I is container_of *)
(* on an inode that new_inode made without the container: read, write and  *)
(* unlink either find what create stored, as they are meant to, or fault   *)
(* (Stray).  create's d_add of a dentry simple_lookup has hashed already   *)
(* is taken to bind the name.                                              *)
(*                                                                         *)
(* Left out: times, owners, modes; file bytes; the i_size of the VFS,      *)
(* which truncate changes and no handler reads.                            *)
(***************************************************************************)
EXTENDS Integers, FiniteSets, Functions, FiniteSetsExt

CONSTANTS
  Objs,          \* struct inode objects in memory at once (a bound)
  None,          \* an unused object
  InodesCount,   \* inode_total of the superblock
  DataStart,     \* data_block_no of the superblock
  BlocksCount,   \* block_total of the superblock
  SamePage,      \* inodes whose table block shares a page with the next one's
  BlockSize,     \* NAIVE_BLOCK_SIZE
  DirectBlocks,  \* NAIVE_DIRECT_BLOCKS
  WriteLens      \* the lengths of write(2) calls tried

ASSUME MonoAssumption ==
  /\ InodesCount \in Nat /\ InodesCount >= 2
  /\ DataStart \in Nat \ {0} /\ BlocksCount \in Nat /\ DataStart < BlocksCount
  /\ BlockSize \in Nat \ {0} /\ DirectBlocks \in Nat \ {0}
  /\ WriteLens \subseteq Nat \ {0}
  /\ None \notin Nat

Inos   == 0 .. InodesCount - 1
RootBit == 0                          \* NAIVE_ROOT_INO - 1
Blocks == DataStart .. BlocksCount - 1
Index  == 0 .. DirectBlocks - 1
MaxFileSize == BlockSize * DirectBlocks

\* struct naive_disk_inode
DiskInode == [size : 0 .. MaxFileSize, blocks : Int, ptr : [Index -> Blocks \cup {0}]]
Zeroed    == [size |-> 0, blocks |-> 0, ptr |-> [k \in Index |-> 0]]

Contents == [imap : SUBSET Inos, bmap : SUBSET Blocks, table : [Inos -> DiskInode]]
Marks    == [imap : BOOLEAN, bmap : BOOLEAN, table : SUBSET Inos]
Clean    == [imap |-> FALSE, bmap |-> FALSE, table |-> {}]

\* The inode objects, and the bytes written through each that its file has
\* promised to keep (a history variable).
Unused == [ino |-> None, linked |-> FALSE, wrote |-> {}]
Object == [ino : Inos \cup {None}, linked : BOOLEAN, wrote : SUBSET (0 .. MaxFileSize - 1)]

VARIABLES
  mem,       \* what the buffers hold
  disk,      \* what the device holds once the buffers marked now are written
  dirty,     \* the buffers marked dirty
  obj,       \* [Objs -> Object]
  mounted,
  deleted,   \* history: some file was unlinked
  stopped    \* a handler faulted and the machine is down

vars == <<mem, disk, dirty, obj, mounted, deleted, stopped>>

Live == {o \in Objs : obj[o].ino # None}

\* The image kept in the repository: inode bit 0 and no data block marked,
\* and a root inode that points to the first data block.
Init ==
  /\ disk = [imap |-> {RootBit}, bmap |-> {},
             table |-> [[i \in Inos |-> Zeroed] EXCEPT
                          ![RootBit] = [Zeroed EXCEPT !.blocks = 1, !.ptr[0] = DataStart]]]
  /\ mem = disk
  /\ dirty = Clean
  /\ obj = [o \in Objs |-> Unused]
  /\ mounted = FALSE /\ deleted = FALSE /\ stopped = FALSE
----------------------------------------------------------------------------
\* Buffers.

\* Write the buffers marked in d to the device.
Flush(dev, m, d) ==
  [imap  |-> IF d.imap THEN m.imap ELSE dev.imap,
   bmap  |-> IF d.bmap THEN m.bmap ELSE dev.bmap,
   table |-> [i \in Inos |-> IF i \in d.table THEN m.table[i] ELSE dev.table[i]]]

\* A handler leaves the buffers as m, those of d marked.
Leave(m, d) == mem' = m /\ dirty' = d /\ disk' = Flush(disk, m, d)

\* A handler that sleeps while the buffers are m1, marked d1, and then leaves
\* them as m2 and marks those of d2: a write-back may come in between.
LeaveAfter(m1, d1, m2, d2) ==
  \/ Leave(m2, [imap |-> d1.imap \/ d2.imap, bmap |-> d1.bmap \/ d2.bmap,
                table |-> d1.table \cup d2.table])
  \/ /\ mem' = m2 /\ dirty' = d2
     /\ disk' = Flush(Flush(disk, m1, d1), m2, d2)

\* The kernel writes the marked buffers back now and then, here all at once:
\* the device is read only after an unmount.
WriteBack ==
  /\ mounted /\ ~ stopped /\ dirty # Clean
  /\ dirty' = Clean
  /\ UNCHANGED <<mem, disk, obj, mounted, deleted, stopped>>

\* memset(disk_inode, 0, sizeof(struct naive_disk_inode)): the structure has
\* 524 bytes and its block 512, so the mode, number and i_blocks of the next
\* inode go with it.
ZeroDiskInode(t, i) ==
  [k \in Inos |-> IF k = i THEN Zeroed
                  ELSE IF k = i + 1 /\ i \in SamePage THEN [t[k] EXCEPT !.blocks = 0]
                  ELSE t[k]]

\* Faulty: the scan runs to i <= inodes_count.
FindFreeInodeBeyond(m) ==
  {i \in 0 .. InodesCount : i \notin m /\ \A k \in 0 .. InodesCount : k \notin m => i <= k}

\* naive_find_free_inode: the lowest clear bit.
FindFreeInode(m) == {i \in Inos \ m : \A k \in Inos \ m : i <= k}

\* naive_find_free_block, called once for each member of ks in turn: the
\* lowest clear bits of the data area.  No result when there are too few.
FindFreeBlocks(m, ks) ==
  {g \in [ks -> Blocks \ m] :
     /\ \A k, l \in ks : k < l => g[k] < g[l]
     /\ \A b \in (Blocks \ m) \ Range(g) : \A k \in ks : g[k] < b}
----------------------------------------------------------------------------
\* create, unlink, and the last close.

\* The inode of number i is made or unmade: no file keeps its bytes.
Forget(os, i) ==
  [q \in Objs |-> IF os[q].ino = i THEN [os[q] EXCEPT !.wrote = {}] ELSE os[q]]

\* Faulty: the bit is found and not set.
TakeNumberUnset(i) == mem

\* The bitmap with bit i set, and its mark.
TakeNumber(i)  == [mem EXCEPT !.imap = @ \cup {i}]
NumberMarked   == [dirty EXCEPT !.imap = TRUE]

\* naive_create
Create(o) ==
  /\ mounted /\ ~ stopped /\ obj[o].ino = None
  /\ \E i \in FindFreeInode(mem.imap) :
       /\ Leave([TakeNumber(i) EXCEPT !.table = ZeroDiskInode(@, i)],
                [NumberMarked EXCEPT !.table = @ \cup {i}])
       /\ obj' = [Forget(obj, i) EXCEPT ![o] = [ino |-> i, linked |-> TRUE, wrote |-> {}]]
  /\ UNCHANGED <<mounted, deleted, stopped>>

\* naive_create when new_inode, sb_bread or kmalloc fails: the bit is cleared
\* again without a mark; kmalloc is called after the disk inode was zeroed.
CreateFails ==
  /\ mounted /\ ~ stopped
  /\ \E i \in FindFreeInode(mem.imap) :
       \/ /\ LeaveAfter(TakeNumber(i), NumberMarked, mem, Clean)
          /\ UNCHANGED obj
       \/ /\ LET table == ZeroDiskInode(mem.table, i) IN
             LeaveAfter([TakeNumber(i) EXCEPT !.table = table], NumberMarked,
                        [mem EXCEPT !.table = table], Clean)
          /\ obj' = Forget(obj, i)
  /\ UNCHANGED <<mounted, deleted, stopped>>

\* naive_clear_bit(i_ino - 1): create gave out bit i_ino.  For inode 0 it is
\* the last bit of the block before, past the blocks of any image that has
\* fewer than 4096.
ClearedBit(i) == {i - 1} \cap Inos

\* Faulty: the pointers stay in the disk inode.
KeepPointers(n) == [n EXCEPT !.blocks = 0]

\* naive_free_file_blocks, on the disk inode.
FreePointers(n) == [n EXCEPT !.blocks = 0, !.ptr = [k \in Index |-> 0]]

\* naive_unlink.  The link count was 1: there is no link operation.
Unlink(o) ==
  /\ mounted /\ ~ stopped /\ obj[o].linked
  /\ LET i == obj[o].ino IN
     /\ Leave([imap  |-> mem.imap \ ClearedBit(i),
               bmap  |-> mem.bmap \ Range(mem.table[i].ptr),
               table |-> [mem.table EXCEPT ![i] = [FreePointers(@) EXCEPT !.size = 0, !.blocks = 0]]],
              [imap |-> TRUE, bmap |-> TRUE, table |-> dirty.table \cup {i}])
     /\ obj' = [Forget(obj, i) EXCEPT ![o].linked = FALSE]
  /\ deleted' = TRUE
  /\ UNCHANGED <<mounted, stopped>>

\* The last close drops dentry and inode; naive_destroy_inode gives back
\* memory and the reference to the buffer, and nothing on the device.
Close(o) ==
  /\ o \in Live /\ ~ stopped
  /\ obj' = [obj EXCEPT ![o] = Unused]
  /\ UNCHANGED <<mem, disk, dirty, mounted, deleted, stopped>>
----------------------------------------------------------------------------
\* Files.

\* The blocks a loop over bytes pos .. end - 1 visits.
Span(pos, end) == {k \in Index : k * BlockSize < end /\ (k + 1) * BlockSize > pos}

\* Where the loop stands when it comes to block k.
Reaches(pos, k) == Max({pos, k * BlockSize})

\* naive_file_read: the position after reading len bytes from pos, when
\* sb_bread and copy_to_user succeed.  It stops at a block without pointer.
ReadStop(n, pos, len) ==
  IF pos >= n.size THEN pos
  ELSE LET end   == Min({pos + len, n.size})
           holes == {k \in Span(pos, end) : n.ptr[k] = 0}
       IN  IF holes = {} THEN end ELSE Reaches(pos, Min(holes))

\* The disk inode with the blocks of g attached.
Attach(n, g) ==
  [n EXCEPT !.ptr = [k \in Index |-> IF k \in DOMAIN g THEN g[k] ELSE n.ptr[k]],
            !.blocks = @ + Cardinality(DOMAIN g)]

Zeros(n, ks) == {k \in ks : n.ptr[k] = 0}

\* Faulty: the pointer is reset and the count is not.
DetachUncounted(n, k) == [n EXCEPT !.ptr[k] = 0]

\* The clean-up when a new block cannot be read.
Detach(n, k) == [n EXCEPT !.ptr[k] = 0, !.blocks = @ - 1]

\* Faulty: i_size is set after the loop, whether or not anything was written;
\* the size is what this call wrote, wherever it began.
GrownAnyway(n, pos, end) == [n EXCEPT !.size = Max({@, end})]
GrownByCount(n, pos, end) == [n EXCEPT !.size = IF end > pos THEN Max({@, end - pos}) ELSE @]

\* The size after the loop wrote bytes up to end.
Grown(n, pos, end) == [n EXCEPT !.size = IF end > pos THEN Max({@, end}) ELSE @]

\* The state of the buffers when the disk inode i is n, the block bitmap is m.
With(i, n, m) == [mem EXCEPT !.bmap = m, !.table[i] = n]

\* Faulty: only the inode's buffer is marked.
MarkedForInode(i, found) == [dirty EXCEPT !.table = @ \cup {i}]

\* Its marks: the bitmap's when a block was found.
MarkedFor(i, found) == [dirty EXCEPT !.bmap = @ \/ found, !.table = @ \cup {i}]

\* naive_file_write of len bytes at pos.  The loop is through with the blocks
\* ks, after attaching those of g, when it ends.
CanWrite(o, pos, len) ==
  /\ mounted /\ ~ stopped /\ o \in Live /\ pos + len <= MaxFileSize

\* The loop ends at position end: the call returns what it wrote, if acked.
Written(o, n, m, found, pos, end, acked) ==
  LET i == obj[o].ino IN
  /\ Leave(With(i, Grown(n, pos, end), m), MarkedFor(i, found))
  /\ obj' = IF acked THEN [obj EXCEPT ![o].wrote = @ \cup (pos .. end - 1)] ELSE obj
  /\ UNCHANGED <<mounted, deleted, stopped>>

\* Every block was written.
WriteAll(o, pos, len) ==
  /\ CanWrite(o, pos, len)
  /\ LET n == mem.table[obj[o].ino] IN
     \E g \in FindFreeBlocks(mem.bmap, Zeros(n, Span(pos, pos + len))) :
       Written(o, Attach(n, g), mem.bmap \cup Range(g), DOMAIN g # {}, pos, pos + len, TRUE)

\* At block k, which has none yet, no block is free.
WriteNoSpace(o, pos, len, k) ==
  /\ CanWrite(o, pos, len)
  /\ LET n    == mem.table[obj[o].ino]
         done == {j \in Span(pos, pos + len) : j < k}
     IN  \E g \in FindFreeBlocks(mem.bmap, Zeros(n, done)) :
           /\ n.ptr[k] = 0 /\ Blocks \ (mem.bmap \cup Range(g)) = {}
           /\ Written(o, Attach(n, g), mem.bmap \cup Range(g), DOMAIN g # {}, pos, Reaches(pos, k), TRUE)

\* At block k the user's bytes cannot be copied: a block just attached stays.
WriteBadAddress(o, pos, len, k) ==
  /\ CanWrite(o, pos, len)
  /\ LET n    == mem.table[obj[o].ino]
         done == {j \in Span(pos, pos + len) : j <= k}
     IN  \E g \in FindFreeBlocks(mem.bmap, Zeros(n, done)) :
           Written(o, Attach(n, g), mem.bmap \cup Range(g), DOMAIN g # {}, pos, Reaches(pos, k), FALSE)

\* At block k sb_bread fails: a block just attached is given back, its bit
\* cleared without a mark.
WriteUnreadable(o, pos, len, k) ==
  /\ CanWrite(o, pos, len)
  /\ LET i    == obj[o].ino
         n    == mem.table[i]
         done == {j \in Span(pos, pos + len) : j < k}
         end  == Reaches(pos, k)
         Ack  == [obj EXCEPT ![o].wrote = @ \cup (pos .. end - 1)]
     IN  \/ /\ n.ptr[k] # 0
            /\ \E g \in FindFreeBlocks(mem.bmap, Zeros(n, done)) :
                 Written(o, Attach(n, g), mem.bmap \cup Range(g), DOMAIN g # {}, pos, end, TRUE)
         \/ /\ n.ptr[k] = 0
            /\ \E g \in FindFreeBlocks(mem.bmap, Zeros(n, done \cup {k})) :
                 LET had  == Grown(Attach(n, g), pos, end)
                     left == Detach(had, k)
                     m    == mem.bmap \cup Range(g)
                 IN  LeaveAfter(With(i, had, m), [dirty EXCEPT !.bmap = TRUE],
                                With(i, left, m \ {g[k]}), [Clean EXCEPT !.table = {i}])
            /\ obj' = Ack
            /\ UNCHANGED <<mounted, deleted, stopped>>

\* NAIVE_I takes the disk inode from memory before the inode: it faults, and
\* the machine is down.
Stray ==
  /\ Live # {} /\ ~ stopped
  /\ stopped' = TRUE
  /\ mem' = disk /\ dirty' = Clean /\ obj' = [o \in Objs |-> Unused] /\ mounted' = FALSE
  /\ UNCHANGED <<disk, deleted>>
----------------------------------------------------------------------------
\* Mount and unmount.

\* naive_fill_super, from the bitmaps to the root's disk inode.
RootTaken == [disk EXCEPT !.imap = @ \cup {RootBit}]
RootMade  == [RootTaken EXCEPT !.table = ZeroDiskInode(@, RootBit)]
RootMarks == [Clean EXCEPT !.imap = TRUE, !.table = {RootBit}]

Mount ==
  /\ ~ mounted /\ ~ stopped
  /\ Leave(RootMade, RootMarks) /\ mounted' = TRUE
  /\ UNCHANGED <<obj, deleted, stopped>>

\* naive_fill_super fails before or after it marks the root's bit; what it
\* marked is written when the device is closed.  It frees sbi and leaves
\* s_fs_info pointing there, and naive_kill_sb releases through it again: that
\* may fault.  When d_make_root fails, which puts the inode itself, the
\* second iput is a BUG.
MountFails ==
  /\ ~ mounted /\ ~ stopped
  /\ \/ UNCHANGED disk /\ stopped' \in BOOLEAN
     \/ disk' = RootTaken /\ stopped' \in BOOLEAN
     \/ disk' = Flush(disk, RootMade, RootMarks) /\ stopped' = TRUE
  /\ mem' = disk'
  /\ UNCHANGED <<dirty, obj, mounted, deleted>>

\* naive_kill_sb, when no file is open: all marked buffers are written.
Unmount ==
  /\ mounted /\ ~ stopped /\ Live = {}
  /\ mem' = disk /\ dirty' = Clean /\ mounted' = FALSE
  /\ UNCHANGED <<disk, obj, deleted, stopped>>

Stopped == stopped /\ UNCHANGED vars

Next ==
  \/ \E o \in Objs : Create(o) \/ Unlink(o) \/ Close(o)
  \/ \E o \in Objs, pos \in 0 .. MaxFileSize, len \in WriteLens :
       \/ WriteAll(o, pos, len)
       \/ \E k \in Span(pos, pos + len) :
            WriteNoSpace(o, pos, len, k) \/ WriteBadAddress(o, pos, len, k) \/ WriteUnreadable(o, pos, len, k)
  \/ CreateFails \/ Stray \/ WriteBack \/ Mount \/ MountFails \/ Unmount \/ Stopped

Spec == Init /\ [][Next]_vars
----------------------------------------------------------------------------
TypeOK ==
  /\ mem \in Contents /\ disk \in Contents /\ dirty \in Marks
  /\ obj \in [Objs -> Object]
  /\ {mounted, deleted, stopped} \subseteq BOOLEAN

\* The disk inodes a mount does not zero.
Files == Inos \ {RootBit}

OwnedOnce(c, is) ==
  \A i, j \in is : \A k, l \in Index :
     c.table[i].ptr[k] # 0 =>
       /\ c.table[i].ptr[k] \in c.bmap
       /\ c.table[j].ptr[l] = c.table[i].ptr[k] => i = j /\ k = l

\* No block belongs to two disk inodes, and each one's bit is set, although
\* inodes come to share a number and files are written after their unlink.
BlocksOwnedOnce == mounted => OwnedOnce(mem, Inos)

\* The same of the device after an unmount: whatever a handler left unmarked
\* or was written back half way, no bit of a block in use is lost with it.
DeviceOwnedOnce == ~ mounted /\ ~ stopped => OwnedOnce(disk, Files)

\* A size never ends in a block that the file was not given, through every
\* way the write loop may end.
SizeEndsInBlock ==
  mounted => \A i \in Inos : LET n == mem.table[i] IN
               n.size > 0 => n.ptr[(n.size - 1) \div BlockSize] # 0

\* i_blocks is never below zero nor above the number of blocks a file has; it
\* may be less, since making the inode before zeroes it.
CountsNotAbove ==
  \A i \in Files : mem.table[i].blocks \in 0 .. Cardinality(Index \ Zeros(mem.table[i], Index))

\* What write returned as written can be read back in one read: until the
\* file is unlinked, or its number is given to another create.
WrittenIsRead ==
  \A o \in Live : \A p, q \in obj[o].wrote :
     p .. q \subseteq obj[o].wrote /\ p <= q =>
       ReadStop(mem.table[obj[o].ino], p, q - p + 1) = q + 1

\* Until the first unlink, files have inode table entries of their own, never
\* the root's, and marked ones, over failed creates and remounts.  The first
\* unlink frees an entry that was not the file's.
NumbersDistinct ==
  ~ deleted => \A o \in Live :
                 /\ obj[o].ino # RootBit /\ obj[o].ino \in mem.imap
                 /\ \A q \in Live : obj[q].ino = obj[o].ino => q = o
============================================================================
