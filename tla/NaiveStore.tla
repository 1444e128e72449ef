----------------------------- MODULE NaiveStore -----------------------------
(***************************************************************************)
(* NaiveFS when the VFS reclaims dentries and inode objects and the disk   *)
(* is mounted again: naive_lookup and naive_iget, naive_write_inode,       *)
(* naive_put_super and the next naive_fill_super, with its failures and    *)
(* what they release.                                                      *)
(*                                                                         *)
(* On disk: the inode table, the data blocks (every change to one marks    *)
(* its buffer dirty, so unmount writes it) and the two bitmaps, which the  *)
(* code copies at mount and never writes back: they stay as Init has them. *)
(***************************************************************************)
EXTENDS NaiveFS

CONSTANTS RecordSize,   \* NAIVE_DIR_RECORD_SIZE
          MaxLinks      \* bound: the parent of a directory read back as a file
                        \* gains a link with every mkdir and loses none

ASSUME StoreAssumption == RecordSize \in Nat \ {0} /\ MaxLinks \in Nat

VARIABLES
  itable,     \* [Inos -> DiskInode]: the inode table
  mounted,
  held        \* [Resources -> Int]: allocations and buffer references of the
              \* last naive_fill_super, less what was released

svars == <<imap, bmap, obj, dent, blk, itable, mounted, held>>
mvars == <<mounted, held>>

DiskInode == [dir : BOOLEAN, nlink : Nat, size : Nat, count : Nat,
              ptr : [Index -> Blocks \cup {0}]]
ZeroInode == [dir |-> FALSE, nlink |-> 0, size |-> 0, count |-> 0,
              ptr |-> [k \in Index |-> 0]]

----------------------------------------------------------------------------
\* naive_fill_super and its error path.

Resources == {"sbi", "sb_bh", "bmap_bh", "block_bitmap", "imap_bh", "inode_bitmap"}

\* What it holds when it comes to its k-th call that may fail: the allocation
\* of sbi, the superblock's read, its magic number, the read and the copy of
\* the block bitmap, the same of the inode bitmap, the root inode, the root
\* dentry.  Each bitmap's buffer is released after the copy.
HoldsAt(k) ==
  {r \in Resources : \/ r = "sbi" /\ k >= 2
                     \/ r = "sb_bh" /\ k >= 3
                     \/ r = "bmap_bh" /\ k = 5
                     \/ r = "block_bitmap" /\ k >= 6
                     \/ r = "imap_bh" /\ k = 7
                     \/ r = "inode_bitmap" /\ k >= 8}
Calls  == 1 .. 9
Mounts == 10

\* The error labels from top to bottom release these; "bh" is the buffer read
\* last, nothing after a read that failed.
Labels == <<"inode_bitmap", "bh", "block_bitmap", "bh", "sb_bh", "sbi">>
Bh(k)  == IF k = 5 THEN "bmap_bh" ELSE IF k >= 7 THEN "imap_bh" ELSE "none"

\* Faulty: a failed read of the block bitmap jumps past the label of sb_bh.
JumpShort(k) == <<7, 6, 5, 6, 4, 3, 2, 1, 1>>[k]

\* The label a failing call jumps to; the first has none to jump to.
Jump(k) == <<7, 6, 5, 5, 4, 3, 2, 1, 1>>[k]

Releases(k, r) ==
  Cardinality({l \in Jump(k) .. 6 : r = IF Labels[l] = "bh" THEN Bh(k) ELSE Labels[l]})

Balance(S) == [r \in Resources |-> IF r \in S THEN 1 ELSE 0]
----------------------------------------------------------------------------
\* The root's entry of the table is written when the image is made, and no
\* mount reads it.
StoreInit ==
  /\ Init /\ itable = [i \in Inos |-> ZeroInode]
  /\ mounted = TRUE /\ held = Balance(HoldsAt(Mounts))

\* naive_write_inode: only the first block_count pointers are written, and a
\* directory's size goes out as a count of records, into the field naive_iget
\* reads back as a size.
OnDisk(node, old) ==
  [dir |-> node.dir, nlink |-> node.nlink, count |-> node.count,
   size |-> IF node.dir THEN node.size \div RecordSize ELSE node.size,
   ptr |-> [k \in Index |-> IF k <= node.count THEN node.ptr[k] ELSE old.ptr[k]]]

\* Faulty: every pointer of the disk inode is read, counted or not.
FromDiskAll(i) ==
  [NewInode(i, itable[i].dir, itable[i].nlink) EXCEPT
     !.size = itable[i].size, !.count = itable[i].count, !.hashed = TRUE,
     !.ptr = itable[i].ptr]

\* naive_iget on an inode number that is not in the inode hash.
FromDisk(i) ==
  [NewInode(i, itable[i].dir, itable[i].nlink) EXCEPT
     !.size = itable[i].size, !.count = itable[i].count, !.hashed = TRUE,
     !.ptr = [k \in Index |-> IF k <= itable[i].count THEN itable[i].ptr[k] ELSE 0]]

\* naive_lookup of a name the VFS holds no dentry for.  iget_locked finds an
\* object only if an earlier naive_iget made it.
Lookup(d, name, o) ==
  /\ obj[d].dir /\ obj[d].nlink > 0
  /\ ~ \E e \in dent : e.par = d /\ e.name = name
  /\ \E p \in FirstOf(Matches(blk, obj[d], name)) :
       LET i      == At(blk, obj[d], p).ino
           cached == {q \in Live : obj[q].hashed /\ obj[q].ino = i}
       IN  /\ IF cached = {}
              THEN obj[o].ino = 0 /\ obj' = [obj EXCEPT ![o] = FromDisk(i)]
              ELSE o \in cached /\ UNCHANGED obj
           /\ dent' = dent \cup {[par |-> d, name |-> name, child |-> o]}
  /\ UNCHANGED <<imap, bmap, blk, itable, mvars>>

\* The VFS (external) lets go of a name.  A dentry that naive_lookup left out
\* of the dentry cache goes at the latest with its last user; one in the cache
\* goes when memory is short.  The object goes with it unless it is in use,
\* and without naive_write_inode, since it is not in the inode hash or has no
\* link.
DropDentry(e) ==
  /\ ChildrenOf(e.child) = {}
  /\ dent' = dent \ {e}
  /\ obj' = IF \E f \in dent \ {e} : f.child = e.child THEN obj ELSE Forget(obj, e.child)
  /\ UNCHANGED <<imap, bmap, blk, itable, mvars>>

\* Write-back of a dirty inode.
WriteInode(o) ==
  /\ o \in Live /\ obj[o].dirty
  /\ itable' = [itable EXCEPT ![obj[o].ino] = OnDisk(obj[o], @)]
  /\ obj' = [obj EXCEPT ![o].dirty = FALSE]
  /\ UNCHANGED <<imap, bmap, dent, blk, mvars>>

\* umount writes the dirty inodes and drops every object; naive_put_super
\* frees the bitmaps.
Unmount ==
  /\ mounted /\ \A o \in Objs : ~ obj[o].open /\ ~ obj[o].dirty
  /\ imap' = {} /\ bmap' = {} /\ dent' = {}
  /\ obj' = [o \in Objs |-> NoInode]
  /\ mounted' = FALSE
  /\ held' = [r \in Resources |-> IF r \in {"block_bitmap", "inode_bitmap", "sb_bh", "sbi"}
                                  THEN held[r] - 1 ELSE held[r]]
  /\ UNCHANGED <<blk, itable>>

\* naive_fill_super reads the bitmaps the image came with and makes a new root.
Mount ==
  /\ ~ mounted
  /\ imap' = {RootIno}
  /\ obj' = [obj EXCEPT ![RootObj] = NewInode(RootIno, TRUE, 2)]
  /\ mounted' = TRUE /\ held' = Balance(HoldsAt(Mounts))
  /\ UNCHANGED <<bmap, dent, blk, itable>>

\* naive_fill_super fails at its k-th call.  There is no root dentry, so the
\* VFS does not call naive_put_super.
MountFails(k) ==
  /\ ~ mounted
  /\ held' = [r \in Resources |-> Balance(HoldsAt(k))[r] - Releases(k, r)]
  /\ UNCHANGED <<imap, bmap, obj, dent, blk, itable, mounted>>

StoreNext ==
  \/ /\ Next /\ UNCHANGED <<itable, mvars>>
     /\ \A o \in Objs : obj'[o].nlink <= MaxLinks
  \/ \E d, o \in Objs, n \in Names : Lookup(d, n, o)
  \/ \E e \in dent : DropDentry(e)
  \/ \E o \in Objs : WriteInode(o)
  \/ Unmount \/ Mount \/ \E k \in Calls : MountFails(k)

StoreSpec == StoreInit /\ [][StoreNext]_svars
----------------------------------------------------------------------------
\* An object naive_iget made has no link and is no directory, whatever was
\* created under its number: so the drop rule of DropDentry is the VFS's, and
\* no directory is ever reached through its stale image on disk.
ReadBackIsPlain == \A o \in Live : obj[o].hashed => obj[o].nlink = 0 /\ ~ obj[o].dir

\* Nothing but the root ever has the root's number, and its bit stays set
\* through every create, unlink and remount.
RootNumberIsKept ==
  mounted => RootIno \in imap /\ \A o \in Live : obj[o].ino = RootIno <=> o = RootObj

\* A mount holds exactly what naive_put_super gives back, and neither an
\* unmount nor a mount that failed, wherever it failed, leaves anything held
\* or releases anything twice, but for one buffer: the labels release the
\* inode bitmap's again when a call after its read fails.
ReferencesBalance ==
  \A r \in Resources :
     IF r = "imap_bh" THEN held[r] <= 0 /\ (mounted => held[r] = 0)
     ELSE held[r] = IF mounted /\ r # "bmap_bh" THEN 1 ELSE 0
==============================================================================
