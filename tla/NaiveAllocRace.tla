--------------------------- MODULE NaiveAllocRace ---------------------------
(***************************************************************************)
(* The allocation steps of the split Naive file system taken apart.  The   *)
(* code has no lock of its own: create, mkdir, unlink and rmdir run under  *)
(* the lock the VFS (external) holds on the parent directory, and          *)
(* naive_file_write under no lock shared with another file.  Finding a     *)
(* free inode number and setting its bit are two steps, and setting or     *)
(* clearing a bit loads a byte of the bitmap and stores it back.           *)
(*                                                                         *)
(* Each process owns at most one file or directory.  The parent directory  *)
(* is taken to have room for the record, and a bitmap scan reads the       *)
(* bitmap at one instant.                                                  *)
(***************************************************************************)
EXTENDS NaiveAlloc, FiniteSets

CONSTANTS Procs,       \* processes that call the file system
          Parents,     \* parent directories they work in
          ParentOf,    \* [Procs -> Parents]
          Writers,     \* the processes that also write to their file
          MaxBlocks,   \* blocks a file may hold: NAIVE_BLOCK_PER_FILE
          NoProc

ASSUME RaceAssumption ==
  /\ ParentOf \in [Procs -> Parents] /\ Writers \subseteq Procs
  /\ NoProc \notin Procs /\ MaxBlocks \in Nat \ {0}

VARIABLES
  imap, bmap,  \* the bitmaps, shared by every process
  lock,        \* [Parents -> the process holding the directory's i_rwsem]
  pc,          \* [Procs -> the next step of its call]
  call,        \* [Procs -> "create", "mkdir", "remove", "write" or "none"]
  num,         \* [Procs -> the inode number its call found, or 0]
  new,         \* [Procs -> the block its call is allocating or freeing, or 0]
  reg,         \* [Procs -> the bitmap byte it loaded, as a set]
  own,         \* [Procs -> what it has in the tree: inode number and blocks]
  written      \* history: whether naive_file_write was ever called

vars == <<imap, bmap, lock, pc, call, num, new, reg, own, written>>

Nothing == [ino |-> 0, dir |-> FALSE, blocks |-> {}]

Init ==
  /\ imap = {RootIno} /\ bmap = {}
  /\ lock = [d \in Parents |-> NoProc]
  /\ pc = [p \in Procs |-> "idle"] /\ call = [p \in Procs |-> "none"]
  /\ num = [p \in Procs |-> 0] /\ new = [p \in Procs |-> 0]
  /\ reg = [p \in Procs |-> {}]
  /\ own = [p \in Procs |-> Nothing] /\ written = FALSE

InodeByte(s, i) == {k \in s : (k - 1) \div ByteBits = (i - 1) \div ByteBits}
BlockByte(s, b) == {k \in s : k \div ByteBits = b \div ByteBits}

At(p, step)   == pc[p] = step
Goto(p, step) == pc' = [pc EXCEPT ![p] = step]

\* The call returns; the VFS releases the parent's lock if the call held it.
Return(p) ==
  /\ Goto(p, "idle")
  /\ call' = [call EXCEPT ![p] = "none"]
  /\ num' = [num EXCEPT ![p] = 0] /\ new' = [new EXCEPT ![p] = 0]
  /\ reg' = [reg EXCEPT ![p] = {}]
  /\ lock' = [d \in Parents |-> IF lock[d] = p THEN NoProc ELSE lock[d]]

\* A process enters create, mkdir, or unlink/rmdir of what it owns.
Enter(p, c, step) ==
  /\ At(p, "idle") /\ lock[ParentOf[p]] = NoProc
  /\ (c = "remove") = (own[p].ino # 0)
  /\ lock' = [lock EXCEPT ![ParentOf[p]] = p]
  /\ call' = [call EXCEPT ![p] = c]
  /\ Goto(p, step)
  /\ UNCHANGED <<imap, bmap, num, new, reg, own>>

\* naive_file_write: the allocation of one more block, under no lock.
EnterWrite(p) ==
  /\ p \in Writers /\ At(p, "idle") /\ own[p].ino # 0 /\ ~ own[p].dir
  /\ Cardinality(own[p].blocks) < MaxBlocks
  /\ call' = [call EXCEPT ![p] = "write"] /\ written' = TRUE
  /\ Goto(p, "alloc")
  /\ UNCHANGED <<imap, bmap, lock, num, new, reg, own>>

\* naive_find_free_inode
FindInode(p) ==
  /\ At(p, "find")
  /\ IF FindFreeInode(imap) = {} THEN Return(p)
     ELSE /\ \E i \in FindFreeInode(imap) : num' = [num EXCEPT ![p] = i]
          /\ Goto(p, IF call[p] = "mkdir" THEN "alloc" ELSE "markload")
          /\ UNCHANGED <<lock, call, new, reg>>
  /\ UNCHANGED <<imap, bmap, own>>

\* naive_alloc_block: the scan tests a copy of the byte, then "|=" loads the
\* byte again and stores it.
FindBlock(p) ==
  /\ At(p, "alloc")
  /\ IF AllocBlock(bmap) = {} THEN Return(p)
     ELSE /\ \E b \in AllocBlock(bmap) : new' = [new EXCEPT ![p] = b]
          /\ Goto(p, "allocload")
          /\ UNCHANGED <<lock, call, num, reg>>
  /\ UNCHANGED <<imap, bmap, own>>

LoadBlockByte(p) ==
  /\ At(p, "allocload") \/ At(p, "freeload")
  /\ reg' = [reg EXCEPT ![p] = BlockByte(bmap, new[p])]
  /\ Goto(p, IF At(p, "allocload") THEN "allocstore" ELSE "freestore")
  /\ UNCHANGED <<imap, bmap, lock, call, num, new, own>>

\* Faulty: "=" in place of "|=".
StoreBlockBit(bits, b) == bmap' = (bmap \ BlockByte(bmap, b)) \cup {b}

StoreBlockByte(bits, b) == bmap' = (bmap \ BlockByte(bmap, b)) \cup bits

\* The bit is stored; a write attaches the block to the file and returns.
TakeBlock(p) ==
  /\ At(p, "allocstore")
  /\ StoreBlockByte(reg[p] \cup {new[p]}, new[p])
  /\ IF call[p] = "write"
     THEN own' = [own EXCEPT ![p].blocks = @ \cup {new[p]}] /\ Return(p)
     ELSE Goto(p, "markload") /\ UNCHANGED <<lock, call, num, new, reg, own>>
  /\ UNCHANGED imap

\* inode_bitmap[...] |= bit in create and mkdir, &= ~bit in unlink and rmdir.
LoadInodeByte(p) ==
  /\ At(p, "markload") \/ At(p, "clearload")
  /\ reg' = [reg EXCEPT ![p] = InodeByte(imap, num[p])]
  /\ Goto(p, IF At(p, "markload") THEN "markstore" ELSE "clearstore")
  /\ UNCHANGED <<imap, bmap, lock, call, num, new, own>>

\* Faulty: "=" in place of "|=".
StoreInodeBit(bits, i) == imap' = (imap \ InodeByte(imap, i)) \cup {i}

StoreInodeByte(bits, i) == imap' = (imap \ InodeByte(imap, i)) \cup bits

MarkInode(p) ==
  /\ At(p, "markstore")
  /\ StoreInodeByte(reg[p] \cup {num[p]}, num[p])
  /\ Goto(p, "enter")
  /\ UNCHANGED <<bmap, lock, call, num, new, reg, own>>

\* naive_add_entry and d_instantiate.
AddEntry(p) ==
  /\ At(p, "enter")
  /\ own' = [own EXCEPT ![p] = [ino |-> num[p], dir |-> call[p] = "mkdir",
                                blocks |-> {new[p]} \ {0}]]
  /\ Return(p)
  /\ UNCHANGED <<imap, bmap>>

\* unlink and rmdir after remove_entry: free the blocks one by one, then the
\* inode number.
NextRelease(p) ==
  /\ At(p, "release")
  /\ IF own[p].blocks = {}
     THEN num' = [num EXCEPT ![p] = own[p].ino] /\ Goto(p, "clearload") /\ UNCHANGED <<new, own>>
     ELSE \E b \in own[p].blocks :
            /\ new' = [new EXCEPT ![p] = b]
            /\ own' = [own EXCEPT ![p].blocks = @ \ {b}]
            /\ Goto(p, "freeload") /\ UNCHANGED num
  /\ UNCHANGED <<imap, bmap, lock, call, reg>>

FreeBlock(p) ==
  /\ At(p, "freestore")
  /\ StoreBlockByte(reg[p] \ {new[p]}, new[p])
  /\ Goto(p, "release")
  /\ UNCHANGED <<imap, lock, call, num, new, reg, own>>

ClearInode(p) ==
  /\ At(p, "clearstore")
  /\ StoreInodeByte(reg[p] \ {num[p]}, num[p])
  /\ own' = [own EXCEPT ![p] = Nothing]
  /\ Return(p)
  /\ UNCHANGED bmap

Next ==
  \E p \in Procs :
    \/ EnterWrite(p)
    \/ /\ \/ Enter(p, "create", "find") \/ Enter(p, "mkdir", "find") \/ Enter(p, "remove", "release")
          \/ FindInode(p) \/ FindBlock(p) \/ LoadBlockByte(p) \/ TakeBlock(p)
          \/ LoadInodeByte(p) \/ MarkInode(p) \/ AddEntry(p)
          \/ NextRelease(p) \/ FreeBlock(p) \/ ClearInode(p)
       /\ UNCHANGED written

Spec == Init /\ [][Next]_vars
----------------------------------------------------------------------------
\* An entry of the tree has an inode number no other entry has
\* (naivefs_dir.c:147 and naivefs_inode.c:18 allocate a new number).
NumbersDistinct ==
  \A p, q \in Procs : p # q /\ own[p].ino # 0 => own[p].ino # own[q].ino

\* No block is part of two files or directories (naivefs_super.c:34 allocates
\* a data block; naivefs_file.c:89 a new one).
BlocksDistinct ==
  \A p, q \in Procs : p # q => own[p].blocks \cap own[q].blocks = {}

\* While its owner is not being removed, an inode number stays marked: no
\* neighbour's store of the same byte of the bitmap takes the bit away.
NumbersMarked == \A p \in Procs : call[p] # "remove" => own[p].ino \in imap \cup {0}

\* As long as nobody has written to a file, the lock of the one parent keeps
\* the block bitmap consistent: no block is part of two, and each is marked.
LockKeepsBlocks ==
  ~ written => /\ BlocksDistinct
               /\ \A p \in Procs : call[p] # "remove" => own[p].blocks \subseteq bmap
============================================================================
