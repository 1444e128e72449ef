-------------------------- MODULE NaiveRaceProofs --------------------------
(***************************************************************************)
(* Theorems about the allocation steps when every process works in one     *)
(* directory, for any number of processes, of which any may write.         *)
(*                                                                         *)
(* The lock of that directory is the only one there is, and it was not     *)
(* made for the bitmaps: it protects the inode bitmap because only calls   *)
(* that hold it touch that one, and the block bitmap for as long as no     *)
(* file is written.  The invariant follows the call that holds it.         *)
(***************************************************************************)
EXTENDS NaiveAllocRace, TLAPS

OneParent == \A p, q \in Procs : ParentOf[p] = ParentOf[q]

----------------------------------------------------------------------------
(* The inductive invariant.                                                *)

Owned == [ino : Inos \cup {0}, dir : BOOLEAN, blocks : SUBSET Blocks]

\* The types.
Typed ==
  /\ imap \subseteq Inos /\ bmap \subseteq Blocks
  /\ lock \in [Parents -> Procs \cup {NoProc}]
  /\ DOMAIN pc = Procs /\ DOMAIN call = Procs /\ DOMAIN reg = Procs
  /\ num \in [Procs -> Inos \cup {0}] /\ new \in [Procs -> Blocks \cup {0}]
  /\ own \in [Procs -> Owned] /\ written \in BOOLEAN
  /\ \A p \in Procs : /\ pc[p] \in {"allocload", "allocstore"} => new[p] # 0
                      /\ pc[p] \in {"allocstore", "freestore"} => reg[p] \subseteq Blocks

\* Which steps each call goes through, and who holds the lock.
Locked == {"create", "mkdir", "remove"}
Making == {"create", "mkdir"}

StepsOf(c) ==
  IF c = "create" THEN {"find", "markload", "markstore", "enter"}
  ELSE IF c = "mkdir" THEN {"find", "alloc", "allocload", "allocstore", "markload", "markstore", "enter"}
  ELSE IF c = "remove" THEN {"release", "freeload", "freestore", "clearload", "clearstore"}
  ELSE IF c = "write" THEN {"alloc", "allocload", "allocstore"}
  ELSE {"idle"}

Control == \A p \in Procs :
  /\ call[p] \in Locked \cup {"write", "none"}
  /\ pc[p] \in StepsOf(call[p])
  /\ call[p] \in Locked => lock[ParentOf[p]] = p
  /\ call[p] \in {"create", "none"} => new[p] = 0

\* The inode bitmap: every number owned is marked and owned once; the number
\* of a create or mkdir is free until it is marked, and then nobody's; a
\* loaded byte is still what the bitmap holds.
Numbers ==
  /\ \A p \in Procs :
       /\ own[p].ino \in imap \cup {0}
       /\ call[p] \in Making => own[p].ino = 0
       /\ call[p] \in Making /\ pc[p] \notin {"find", "enter"} => num[p] \in Inos \ imap
       /\ pc[p] = "enter" => num[p] \in imap /\ \A q \in Procs : own[q].ino # num[p]
       /\ pc[p] \in {"markstore", "clearstore"} => reg[p] = InodeByte(imap, num[p])
       /\ pc[p] \in {"clearload", "clearstore"} => num[p] = own[p].ino
  /\ NumbersDistinct

\* The block bitmap, the same way, while no file was ever written.
BlocksKept ==
  ~ written =>
     /\ \A p \in Procs :
          /\ call[p] # "write"
          /\ own[p].blocks \subseteq bmap
          /\ pc[p] \in {"allocload", "allocstore"} => new[p] \in Blocks \ bmap
          /\ (call[p] = "mkdir" /\ pc[p] \in {"markload", "markstore", "enter"})
             \/ pc[p] \in {"freeload", "freestore"} =>
               new[p] \in bmap /\ \A q \in Procs : new[p] \notin own[q].blocks
          /\ pc[p] \in {"allocstore", "freestore"} => reg[p] = BlockByte(bmap, new[p])
     /\ BlocksDistinct

Inv == Typed /\ Control /\ Numbers /\ BlocksKept

\* The invariant gives the properties.
LEMMA InvIsProperties == Inv => NumbersDistinct /\ NumbersMarked /\ LockKeepsBlocks
  BY DEF Inv, Numbers, BlocksKept, NumbersMarked, LockKeepsBlocks

----------------------------------------------------------------------------
(* The bitmaps.                                                            *)

\* The scans return numbers whose bit is clear.
LEMMA ScanFindsFree ==
  /\ \A i \in FindFreeInode(imap) : i \in Inos \ imap
  /\ \A b \in AllocBlock(bmap) : b \in Blocks \ bmap
<1>1. ASSUME NEW n \in Nat PROVE ByteBits * (n \div ByteBits) <= n
  BY AllocAssumption
<1>2. ScannedInos \subseteq Inos
  BY <1>1, AllocAssumption DEF ScannedInos, Inos
<1>3. ScannedBlocks \subseteq Blocks
  BY <1>1, AllocAssumption DEF ScannedBlocks, Blocks
<1>4. QED  BY <1>2, <1>3 DEF FindFreeInode, FreeInos, AllocBlock, FreeBlocks

\* 0 is no inode number and no data block.
LEMMA ZeroIsNone == 0 \notin Inos /\ 0 \notin Blocks
  BY AllocAssumption DEF Inos, Blocks

\* Storing a byte that is still the bitmap's changes one bit.
LEMMA StoreChangesOneBit ==
  /\ \A i : StoreInodeByte(InodeByte(imap, i) \cup {i}, i) => imap' = imap \cup {i}
  /\ \A i : StoreInodeByte(InodeByte(imap, i) \ {i}, i) => imap' = imap \ {i}
  /\ \A b : StoreBlockByte(BlockByte(bmap, b) \cup {b}, b) => bmap' = bmap \cup {b}
  /\ \A b : StoreBlockByte(BlockByte(bmap, b) \ {b}, b) => bmap' = bmap \ {b}
<1>1. \A i : InodeByte(imap, i) \subseteq imap /\ (i \in imap => i \in InodeByte(imap, i))
  BY DEF InodeByte
<1>2. \A b : BlockByte(bmap, b) \subseteq bmap /\ (b \in bmap => b \in BlockByte(bmap, b))
  BY DEF BlockByte
<1>3. QED  BY <1>1, <1>2 DEF StoreInodeByte, StoreBlockByte

\* With one directory one call holds the lock, and the others are not in it
\* or write.
LEMMA Alone ==
  ASSUME OneParent, Control, NEW p \in Procs, call[p] \in Locked, NEW q \in Procs, q # p
  PROVE  /\ call[q] \in {"write", "none"}
         /\ pc[q] \in {"idle", "alloc", "allocload", "allocstore"}
<1>1. call[q] \notin Locked
  BY DEF OneParent, Control
<1>2. QED  BY <1>1 DEF Control, StepsOf, Locked

----------------------------------------------------------------------------
(* The steps.                                                              *)

\* Nothing is taken at first.
LEMMA InitInv == Init => Inv
<1> SUFFICES ASSUME Init PROVE Inv
  OBVIOUS
<1>1. RootIno \in Inos /\ Nothing \in Owned /\ Nothing.ino = 0 /\ Nothing.blocks = {}
  BY AllocAssumption DEF RootIno, Inos, Nothing, Owned
<1>2. Typed
  BY <1>1 DEF Init, Typed
<1>3. Control
  BY DEF Init, Control, StepsOf, Locked
<1>4. Numbers
  BY <1>1 DEF Init, Numbers, NumbersDistinct, Making
<1>5. BlocksKept
  BY <1>1 DEF Init, BlocksKept, BlocksDistinct
<1>6. QED  BY <1>2, <1>3, <1>4, <1>5 DEF Inv

\* What the return of a call leaves.
Returned(p) ==
  /\ \A q \in Procs : /\ pc'[q] = IF q = p THEN "idle" ELSE pc[q]
                      /\ call'[q] = IF q = p THEN "none" ELSE call[q]
                      /\ num'[q] = IF q = p THEN 0 ELSE num[q]
                      /\ new'[q] = IF q = p THEN 0 ELSE new[q]
                      /\ reg'[q] = IF q = p THEN {} ELSE reg[q]
                      /\ q # p /\ lock[ParentOf[q]] = q => lock'[ParentOf[q]] = q
  /\ lock' \in [Parents -> Procs \cup {NoProc}]
  /\ DOMAIN pc' = Procs /\ DOMAIN call' = Procs /\ DOMAIN reg' = Procs
  /\ num' \in [Procs -> Inos \cup {0}] /\ new' \in [Procs -> Blocks \cup {0}]

\* The return of a call gives up the lock and forgets what it loaded.
LEMMA ReturnLeaves ==
  ASSUME Typed, NEW p \in Procs, Return(p)
  PROVE  Returned(p)
<1>1. \A q \in Procs : /\ pc'[q] = IF q = p THEN "idle" ELSE pc[q]
                       /\ call'[q] = IF q = p THEN "none" ELSE call[q]
                       /\ num'[q] = IF q = p THEN 0 ELSE num[q]
                       /\ new'[q] = IF q = p THEN 0 ELSE new[q]
                       /\ reg'[q] = IF q = p THEN {} ELSE reg[q]
  BY DEF Return, Goto, Typed
<1>2. \A d \in Parents : lock'[d] = IF lock[d] = p THEN NoProc ELSE lock[d]
  BY DEF Return
<1>3. \A q \in Procs : ParentOf[q] \in Parents
  BY RaceAssumption
<1>4. \A q \in Procs : q # p /\ lock[ParentOf[q]] = q => lock'[ParentOf[q]] = q
  BY <1>2, <1>3
<1>5. /\ lock' \in [Parents -> Procs \cup {NoProc}]
      /\ DOMAIN pc' = Procs /\ DOMAIN call' = Procs /\ DOMAIN reg' = Procs
      /\ num' \in [Procs -> Inos \cup {0}] /\ new' \in [Procs -> Blocks \cup {0}]
  BY DEF Return, Goto, Typed
<1>6. QED  BY <1>1, <1>4, <1>5 DEF Returned

\* A call that returns with the bitmaps and the files as they are.
LEMMA GivesUp ==
  ASSUME Inv, NEW p \in Procs, Return(p), UNCHANGED <<imap, bmap, own, written>>
  PROVE  Inv'
<1>1. Returned(p)
  BY ReturnLeaves DEF Inv
<1>2. Typed'
  BY <1>1 DEF Inv, Typed, Returned
<1>3. Control'
  BY <1>1 DEF Inv, Control, StepsOf, Locked, Returned
<1>4. Numbers'
  BY <1>1 DEF Inv, Numbers, NumbersDistinct, Making, Returned
<1>5. BlocksKept'
  BY <1>1 DEF Inv, BlocksKept, BlocksDistinct, Returned
<1>6. QED  BY <1>2, <1>3, <1>4, <1>5 DEF Inv

\* A call that takes the lock.
LEMMA EnterInv ==
  ASSUME OneParent, Inv, NEW p \in Procs, NEW c \in Locked,
         NEW step \in {"find", "release"}, (step = "find") = (c # "remove"), Enter(p, c, step), UNCHANGED written
  PROVE  Inv'
<1>1. \A q \in Procs : /\ pc'[q] = IF q = p THEN step ELSE pc[q]
                       /\ call'[q] = IF q = p THEN c ELSE call[q]
  BY DEF Inv, Typed, Goto, Enter
<1>2. UNCHANGED <<imap, bmap, num, new, reg, own>>
  BY DEF Goto, Enter
<1>3. lock' = [lock EXCEPT ![ParentOf[p]] = p] /\ lock[ParentOf[p]] = NoProc /\ ParentOf[p] \in Parents
  BY RaceAssumption DEF Enter
<1>4. \A q \in Procs : q # p => call[q] \notin Locked
  BY <1>3, RaceAssumption DEF OneParent, Inv, Control
<1>5. pc[p] = "idle" /\ call[p] = "none" /\ new[p] = 0
  BY DEF Enter, At, Inv, Control, StepsOf, Locked
<1>6. Typed'
  BY <1>1, <1>2, <1>3, <1>4, <1>5, ZeroIsNone DEF Inv, Typed, Goto, Enter, Locked
<1>7. Control'
  BY <1>1, <1>2, <1>3, <1>4, <1>5 DEF Inv, Control, StepsOf, Locked, At, Typed
<1>8. Numbers'
  BY <1>1, <1>2, <1>3, <1>4, <1>5, ZeroIsNone DEF Inv, Numbers, NumbersDistinct, Making, At, Enter, Locked
<1>9. BlocksKept'
  BY <1>1, <1>2, <1>3, <1>4, <1>5, ZeroIsNone DEF Inv, BlocksKept, BlocksDistinct, At, Locked, StepsOf, Control
<1>10. QED  BY <1>6, <1>7, <1>8, <1>9 DEF Inv

\* The scan of the inode bitmap.
LEMMA FindInodeInv ==
  ASSUME OneParent, Inv, NEW p \in Procs, FindInode(p), FindFreeInode(imap) # {}, UNCHANGED written
  PROVE  Inv'
<1>1. \A q \in Procs : pc'[q] = IF q = p THEN (IF call[p] = "mkdir" THEN "alloc" ELSE "markload") ELSE pc[q]
  BY DEF Inv, Typed, Goto, FindInode
<1>2. UNCHANGED <<imap, bmap, lock, call, new, reg, own>>
  BY DEF Goto, FindInode
<1>3. PICK i \in FindFreeInode(imap) : num' = [num EXCEPT ![p] = i]
  BY DEF FindInode
<1>4. i \in Inos \ imap
  BY ScanFindsFree
<1>5. \A q \in Procs : num'[q] = IF q = p THEN i ELSE num[q]
  BY <1>3 DEF Inv, Typed
<1>6. pc[p] = "find" /\ call[p] \in Making
  BY DEF FindInode, At, Inv, Control, StepsOf, Locked, Making
<1>7. Typed'
  BY <1>1, <1>2, <1>3, <1>4, <1>5, <1>6, ZeroIsNone DEF Inv, Typed, Goto, FindInode
<1>8. Control'
  BY <1>1, <1>2, <1>3, <1>4, <1>5, <1>6 DEF Inv, Control, StepsOf, Locked, At, Making
<1>9. Numbers'
  BY <1>1, <1>2, <1>3, <1>4, <1>5, <1>6, ZeroIsNone DEF Inv, Numbers, NumbersDistinct, Making, At, Locked
<1>10. BlocksKept'
  BY <1>1, <1>2, <1>3, <1>4, <1>5, <1>6, ZeroIsNone DEF Inv, BlocksKept, BlocksDistinct, At, Making
<1>11. QED  BY <1>7, <1>8, <1>9, <1>10 DEF Inv

\* The scan of the block bitmap.
LEMMA FindBlockInv ==
  ASSUME OneParent, Inv, NEW p \in Procs, FindBlock(p), AllocBlock(bmap) # {}, UNCHANGED written
  PROVE  Inv'
<1>1. \A q \in Procs : pc'[q] = IF q = p THEN "allocload" ELSE pc[q]
  BY DEF Inv, Typed, Goto, FindBlock
<1>2. UNCHANGED <<imap, bmap, lock, call, num, reg, own>>
  BY DEF Goto, FindBlock
<1>3. PICK b \in AllocBlock(bmap) : new' = [new EXCEPT ![p] = b]
  BY DEF FindBlock
<1>4. b \in Blocks \ bmap
  BY ScanFindsFree
<1>5. \A q \in Procs : new'[q] = IF q = p THEN b ELSE new[q]
  BY <1>3 DEF Inv, Typed
<1>6. pc[p] = "alloc" /\ call[p] \in {"mkdir", "write"}
  BY DEF FindBlock, At, Inv, Control, StepsOf, Locked
<1>7. Typed'
  BY <1>1, <1>2, <1>3, <1>4, <1>5, <1>6, ZeroIsNone DEF Inv, Typed, Goto, FindBlock
<1>8. Control'
  BY <1>1, <1>2, <1>3, <1>4, <1>5, <1>6 DEF Inv, Control, StepsOf, Locked, At, Making
<1>9. Numbers'
  BY <1>1, <1>2, <1>3, <1>4, <1>5, <1>6, ZeroIsNone DEF Inv, Numbers, NumbersDistinct, Making, At, Locked
<1>10. BlocksKept'
  BY <1>1, <1>2, <1>3, <1>4, <1>5, <1>6, ZeroIsNone DEF Inv, BlocksKept, BlocksDistinct, At, Making
<1>11. QED  BY <1>7, <1>8, <1>9, <1>10 DEF Inv

\* A byte of the block bitmap is loaded.
LEMMA LoadBlockInv ==
  ASSUME OneParent, Inv, NEW p \in Procs, LoadBlockByte(p), UNCHANGED written
  PROVE  Inv'
<1>1. \A q \in Procs : /\ pc'[q] = IF q = p THEN (IF pc[p] = "allocload" THEN "allocstore" ELSE "freestore") ELSE pc[q]
                       /\ reg'[q] = IF q = p THEN BlockByte(bmap, new[p]) ELSE reg[q]
  BY DEF Inv, Typed, Goto, LoadBlockByte, At
<1>2. UNCHANGED <<imap, bmap, lock, call, num, new, own>>
  BY DEF Goto, LoadBlockByte, At
<1>3. pc[p] \in {"allocload", "freeload"}
  BY DEF LoadBlockByte, At
<1>4. BlockByte(bmap, new[p]) \subseteq Blocks
  BY DEF Inv, Typed, BlockByte
<1>5. Typed'
  BY <1>1, <1>2, <1>3, <1>4, ZeroIsNone DEF Inv, Typed, Goto, LoadBlockByte
<1>6. Control'
  BY <1>1, <1>2, <1>3, <1>4 DEF Inv, Control, StepsOf, Locked, At, Making
<1>7. Numbers'
  BY <1>1, <1>2, <1>3, <1>4, ZeroIsNone DEF Inv, Numbers, NumbersDistinct, Making, At, Locked
<1>8. BlocksKept'
  BY <1>1, <1>2, <1>3, <1>4, ZeroIsNone DEF Inv, BlocksKept, BlocksDistinct, At, Making
<1>9. QED  BY <1>5, <1>6, <1>7, <1>8 DEF Inv

\* A byte of the inode bitmap is loaded.
LEMMA LoadInodeInv ==
  ASSUME OneParent, Inv, NEW p \in Procs, LoadInodeByte(p), UNCHANGED written
  PROVE  Inv'
<1>1. \A q \in Procs : /\ pc'[q] = IF q = p THEN (IF pc[p] = "markload" THEN "markstore" ELSE "clearstore") ELSE pc[q]
                       /\ reg'[q] = IF q = p THEN InodeByte(imap, num[p]) ELSE reg[q]
  BY DEF Inv, Typed, Goto, LoadInodeByte, At
<1>2. UNCHANGED <<imap, bmap, lock, call, num, new, own>>
  BY DEF Goto, LoadInodeByte, At
<1>3. pc[p] \in {"markload", "clearload"}
  BY DEF LoadInodeByte, At
<1>4. Typed'
  BY <1>1, <1>2, <1>3, ZeroIsNone DEF Inv, Typed, Goto, LoadInodeByte
<1>5. Control'
  BY <1>1, <1>2, <1>3 DEF Inv, Control, StepsOf, Locked, At, Making
<1>6. Numbers'
  BY <1>1, <1>2, <1>3, ZeroIsNone DEF Inv, Numbers, NumbersDistinct, Making, At, Locked
<1>7. BlocksKept'
  BY <1>1, <1>2, <1>3, ZeroIsNone DEF Inv, BlocksKept, BlocksDistinct, At, Making
<1>8. QED  BY <1>4, <1>5, <1>6, <1>7 DEF Inv

\* create and mkdir mark the number they found.
LEMMA MarkInv ==
  ASSUME OneParent, Inv, NEW p \in Procs, MarkInode(p), UNCHANGED written
  PROVE  Inv'
<1>1. \A q \in Procs : pc'[q] = IF q = p THEN "enter" ELSE pc[q]
  BY DEF Inv, Typed, Goto, MarkInode
<1>2. UNCHANGED <<bmap, lock, call, num, new, reg, own>>
  BY DEF Goto, MarkInode
<1>3. pc[p] = "markstore" /\ call[p] \in Making
  BY DEF MarkInode, At, Inv, Control, StepsOf, Locked, Making
<1>4. \A q \in Procs : q # p => call[q] \in {"write", "none"} /\ pc[q] \in {"idle", "alloc", "allocload", "allocstore"}
  BY <1>3, Alone DEF Inv, Making, Locked
<1>5. imap' = imap \cup {num[p]} /\ num[p] \in Inos \ imap
  BY <1>3, StoreChangesOneBit DEF MarkInode, Inv, Numbers
<1>6. \A q \in Procs : own[q].ino # num[p]
  BY <1>5, ZeroIsNone DEF Inv, Numbers
<1>7. Typed'
  BY <1>1, <1>2, <1>3, <1>4, <1>5, <1>6, ZeroIsNone DEF Inv, Typed, Goto, MarkInode
<1>8. Control'
  BY <1>1, <1>2, <1>3, <1>4, <1>5, <1>6 DEF Inv, Control, StepsOf, Locked, At, Making
<1>9. Numbers'
  BY <1>1, <1>2, <1>3, <1>4, <1>5, <1>6, ZeroIsNone DEF Inv, Numbers, NumbersDistinct, Making, At, Locked
<1>10. BlocksKept'
  BY <1>1, <1>2, <1>3, <1>4, <1>5, <1>6, ZeroIsNone DEF Inv, BlocksKept, BlocksDistinct, At, Making
<1>11. QED  BY <1>7, <1>8, <1>9, <1>10 DEF Inv

\* The file or directory has its name, and the call returns.
LEMMA AddEntryInv ==
  ASSUME OneParent, Inv, NEW p \in Procs, AddEntry(p), UNCHANGED written
  PROVE  Inv'
<1>1. \A q \in Procs : own'[q] = IF q = p THEN [ino |-> num[p], dir |-> call[p] = "mkdir", blocks |-> {new[p]} \ {0}] ELSE own[q]
  BY DEF Inv, Typed, Goto, AddEntry
<1>2. UNCHANGED <<imap, bmap>>
  BY DEF Goto, AddEntry
<1>3. Returned(p)
  BY ReturnLeaves DEF AddEntry, Inv
<1>4. pc[p] = "enter" /\ call[p] \in Making
  BY DEF AddEntry, At, Inv, Control, StepsOf, Locked, Making
<1>5. own[p].ino = 0 /\ num[p] \in imap /\ \A q \in Procs : own[q].ino # num[p]
  BY <1>4 DEF Inv, Numbers
<1>6. own'[p].ino = num[p] /\ own'[p].blocks = {new[p]} \ {0} /\ own'[p] \in Owned
  <2> DEFINE isdir == call[p] = "mkdir"
             rec   == [ino |-> num[p], dir |-> isdir, blocks |-> {new[p]} \ {0}]
  <2>1. own'[p] = rec
    BY <1>1
  <2>2. isdir \in BOOLEAN /\ num[p] \in Inos \cup {0} /\ {new[p]} \ {0} \in SUBSET Blocks
    BY DEF Inv, Typed
  <2> HIDE DEF isdir
  <2>3. rec \in Owned
    BY <2>2 DEF Owned
  <2>4. QED  BY <2>1, <2>3
<1>7. call[p] = "create" => new[p] = 0
  BY DEF Inv, Control
<1>8. \A q \in Procs : q # p => own'[q] = own[q]
  BY <1>1
<1>9. \A q \in Procs : q # p => call[q] \in {"write", "none"} /\ pc[q] \in {"idle", "alloc", "allocload", "allocstore"}
  BY <1>4, Alone DEF Inv, Making, Locked
<1>10. ~ written => \A q \in Procs : q # p => pc[q] = "idle"
  BY <1>9 DEF Inv, BlocksKept, Control, StepsOf, Locked
<1>11. ~ written => own'[p].blocks \subseteq bmap /\ \A q \in Procs : q # p => own'[p].blocks \cap own[q].blocks = {}
  BY <1>4, <1>6, <1>7 DEF Inv, BlocksKept, Making
<1>12. \A q \in Procs : /\ pc'[q] \in {"allocload", "allocstore"} => new'[q] # 0
                       /\ pc'[q] \in {"allocstore", "freestore"} => reg'[q] \subseteq Blocks
  BY <1>3 DEF Inv, Typed, Returned
<1>13. own' \in [Procs -> Owned]
  <2>1. DOMAIN own' = Procs
    BY DEF AddEntry, Inv, Typed
  <2>2. \A q \in Procs : own'[q] \in Owned
    BY <1>6, <1>8 DEF Inv, Typed
  <2>3. own' = [q \in Procs |-> own'[q]]
    BY <2>1 DEF AddEntry, Inv, Typed
  <2>4. QED  BY <2>2, <2>3
<1>14. Typed'
  BY <1>2, <1>3, <1>4, <1>5, <1>6, <1>7, <1>8, <1>9, <1>10, <1>11, <1>12, <1>13, ZeroIsNone DEF Inv, Typed, Goto, Returned
<1>15. Control'
  BY <1>2, <1>3, <1>4, <1>5, <1>6, <1>7, <1>8, <1>9, <1>10, <1>11, <1>12, <1>13 DEF Inv, Control, StepsOf, Locked, At, Making, Returned
<1>16. Numbers'
  BY <1>2, <1>3, <1>4, <1>5, <1>6, <1>7, <1>8, <1>9, <1>10, <1>11, <1>12, <1>13, ZeroIsNone DEF Inv, Numbers, NumbersDistinct, Making, At, Locked, Returned
<1>17. BlocksKept'
  BY <1>2, <1>3, <1>4, <1>5, <1>6, <1>7, <1>8, <1>9, <1>10, <1>11, <1>12, <1>13, ZeroIsNone DEF Inv, BlocksKept, BlocksDistinct, At, Making, Returned
<1>18. QED  BY <1>14, <1>15, <1>16, <1>17 DEF Inv

\* unlink and rmdir clear the bit of a block.
LEMMA FreeInv ==
  ASSUME OneParent, Inv, NEW p \in Procs, FreeBlock(p), UNCHANGED written
  PROVE  Inv'
<1>1. \A q \in Procs : pc'[q] = IF q = p THEN "release" ELSE pc[q]
  BY DEF Inv, Typed, Goto, FreeBlock
<1>2. UNCHANGED <<imap, lock, call, num, new, reg, own>>
  BY DEF Goto, FreeBlock
<1>3. pc[p] = "freestore" /\ call[p] = "remove"
  BY DEF FreeBlock, At, Inv, Control, StepsOf, Locked
<1>4. \A q \in Procs : q # p => call[q] \in {"write", "none"} /\ pc[q] \in {"idle", "alloc", "allocload", "allocstore"}
  BY <1>3, Alone DEF Inv, Making, Locked
<1>5. bmap' \subseteq Blocks
  BY <1>3 DEF FreeBlock, StoreBlockByte, Inv, Typed
<1>6. ~ written => bmap' = bmap \ {new[p]} /\ new[p] \in bmap /\ \A q \in Procs : new[p] \notin own[q].blocks
  BY <1>3, StoreChangesOneBit DEF FreeBlock, Inv, BlocksKept
<1>7. ~ written => \A q \in Procs : q # p => pc[q] = "idle"
  BY <1>4 DEF Inv, BlocksKept, Control, StepsOf, Locked
<1>8. ~ written => \A q \in Procs : own[q].blocks \subseteq bmap'
  BY <1>6 DEF Inv, BlocksKept
<1>9. Typed'
  BY <1>1, <1>2, <1>3, <1>4, <1>5, <1>6, <1>7, <1>8, ZeroIsNone DEF Inv, Typed, Goto, FreeBlock
<1>10. Control'
  BY <1>1, <1>2, <1>3, <1>4, <1>5, <1>6, <1>7, <1>8 DEF Inv, Control, StepsOf, Locked, At, Making
<1>11. Numbers'
  BY <1>1, <1>2, <1>3, <1>4, <1>5, <1>6, <1>7, <1>8, ZeroIsNone DEF Inv, Numbers, NumbersDistinct, Making, At, Locked
<1>12. BlocksKept'
  BY <1>1, <1>2, <1>3, <1>4, <1>5, <1>6, <1>7, <1>8, ZeroIsNone DEF Inv, BlocksKept, BlocksDistinct, At, Making
<1>13. QED  BY <1>9, <1>10, <1>11, <1>12 DEF Inv

\* unlink and rmdir clear the bit of the inode, and return.
LEMMA ClearInv ==
  ASSUME OneParent, Inv, NEW p \in Procs, ClearInode(p), UNCHANGED written
  PROVE  Inv'
<1>1. \A q \in Procs : own'[q] = IF q = p THEN Nothing ELSE own[q]
  BY DEF Inv, Typed, Goto, ClearInode
<1>2. UNCHANGED <<bmap>>
  BY DEF Goto, ClearInode
<1>3. Returned(p)
  BY ReturnLeaves DEF ClearInode, Inv
<1>4. pc[p] = "clearstore" /\ call[p] = "remove"
  BY DEF ClearInode, At, Inv, Control, StepsOf, Locked
<1>5. \A q \in Procs : q # p => call[q] \in {"write", "none"} /\ pc[q] \in {"idle", "alloc", "allocload", "allocstore"}
  BY <1>4, Alone DEF Inv, Making, Locked
<1>6. imap' = imap \ {num[p]} /\ num[p] = own[p].ino
  BY <1>4, StoreChangesOneBit DEF ClearInode, Inv, Numbers
<1>7. Nothing \in Owned /\ Nothing.ino = 0 /\ Nothing.blocks = {}
  BY DEF Nothing, Owned
<1>8. \A q \in Procs : /\ pc'[q] \in {"allocload", "allocstore"} => new'[q] # 0
                       /\ pc'[q] \in {"allocstore", "freestore"} => reg'[q] \subseteq Blocks
  BY <1>3 DEF Inv, Typed, Returned
<1>9. Typed'
  BY <1>1, <1>2, <1>3, <1>4, <1>5, <1>6, <1>7, <1>8, ZeroIsNone DEF Inv, Typed, Goto, ClearInode, Returned
<1>10. Control'
  BY <1>1, <1>2, <1>3, <1>4, <1>5, <1>6, <1>7, <1>8 DEF Inv, Control, StepsOf, Locked, At, Making, Returned
<1>11. Numbers'
  BY <1>1, <1>2, <1>3, <1>4, <1>5, <1>6, <1>7, <1>8, ZeroIsNone DEF Inv, Numbers, NumbersDistinct, Making, At, Locked, Returned
<1>12. BlocksKept'
  BY <1>1, <1>2, <1>3, <1>4, <1>5, <1>6, <1>7, <1>8, ZeroIsNone DEF Inv, BlocksKept, BlocksDistinct, At, Making, Returned
<1>13. QED  BY <1>9, <1>10, <1>11, <1>12 DEF Inv

\* mkdir sets the bit of its block.
LEMMA TakeMkdirInv ==
  ASSUME OneParent, Inv, NEW p \in Procs, TakeBlock(p), call[p] # "write", UNCHANGED written
  PROVE  Inv'
<1>1. \A q \in Procs : pc'[q] = IF q = p THEN "markload" ELSE pc[q]
  BY DEF Inv, Typed, Goto, TakeBlock
<1>2. UNCHANGED <<imap, lock, call, num, new, reg, own>>
  BY DEF Goto, TakeBlock
<1>3. pc[p] = "allocstore" /\ call[p] = "mkdir"
  BY DEF TakeBlock, At, Inv, Control, StepsOf, Locked
<1>4. \A q \in Procs : q # p => call[q] \in {"write", "none"} /\ pc[q] \in {"idle", "alloc", "allocload", "allocstore"}
  BY <1>3, Alone DEF Inv, Making, Locked
<1>5. bmap' \subseteq Blocks
  BY <1>3, ZeroIsNone DEF TakeBlock, StoreBlockByte, Inv, Typed
<1>6. ~ written => bmap' = bmap \cup {new[p]} /\ new[p] \in Blocks \ bmap
  BY <1>3, StoreChangesOneBit DEF TakeBlock, Inv, BlocksKept
<1>7. ~ written => \A q \in Procs : q # p => pc[q] = "idle"
  BY <1>4 DEF Inv, BlocksKept, Control, StepsOf, Locked
<1>8. Typed'
  BY <1>1, <1>2, <1>3, <1>4, <1>5, <1>6, <1>7, ZeroIsNone DEF Inv, Typed, Goto, TakeBlock
<1>9. Control'
  BY <1>1, <1>2, <1>3, <1>4, <1>5, <1>6, <1>7 DEF Inv, Control, StepsOf, Locked, At, Making
<1>10. Numbers'
  BY <1>1, <1>2, <1>3, <1>4, <1>5, <1>6, <1>7, ZeroIsNone DEF Inv, Numbers, NumbersDistinct, Making, At, Locked
<1>11. BlocksKept'
  BY <1>1, <1>2, <1>3, <1>4, <1>5, <1>6, <1>7, ZeroIsNone DEF Inv, BlocksKept, BlocksDistinct, At, Making
<1>12. QED  BY <1>8, <1>9, <1>10, <1>11 DEF Inv

\* naive_file_write attaches the block it found, whoever else has it.
LEMMA TakeWriteInv ==
  ASSUME OneParent, Inv, NEW p \in Procs, TakeBlock(p), call[p] = "write", UNCHANGED written
  PROVE  Inv'
<1>1. /\ own' = [own EXCEPT ![p].blocks = @ \cup {new[p]}] /\ Return(p)
      /\ StoreBlockByte(reg[p] \cup {new[p]}, new[p])
      /\ pc[p] = "allocstore" /\ UNCHANGED imap
  BY DEF TakeBlock, At
<1>2. Returned(p)
  BY <1>1, ReturnLeaves DEF Inv
<1>3. written /\ written'
  BY DEF Inv, Typed, BlocksKept
<1>4. new[p] \in Blocks
  BY <1>1, ZeroIsNone DEF Inv, Typed
<1>5. bmap' \subseteq Blocks
  BY <1>1, <1>4 DEF StoreBlockByte, Inv, Typed
<1>6. \A q \in Procs : own'[q].ino = own[q].ino /\ own'[q] \in Owned
  BY <1>1, <1>4 DEF Inv, Typed, Owned
<1>7. own' \in [Procs -> Owned]
  BY <1>1, <1>6 DEF Inv, Typed
<1>8. Typed'
  BY <1>1, <1>2, <1>5, <1>7 DEF Inv, Typed, Returned
<1>9. Control'
  BY <1>2 DEF Inv, Control, StepsOf, Locked, Returned
<1>10. Numbers'
  BY <1>1, <1>2, <1>6 DEF Inv, Numbers, NumbersDistinct, Making, Returned
<1>11. BlocksKept'
  BY <1>3 DEF BlocksKept
<1>12. QED  BY <1>8, <1>9, <1>10, <1>11 DEF Inv

\* unlink and rmdir go on to the inode number once no block is left.
LEMMA ReleaseInodeInv ==
  ASSUME OneParent, Inv, NEW p \in Procs, NextRelease(p), own[p].blocks = {}, UNCHANGED written
  PROVE  Inv'
<1>1. \A q \in Procs : /\ pc'[q] = IF q = p THEN "clearload" ELSE pc[q]
                       /\ num'[q] = IF q = p THEN own[p].ino ELSE num[q]
  BY DEF Inv, Typed, Goto, NextRelease
<1>2. UNCHANGED <<imap, bmap, lock, call, new, reg, own>>
  BY DEF Goto, NextRelease
<1>3. pc[p] = "release" /\ call[p] = "remove"
  BY DEF NextRelease, At, Inv, Control, StepsOf, Locked
<1>4. own[p].ino \in Inos \cup {0} /\ (num' = [num EXCEPT ![p] = own[p].ino])
  BY DEF NextRelease, Inv, Typed, Owned
<1>5. Typed'
  BY <1>1, <1>2, <1>3, <1>4, ZeroIsNone DEF Inv, Typed, Goto, NextRelease
<1>6. Control'
  BY <1>1, <1>2, <1>3, <1>4 DEF Inv, Control, StepsOf, Locked, At, Making
<1>7. Numbers'
  BY <1>1, <1>2, <1>3, <1>4, ZeroIsNone DEF Inv, Numbers, NumbersDistinct, Making, At, Locked
<1>8. BlocksKept'
  BY <1>1, <1>2, <1>3, <1>4, ZeroIsNone DEF Inv, BlocksKept, BlocksDistinct, At, Making
<1>9. QED  BY <1>5, <1>6, <1>7, <1>8 DEF Inv

\* unlink and rmdir take the next block.
LEMMA ReleaseBlockInv ==
  ASSUME OneParent, Inv, NEW p \in Procs, NextRelease(p), own[p].blocks # {}, UNCHANGED written
  PROVE  Inv'
<1>1. \A q \in Procs : pc'[q] = IF q = p THEN "freeload" ELSE pc[q]
  BY DEF Inv, Typed, Goto, NextRelease
<1>2. UNCHANGED <<imap, bmap, lock, call, num, reg>>
  BY DEF Goto, NextRelease
<1>3. PICK b \in own[p].blocks : new' = [new EXCEPT ![p] = b] /\ own' = [own EXCEPT ![p].blocks = @ \ {b}]
  BY DEF NextRelease
<1>4. pc[p] = "release" /\ call[p] = "remove"
  BY DEF NextRelease, At, Inv, Control, StepsOf, Locked
<1>5. b \in Blocks
  BY DEF Inv, Typed, Owned
<1>6. \A q \in Procs : new'[q] = IF q = p THEN b ELSE new[q]
  BY <1>3 DEF Inv, Typed
<1>7. \A q \in Procs : own'[q].ino = own[q].ino /\ own'[q].blocks = (IF q = p THEN own[p].blocks \ {b} ELSE own[q].blocks) /\ own'[q] \in Owned
  BY <1>3 DEF Inv, Typed, Owned
<1>8. own' \in [Procs -> Owned]
  BY <1>3, <1>7 DEF Inv, Typed
<1>9. \A q \in Procs : q # p => call[q] \in {"write", "none"} /\ pc[q] \in {"idle", "alloc", "allocload", "allocstore"}
  BY <1>4, Alone DEF Inv, Making, Locked
<1>10. ~ written => b \in bmap /\ \A q \in Procs : q # p => b \notin own[q].blocks
  BY DEF Inv, BlocksKept, BlocksDistinct
<1>11. ~ written => \A q \in Procs : q # p => pc[q] = "idle"
  BY <1>9 DEF Inv, BlocksKept, Control, StepsOf, Locked
<1>12. Typed'
  BY <1>1, <1>2, <1>3, <1>4, <1>5, <1>6, <1>7, <1>8, <1>9, <1>10, <1>11, ZeroIsNone DEF Inv, Typed, Goto, NextRelease
<1>13. Control'
  BY <1>1, <1>2, <1>3, <1>4, <1>5, <1>6, <1>7, <1>8, <1>9, <1>10, <1>11 DEF Inv, Control, StepsOf, Locked, At, Making
<1>14. Numbers'
  BY <1>1, <1>2, <1>3, <1>4, <1>5, <1>6, <1>7, <1>8, <1>9, <1>10, <1>11, ZeroIsNone DEF Inv, Numbers, NumbersDistinct, Making, At, Locked
<1>15. BlocksKept'
  BY <1>1, <1>2, <1>3, <1>4, <1>5, <1>6, <1>7, <1>8, <1>9, <1>10, <1>11, ZeroIsNone DEF Inv, BlocksKept, BlocksDistinct, At, Making
<1>16. QED  BY <1>12, <1>13, <1>14, <1>15 DEF Inv

\* A write begins: from now on nothing is claimed of the blocks.
LEMMA EnterWriteInv ==
  ASSUME Inv, NEW p \in Procs, EnterWrite(p)
  PROVE  Inv'
<1>1. \A q \in Procs : /\ pc'[q] = IF q = p THEN "alloc" ELSE pc[q]
                       /\ call'[q] = IF q = p THEN "write" ELSE call[q]
  BY DEF Inv, Typed, EnterWrite, Goto
<1>2. /\ written' = TRUE /\ UNCHANGED <<imap, bmap, lock, num, new, reg, own>>
      /\ DOMAIN pc' = Procs /\ DOMAIN call' = Procs
  BY DEF EnterWrite, Goto, Inv, Typed
<1>3. Typed'
  BY <1>1, <1>2 DEF Inv, Typed
<1>4. Control'
  BY <1>1, <1>2 DEF Inv, Control, StepsOf, Locked
<1>5. Numbers'
  BY <1>1, <1>2 DEF Inv, Numbers, NumbersDistinct, Making
<1>6. BlocksKept'
  BY <1>2 DEF BlocksKept
<1>7. QED  BY <1>3, <1>4, <1>5, <1>6 DEF Inv

\* Every step keeps the invariant.
LEMMA NextInv == OneParent /\ Inv /\ [Next]_vars => Inv'
<1> SUFFICES ASSUME OneParent, Inv, [Next]_vars PROVE Inv'
  OBVIOUS
<1>1. CASE UNCHANGED vars
  <2>1. Typed' /\ Control'
    BY <1>1 DEF vars, Inv, Typed, Control
  <2>2. Numbers' /\ BlocksKept'
    BY <1>1 DEF vars, Inv, Numbers, NumbersDistinct, BlocksKept, BlocksDistinct
  <2>3. QED  BY <2>1, <2>2 DEF Inv
<1>2. CASE Next
  <2>1. PICK p \in Procs :
          \/ EnterWrite(p)
          \/ /\ \/ Enter(p, "create", "find") \/ Enter(p, "mkdir", "find") \/ Enter(p, "remove", "release")
                \/ FindInode(p) \/ FindBlock(p) \/ LoadBlockByte(p) \/ TakeBlock(p)
                \/ LoadInodeByte(p) \/ MarkInode(p) \/ AddEntry(p)
                \/ NextRelease(p) \/ FreeBlock(p) \/ ClearInode(p)
             /\ UNCHANGED written
    BY <1>2 DEF Next
  <2>2. CASE EnterWrite(p)
    BY <2>2, EnterWriteInv
  <2> SUFFICES ASSUME ~ EnterWrite(p) PROVE Inv'
    BY <2>2
  <2>3. UNCHANGED written
    BY <2>1
  <2>4. CASE Enter(p, "create", "find") \/ Enter(p, "mkdir", "find") \/ Enter(p, "remove", "release")
    <3>1. CASE Enter(p, "create", "find")
      <4>1. "create" \in Locked /\ "find" \in {"find", "release"} /\ ("find" = "find") = ("create" # "remove")
        BY DEF Locked
      <4>2. QED  BY <2>3, <3>1, <4>1, EnterInv
    <3>2. CASE Enter(p, "mkdir", "find")
      <4>1. "mkdir" \in Locked /\ "find" \in {"find", "release"} /\ ("find" = "find") = ("mkdir" # "remove")
        BY DEF Locked
      <4>2. QED  BY <2>3, <3>2, <4>1, EnterInv
    <3>3. CASE Enter(p, "remove", "release")
      <4>1. "remove" \in Locked /\ "release" \in {"find", "release"} /\ ("release" = "find") = ("remove" # "remove")
        BY DEF Locked
      <4>2. QED  BY <2>3, <3>3, <4>1, EnterInv
    <3>4. QED  BY <2>4, <3>1, <3>2, <3>3
  <2>5. CASE FindInode(p)
    <3>1. CASE FindFreeInode(imap) = {}
      BY <2>3, <2>5, <3>1, GivesUp DEF FindInode
    <3>2. QED  BY <2>3, <2>5, <3>1, FindInodeInv
  <2>6. CASE FindBlock(p)
    <3>1. CASE AllocBlock(bmap) = {}
      BY <2>3, <2>6, <3>1, GivesUp DEF FindBlock
    <3>2. QED  BY <2>3, <2>6, <3>1, FindBlockInv
  <2>7. CASE LoadBlockByte(p) \/ LoadInodeByte(p)
    BY <2>3, <2>7, LoadBlockInv, LoadInodeInv
  <2>8. CASE TakeBlock(p)
    BY <2>3, <2>8, TakeMkdirInv, TakeWriteInv
  <2>9. CASE MarkInode(p) \/ AddEntry(p)
    BY <2>3, <2>9, MarkInv, AddEntryInv
  <2>10. CASE NextRelease(p)
    BY <2>3, <2>10, ReleaseInodeInv, ReleaseBlockInv
  <2>11. CASE FreeBlock(p) \/ ClearInode(p)
    BY <2>3, <2>11, FreeInv, ClearInv
  <2>12. QED  BY <2>1, <2>2, <2>4, <2>5, <2>6, <2>7, <2>8, <2>9, <2>10, <2>11
<1>3. QED  BY <1>1, <1>2

\* With one directory, numbers of files are distinct and marked however
\* creates, removals and writes interleave; and as long as nobody writes to a
\* file, blocks are in one file each and marked.
THEOREM OneLockIsEnough ==
  OneParent => (Spec => [](NumbersDistinct /\ NumbersMarked /\ LockKeepsBlocks))
<1> SUFFICES ASSUME OneParent PROVE Spec => [](NumbersDistinct /\ NumbersMarked /\ LockKeepsBlocks)
  OBVIOUS
<1>1. Inv /\ [Next]_vars => Inv'
  BY NextInv
<1>2. QED  BY <1>1, InitInv, InvIsProperties, PTL DEF Spec
============================================================================
