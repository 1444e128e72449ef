---------------------------- MODULE NaiveComplete ----------------------------
(***************************************************************************)
(* naivefs-complete: files are inodes and dentries only, readdir hands out *)
(* a table compiled into the module, and one static counter numbers the    *)
(* inodes of every mounted device.                                         *)
(*                                                                         *)
(* create, mkdir, unlink and rmdir of a mount run one at a time, under the *)
(* VFS's lock of the root; ino_counter++ is a load and a store that no     *)
(* lock covers.  A call that fails (new_inode, a bad superblock) changes   *)
(* nothing.                                                                *)
(***************************************************************************)
EXTENDS Integers, FiniteSets

CONSTANTS Mounts,     \* devices that may be mounted
          Names,      \* names users give
          Readers,    \* bound: the mounts whose root is read
          FirstIno,   \* 100
          LastIno     \* bound: no create beyond this number

ASSUME CompleteAssumption ==
  FirstIno \in Nat /\ LastIno \in Nat /\ FirstIno <= LastIno

VARIABLES
  ino_counter,  \* the static counter of naive_create
  mounted,      \* the mounted devices
  dent,         \* dent[m]: the root's entries, [name, ino, dir]
  links,        \* links[m]: the root's link count
  call,         \* call[m]: the create or mkdir under way, an entry, or none
  pos,          \* pos[m]: the position of m's open root directory
  overlapped    \* history: two calls were between the load and the store

cvars == <<ino_counter, mounted, dent, links, call, pos, overlapped>>

Entry == [name : Names, ino : FirstIno .. LastIno, dir : BOOLEAN]
Closed == -1
TableSize == 4       \* ".", "..", "testfile.txt", "testdir"

Init ==
  /\ ino_counter = FirstIno /\ mounted = {}
  /\ dent = [m \in Mounts |-> {}] /\ links = [m \in Mounts |-> 0]
  /\ call = [m \in Mounts |-> {}] /\ pos = [m \in Mounts |-> Closed]
  /\ overlapped = FALSE

\* fill_super and kill_block_super; the counter is nobody's to reset.
Mount(m) ==
  /\ m \notin mounted /\ mounted' = mounted \cup {m}
  /\ links' = [links EXCEPT ![m] = 2]
  /\ UNCHANGED <<ino_counter, dent, call, pos, overlapped>>

Unmount(m) ==
  /\ m \in mounted /\ call[m] = {} /\ pos[m] = Closed
  /\ mounted' = mounted \ {m}
  /\ dent' = [dent EXCEPT ![m] = {}] /\ links' = [links EXCEPT ![m] = 0]
  /\ UNCHANGED <<ino_counter, call, pos, overlapped>>
----------------------------------------------------------------------------
\* create or mkdir up to the load of "ino_counter++".
LoadCounter(m, n, isdir) ==
  /\ m \in mounted /\ call[m] = {} /\ \A e \in dent[m] : e.name # n
  /\ ino_counter <= LastIno
  /\ call' = [call EXCEPT ![m] = {[name |-> n, ino |-> ino_counter, dir |-> isdir]}]
  /\ overlapped' = (overlapped \/ \E k \in Mounts : call[k] # {})
  /\ UNCHANGED <<ino_counter, mounted, dent, links, pos>>

\* Mutants: the counter moves for directories only; mkdir links no parent.
CounterAfterDir(e) == IF e.dir THEN e.ino + 1 ELSE e.ino
LinksKept(n, e) == n

CounterAfter(e) == e.ino + 1
LinksAfterMake(n, e) == IF e.dir THEN n + 1 ELSE n

\* The store, d_instantiate, and inc_nlink(dir) for a directory.
Finish(m) == \E e \in call[m] :
  /\ ino_counter' = CounterAfter(e)
  /\ dent' = [dent EXCEPT ![m] = @ \cup {e}]
  /\ links' = [links EXCEPT ![m] = LinksAfterMake(@, e)]
  /\ call' = [call EXCEPT ![m] = {}]
  /\ UNCHANGED <<mounted, pos, overlapped>>

\* unlink drops the link of the file, rmdir that of the root: the VFS calls
\* each for its own kind only.
LinksAfterRemove(n, e) == IF e.dir THEN n - 1 ELSE n

Remove(m, e) ==
  /\ m \in mounted /\ call[m] = {} /\ e \in dent[m]
  /\ dent' = [dent EXCEPT ![m] = @ \ {e}]
  /\ links' = [links EXCEPT ![m] = LinksAfterRemove(@, e)]
  /\ UNCHANGED <<ino_counter, mounted, call, pos, overlapped>>
----------------------------------------------------------------------------
OpenDir(m) ==
  /\ m \in mounted \cap Readers /\ pos[m] = Closed
  /\ pos' = [pos EXCEPT ![m] = 0]
  /\ UNCHANGED <<ino_counter, mounted, dent, links, call, overlapped>>

\* Mutants: ctx->pos is not moved; the test of the position is missing.
PosKept(p) == {p}
PosUnchecked(p) == (p + 1) .. (p + TableSize)

\* The position after a call with room for one name or more: the table is
\* handed out from its first name, up to as many as the position leaves.
PosAfter(p) == (p + 1) .. TableSize

\* A reader calls until nothing comes back, and closes.
Getdents(m) ==
  /\ pos[m] # Closed
  /\ \E p \in (IF pos[m] >= TableSize THEN {Closed} ELSE PosAfter(pos[m])) :
        pos' = [pos EXCEPT ![m] = p]
  /\ UNCHANGED <<ino_counter, mounted, dent, links, call, overlapped>>

Next == \E m \in Mounts :
  \/ Mount(m) \/ Unmount(m) \/ OpenDir(m) \/ Getdents(m) \/ Finish(m)
  \/ \E n \in Names, isdir \in BOOLEAN : LoadCounter(m, n, isdir)
  \/ \E e \in dent[m] : Remove(m, e)

\* A reader that has a directory open goes on calling readdir.
FairSpec == Init /\ [][Next]_cvars /\ \A m \in Mounts : WF_cvars(Getdents(m))
----------------------------------------------------------------------------
TypeOK ==
  /\ ino_counter \in FirstIno .. LastIno + 1 /\ mounted \subseteq Mounts
  /\ dent \in [Mounts -> SUBSET Entry] /\ call \in [Mounts -> SUBSET Entry]
  /\ links \in [Mounts -> Nat]
  /\ pos \in [Mounts -> Closed .. TableSize]
  /\ overlapped \in BOOLEAN

\* The root's link count is 2 and its subdirectories, whatever mixture of
\* unlink and rmdir took entries away.
RootLinkCount ==
  \A m \in mounted : links[m] = 2 + Cardinality({e \in dent[m] : e.dir})

\* As long as no two calls read the counter before either stored it, no two
\* files have one number, over all mounts and remounts.  (Two calls of two
\* mounts are enough: the slower store sets the counter back, and the faster
\* mount hands out its own numbers again.)
NumbersDistinct ==
  ~ overlapped => \A m, k \in Mounts : \A e \in dent[m], f \in dent[k] :
     /\ e.ino < ino_counter
     /\ e.ino = f.ino => m = k /\ e = f

\* A reader that goes on calling readdir comes to the end, however little
\* room its buffer has.
ListingEnds == \A m \in Mounts : pos[m] # Closed ~> pos[m] = Closed
============================================================================
