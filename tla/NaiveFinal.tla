----------------------------- MODULE NaiveFinal -----------------------------
(***************************************************************************)
(* naivefs-final: a file system in memory.  One list and one counter of    *)
(* the module (naivefs.c:37-38) serve every mounted device; the names of a *)
(* mount's root directory are the dcache's.                                *)
(*                                                                         *)
(* Each handler is one step.  Files live in the root only: a directory     *)
(* that mkdir makes has no create of its own.                              *)
(***************************************************************************)
EXTENDS Integers, Sequences, FiniteSets, SequencesExt

CONSTANTS Mounts,           \* devices that may be mounted
          Names,            \* names users give to files
          DirNames,         \* bound: the names users give to directories
          LongNames,        \* those of 30 bytes and more
          Cut,              \* the 29 bytes every member of LongNames starts with
          README, example,  \* the names fill_super creates
          Readers,          \* bound: the mounts whose root is read
          FirstIno,         \* 100
          LastIno           \* bound: no create beyond this number

ASSUME FinalAssumption ==
  /\ LongNames \subseteq Names /\ DirNames \subseteq Names /\ Readers \subseteq Mounts
  /\ {Cut, README, example} \cap LongNames = {}
  /\ README # example /\ Cut \notin {README, example}
  /\ FirstIno \in Nat /\ LastIno \in Nat /\ FirstIno + 2 <= LastIno

VARIABLES
  file_list,      \* the list: <<[name, inode_no, is_dir], ...>>
  next_inode_no,
  mounted,        \* the mounted devices
  dent,           \* dent[m]: the names of m's root that lookup finds
  pos,            \* pos[m]: the position of m's open root directory; past the
                  \* dots only whether it is even (2) or odd (3)
  shared,         \* history: the list was emptied while a device was mounted
  starved         \* history: an entry could not be allocated since the list was emptied

fvars == <<file_list, next_inode_no, mounted, dent, pos, shared, starved>>

Closed == -1
Stored(n) == IF n \in LongNames THEN Cut ELSE n
Entry(n, ino, isdir) == [name |-> n, inode_no |-> ino, is_dir |-> isdir]

Init ==
  /\ file_list = <<>> /\ next_inode_no = FirstIno
  /\ mounted = {}
  /\ dent = [m \in Mounts |-> {}] /\ pos = [m \in Mounts |-> Closed]
  /\ shared = FALSE /\ starved = FALSE
----------------------------------------------------------------------------
\* Mutant of Exists: no name is ever taken.
ExistsNever(list, n) == FALSE

\* The strcmp of naive_create: the stored name against the whole given one.
Exists(list, n) == \E i \in DOMAIN list : list[i].name = n

\* Mutant of Created: the name is stored whole.
CreatedUncut(l, n, isdir, listed) ==
  [list |-> IF listed THEN Append(l.list, Entry(n, l.next, isdir)) ELSE l.list,
   next |-> l.next + 1]

\* naive_create past its check, on a list and counter: the counter moves even
\* when the entry cannot be allocated.
Created(l, n, isdir, listed) ==
  [list |-> IF listed THEN Append(l.list, Entry(Stored(n), l.next, isdir)) ELSE l.list,
   next |-> l.next + 1]

\* Mutant of Removed: the newest entry goes, whatever its name.
RemovedNewest(list, n) == IF list = <<>> THEN list ELSE Front(list)

\* The loop of naive_unlink: the first entry of that name goes.
Removed(list, n) ==
  LET hits == {i \in DOMAIN list : list[i].name = n}
  IN  IF hits = {} THEN list
      ELSE RemoveAt(list, CHOOSE i \in hits : \A j \in hits : i <= j)

\* create and mkdir; the VFS calls them for a name lookup did not find.
Create(m, n, isdir, listed) ==
  /\ m \in mounted /\ \A e \in dent[m] : e.name # n
  /\ ~ Exists(file_list, n)
  /\ next_inode_no <= LastIno
  /\ LET l == Created([list |-> file_list, next |-> next_inode_no], n, isdir, listed)
     IN  file_list' = l.list /\ next_inode_no' = l.next
  /\ dent' = [dent EXCEPT ![m] = @ \cup {Entry(n, next_inode_no, isdir)}]
  /\ starved' = (starved \/ ~ listed)
  /\ UNCHANGED <<mounted, pos, shared>>

\* unlink and rmdir: by name only, and the VFS drops the dentry.
Unlink(m, e) ==
  /\ m \in mounted /\ e \in dent[m]
  /\ file_list' = Removed(file_list, e.name)
  /\ dent' = [dent EXCEPT ![m] = @ \ {e}]
  /\ UNCHANGED <<next_inode_no, mounted, pos, shared, starved>>
----------------------------------------------------------------------------
\* Mutant of Emptied: only the counter is reset.
EmptiedCounterOnly == [list |-> file_list, next |-> FirstIno]

\* The list and counter fill_super starts from.
Emptied == [list |-> <<>>, next |-> FirstIno]

\* How pre-creating one name went: no dentry or inode, no entry, or all made.
Outcomes == {"no file", "no entry", "made"}

Precreated(l, n, isdir, outcome) ==
  IF outcome = "no file" THEN l ELSE Created(l, n, isdir, outcome = "made")

\* fill_super empties the list of every mount and pre-creates two names.
\* Their dentries are never hashed (d_alloc, d_instantiate), so lookup does
\* not find them.
FillSuper(m, file, dir) ==
  /\ m \notin mounted
  /\ LET l == Precreated(Precreated(Emptied, README, FALSE, file), example, TRUE, dir)
     IN  file_list' = l.list /\ next_inode_no' = l.next
  /\ mounted' = mounted \cup {m}
  /\ shared' = (mounted # {})
  /\ starved' = ({file, dir} # {"made"})
  /\ UNCHANGED <<dent, pos>>

\* The magic number is wrong, a read or an allocation fails: the list is
\* emptied before anything is looked at.
FillFails(m) ==
  /\ m \notin mounted
  /\ file_list' = Emptied.list /\ next_inode_no' = Emptied.next
  /\ shared' = (mounted # {}) /\ starved' = FALSE
  /\ UNCHANGED <<mounted, dent, pos>>

\* kill_block_super: nothing of the list is dropped.
Unmount(m) ==
  /\ m \in mounted /\ pos[m] = Closed
  /\ mounted' = mounted \ {m} /\ dent' = [dent EXCEPT ![m] = {}]
  /\ UNCHANGED <<file_list, next_inode_no, pos, shared, starved>>
----------------------------------------------------------------------------
OpenDir(m) ==
  /\ m \in mounted \cap Readers /\ pos[m] = Closed
  /\ pos' = [pos EXCEPT ![m] = 0]
  /\ UNCHANGED <<file_list, next_inode_no, mounted, dent, shared, starved>>

\* What one call of readdir may leave the position at when the buffer has
\* room for one name or more: "." and ".." by position, then the whole list
\* from its head, whatever the position.
PosAfter(p) == IF p < 2 THEN (p + 1) .. 3 ELSE {2, 3}

\* Nothing is emitted only past the dots with an empty list.
NothingLeft(p) == p >= 2 /\ file_list = <<>>

\* A reader calls until nothing comes back, and closes.
Getdents(m) ==
  /\ pos[m] # Closed
  /\ \E p \in (IF NothingLeft(pos[m]) THEN {Closed} ELSE PosAfter(pos[m])) :
        pos' = [pos EXCEPT ![m] = p]
  /\ UNCHANGED <<file_list, next_inode_no, mounted, dent, shared, starved>>

Next == \E m \in Mounts :
  \/ \E n \in Names, listed \in BOOLEAN : Create(m, n, n \in DirNames, listed)
  \/ \E e \in dent[m] : Unlink(m, e)
  \/ \E file, dir \in Outcomes : FillSuper(m, file, dir)
  \/ FillFails(m)
  \/ Unmount(m)
  \/ OpenDir(m)
  \/ Getdents(m)

Spec == Init /\ [][Next]_fvars

\* A reader that has a directory open goes on calling readdir.
FairSpec == Spec /\ \A m \in Mounts : WF_fvars(Getdents(m))
----------------------------------------------------------------------------
TypeOK ==
  /\ file_list \in Seq([name : (Names \ LongNames) \cup {Cut, README, example},
                        inode_no : FirstIno .. LastIno, is_dir : BOOLEAN])
  /\ next_inode_no \in FirstIno .. LastIno + 1
  /\ mounted \subseteq Mounts
  /\ dent \in [Mounts -> SUBSET [name : Names, inode_no : FirstIno .. LastIno, is_dir : BOOLEAN]]
  /\ pos \in [Mounts -> Closed .. 3]
  /\ shared \in BOOLEAN /\ starved \in BOOLEAN

\* The list never holds a number twice or a number the counter has still to
\* give out, nor a name twice unless it was cut: not even when mounts that
\* fail or succeed empty the list under other mounts.
ListConsistent ==
  \A i, j \in DOMAIN file_list :
     /\ file_list[i].inode_no < next_inode_no
     /\ i # j => /\ file_list[i].inode_no # file_list[j].inode_no
                 /\ file_list[i].name # file_list[j].name \/ file_list[i].name = Cut

Listed == {e \in ToSet(file_list) : e.name # Cut}
Found(m) == {e \in dent[m] : Stored(e.name) # Cut}
OnlyListed(e) == e.name \in {README, example}

\* While one device is mounted and the module's list was not emptied under
\* it, readdir shows what lookup finds, with the same number and type, and
\* besides it only the two names fill_super made.
ListFollowsNames ==
  ~ shared => \A m \in mounted :
     /\ \A e \in Listed : e \in dent[m] \/ OnlyListed(e)
     /\ ~ starved => Found(m) \subseteq Listed

\* While no allocation fails, a user cannot get rid of README and example, nor
\* make a file of these names: lookup does not find them and create does.
ExamplesStay ==
  ~ shared /\ ~ starved /\ mounted # {} =>
     /\ {README, example} \subseteq {e.name : e \in Listed}
     /\ \A m \in mounted : \A e \in dent[m] : ~ OnlyListed(e)

\* "Output the file list" (naivefs.c:139): a reader that goes on calling
\* readdir comes to the end of the directory.
ListingEnds == \A m \in Mounts : pos[m] # Closed ~> pos[m] = Closed
=============================================================================
