------------------------ MODULE NaiveCompleteProofs ------------------------
(***************************************************************************)
(* Theorems about naivefs-complete, for any number of mounts and names.    *)
(*                                                                         *)
(* The link count of a root is right only because an entry is counted when *)
(* it appears and when it goes, and exactly once: the invariant keeps the  *)
(* entry of a call under way apart from the root's.  The numbers are       *)
(* distinct as long as calls do not overlap: then the one call under way   *)
(* holds the counter's value and no entry has reached it.                  *)
(***************************************************************************)
EXTENDS NaiveComplete, FiniteSetTheorems, TLAPS

----------------------------------------------------------------------------
(* The inductive invariant.                                                *)

\* The types, but for the link counts.
Typed ==
  /\ ino_counter \in FirstIno .. LastIno + 1 /\ mounted \subseteq Mounts
  /\ dent \in [Mounts -> SUBSET Entry] /\ call \in [Mounts -> SUBSET Entry]
  /\ links \in [Mounts -> Int]
  /\ pos \in [Mounts -> Closed .. TableSize]
  /\ overlapped \in BOOLEAN

\* A device that is not mounted has no entries, and only a mounted one has a
\* call under way, for a name its root does not have.
CallsFit ==
  \A m \in Mounts :
     /\ IsFiniteSet(dent[m])
     /\ m \notin mounted => dent[m] = {} /\ call[m] = {} /\ links[m] = 0
     /\ \A e \in call[m] : \A f \in dent[m] : f.name # e.name

\* The entries that are directories, and the count of a root with them.
Dirs(S) == {e \in S : e.dir}
Counted == \A m \in mounted : links[m] = 2 + Cardinality(Dirs(dent[m]))

\* While calls do not overlap, one at most is under way, with the counter's
\* value, and every entry has a smaller number of its own.
Numbered ==
  ~ overlapped =>
     /\ \A m, k \in Mounts : \A e \in call[m], f \in call[k] :
          e.ino = ino_counter /\ m = k /\ e = f
     /\ \A m, k \in Mounts : \A e \in dent[m], f \in dent[k] :
          e.ino < ino_counter /\ (e.ino = f.ino => m = k /\ e = f)

Inv == Typed /\ CallsFit /\ Counted /\ Numbered

\* The invariant gives the properties.
LEMMA InvIsProperties == Inv => TypeOK /\ RootLinkCount /\ NumbersDistinct
<1> SUFFICES ASSUME Inv PROVE TypeOK /\ RootLinkCount /\ NumbersDistinct
  OBVIOUS
<1>1. ASSUME NEW m \in Mounts PROVE links[m] \in Nat
  <2>1. CASE m \in mounted
    <3>1. Cardinality(Dirs(dent[m])) \in Nat
      <4>1. IsFiniteSet(Dirs(dent[m]))
        BY FS_Subset DEF Inv, CallsFit, Dirs
      <4>2. QED  BY <4>1, FS_CardinalityType
    <3>2. links[m] = 2 + Cardinality(Dirs(dent[m]))
      BY <2>1 DEF Inv, Counted
    <3>3. QED  BY <3>1, <3>2
  <2>2. CASE m \notin mounted
    BY <2>2 DEF Inv, CallsFit
  <2>3. QED  BY <2>1, <2>2
<1>2. TypeOK
  BY <1>1 DEF Inv, Typed, TypeOK
<1>3. RootLinkCount
  BY DEF Inv, Counted, Dirs, RootLinkCount
<1>4. NumbersDistinct
  BY DEF Inv, Numbered, NumbersDistinct
<1>5. QED  BY <1>2, <1>3, <1>4

\* Nothing is mounted at first.
LEMMA InitInv == Init => Inv
<1> SUFFICES ASSUME Init PROVE Inv
  OBVIOUS
<1>1. Typed
  <2>1. FirstIno \in FirstIno .. LastIno + 1
    BY CompleteAssumption
  <2>2. Closed \in Closed .. TableSize
    BY DEF Closed, TableSize
  <2>3. dent \in [Mounts -> SUBSET Entry] /\ call \in [Mounts -> SUBSET Entry]
    BY DEF Init
  <2>4. links \in [Mounts -> Int] /\ pos \in [Mounts -> Closed .. TableSize]
    BY <2>2 DEF Init
  <2>5. QED  BY <2>1, <2>3, <2>4 DEF Init, Typed
<1>2. CallsFit
  BY FS_EmptySet DEF Init, CallsFit
<1>3. Counted /\ Numbered
  BY DEF Init, Counted, Numbered
<1>4. QED  BY <1>1, <1>2, <1>3 DEF Inv

----------------------------------------------------------------------------
(* The steps.                                                              *)

\* A device is mounted: its root has no entries and two links.
LEMMA MountInv == ASSUME Inv, NEW m \in Mounts, Mount(m) PROVE Inv'
<1>1. Typed'
  BY DEF Inv, Typed, Mount
<1>2. CallsFit'
  BY DEF Inv, Typed, CallsFit, Mount
<1>3. Counted'
  <2>1. Dirs(dent[m]) = {} /\ Cardinality({}) = 0
    BY FS_EmptySet DEF Inv, CallsFit, Mount, Dirs
  <2>2. 2 = 2 + Cardinality(Dirs(dent[m]))
    BY <2>1
  <2>3. m \in Mounts /\ links' = [links EXCEPT ![m] = 2] /\ mounted' = mounted \cup {m} /\ dent' = dent
    BY DEF Mount
  <2>4. QED  BY <2>2, <2>3 DEF Inv, Typed, Counted
<1>4. Numbered'
  BY DEF Inv, Numbered, Mount
<1>5. QED  BY <1>1, <1>2, <1>3, <1>4 DEF Inv

\* An unmount drops the entries.
LEMMA UnmountInv == ASSUME Inv, NEW m \in Mounts, Unmount(m) PROVE Inv'
<1>1. Typed'
  BY DEF Inv, Typed, Unmount
<1>2. CallsFit'
  BY FS_EmptySet DEF Inv, Typed, CallsFit, Unmount
<1>3. Counted'
  BY DEF Inv, Typed, Counted, Unmount
<1>4. Numbered'
  BY DEF Inv, Typed, Numbered, Unmount
<1>5. QED  BY <1>1, <1>2, <1>3, <1>4 DEF Inv

\* A call loads the counter, beside others or alone.
LEMMA LoadInv ==
  ASSUME Inv, NEW m \in Mounts, NEW n \in Names, NEW isdir \in BOOLEAN, LoadCounter(m, n, isdir)
  PROVE  Inv'
<1> DEFINE new == [name |-> n, ino |-> ino_counter, dir |-> isdir]
<1>1. new \in Entry /\ new.name = n /\ new.ino = ino_counter
  BY CompleteAssumption DEF Inv, Typed, LoadCounter, Entry
<1>2. call' = [call EXCEPT ![m] = {new}]
  BY DEF LoadCounter
<1> HIDE DEF new
<1>3. Typed'
  BY <1>1, <1>2 DEF Inv, Typed, LoadCounter
<1>4. CallsFit'
  BY <1>1, <1>2 DEF Inv, Typed, CallsFit, LoadCounter
<1>5. Counted'
  BY DEF Inv, Counted, LoadCounter
<1>6. Numbered'
  <2> SUFFICES ASSUME ~ overlapped' PROVE Numbered'
    BY DEF Numbered
  <2>1. ~ overlapped /\ (\A k \in Mounts : call[k] = {}) /\ ino_counter' = ino_counter /\ dent' = dent
    BY DEF LoadCounter
  <2>2. \A k \in Mounts : call'[k] = IF k = m THEN {new} ELSE {}
    BY <1>2, <2>1 DEF Inv, Typed
  <2>3. \A k, l \in Mounts : \A e \in call'[k], f \in call'[l] :
          e.ino = ino_counter' /\ k = l /\ e = f
    BY <1>1, <2>1, <2>2
  <2>4. QED  BY <2>1, <2>3 DEF Inv, Numbered
<1>7. QED  BY <1>3, <1>4, <1>5, <1>6 DEF Inv

\* A call stores the counter and its entry appears.
LEMMA FinishInv == ASSUME Inv, NEW m \in Mounts, Finish(m) PROVE Inv'
<1>1. PICK e \in call[m] :
        /\ ino_counter' = CounterAfter(e)
        /\ dent' = [dent EXCEPT ![m] = @ \cup {e}]
        /\ links' = [links EXCEPT ![m] = LinksAfterMake(@, e)]
        /\ call' = [call EXCEPT ![m] = {}]
        /\ UNCHANGED <<mounted, pos, overlapped>>
  BY DEF Finish
<1>2. e \in Entry /\ e.ino \in FirstIno .. LastIno /\ m \in mounted /\ e \notin dent[m]
  BY DEF Inv, Typed, CallsFit, Entry
<1>3. IsFiniteSet(dent[m] \cup {e}) /\ IsFiniteSet(Dirs(dent[m]))
  BY FS_AddElement, FS_Subset DEF Inv, CallsFit, Dirs
<1>4. Typed'
  BY <1>1, <1>2, CompleteAssumption DEF Inv, Typed, CounterAfter, LinksAfterMake
<1>5. CallsFit'
  BY <1>1, <1>2, <1>3 DEF Inv, Typed, CallsFit
<1>6. LinksAfterMake(links[m], e) = 2 + Cardinality(Dirs(dent[m] \cup {e}))
  <2>1. links[m] = 2 + Cardinality(Dirs(dent[m])) /\ Cardinality(Dirs(dent[m])) \in Nat
    BY <1>2, <1>3, FS_CardinalityType DEF Inv, Counted
  <2>2. CASE e.dir
    <3>1. Dirs(dent[m] \cup {e}) = Dirs(dent[m]) \cup {e}
      BY <2>2 DEF Dirs
    <3>2. e \notin Dirs(dent[m])
      BY <1>2 DEF Dirs
    <3>3. Cardinality(Dirs(dent[m] \cup {e})) = Cardinality(Dirs(dent[m])) + 1
      BY <1>3, <3>1, <3>2, FS_AddElement
    <3>4. LinksAfterMake(links[m], e) = links[m] + 1
      BY <2>2 DEF LinksAfterMake
    <3>5. QED  BY <2>1, <3>3, <3>4
  <2>3. CASE ~ e.dir
    <3>1. Dirs(dent[m] \cup {e}) = Dirs(dent[m])
      BY <2>3 DEF Dirs
    <3>2. QED  BY <2>1, <2>3, <3>1 DEF LinksAfterMake
  <2>4. QED  BY <2>2, <2>3
<1>7. Counted'
  BY <1>1, <1>2, <1>6 DEF Inv, Typed, Counted
<1>8. Numbered'
  <2> SUFFICES ASSUME ~ overlapped PROVE Numbered'
    BY <1>1 DEF Numbered
  <2>1. \A k \in Mounts : k # m => call[k] = {}
    BY DEF Inv, Numbered
  <2>2. \A k \in Mounts : call'[k] = {}
    BY <1>1, <2>1 DEF Inv, Typed
  <2>3. e.ino = ino_counter /\ ino_counter' = ino_counter + 1 /\ ino_counter \in Int
    BY <1>1, CompleteAssumption DEF Inv, Typed, Numbered, CounterAfter
  <2>4. \A k \in Mounts : dent'[k] = IF k = m THEN dent[m] \cup {e} ELSE dent[k]
    BY <1>1 DEF Inv, Typed
  <2>5. \A k \in Mounts : \A f \in dent[k] : f.ino \in Int /\ f.ino < ino_counter
    BY CompleteAssumption DEF Inv, Typed, Numbered, Entry
  <2>6. \A k, l \in Mounts : \A f \in dent'[k], g \in dent'[l] :
          f.ino < ino_counter' /\ (f.ino = g.ino => k = l /\ f = g)
    <3> SUFFICES ASSUME NEW k \in Mounts, NEW l \in Mounts, NEW f \in dent'[k], NEW g \in dent'[l]
                 PROVE  f.ino < ino_counter' /\ (f.ino = g.ino => k = l /\ f = g)
      OBVIOUS
    <3>1. f \in dent[k] \/ (k = m /\ f = e)
      BY <2>4
    <3>2. g \in dent[l] \/ (l = m /\ g = e)
      BY <2>4
    <3>3. f \in dent[k] /\ g \in dent[l] => (f.ino = g.ino => k = l /\ f = g)
      BY DEF Inv, Numbered
    <3>4. QED  BY <2>3, <2>5, <3>1, <3>2, <3>3
  <2>7. QED  BY <2>2, <2>6 DEF Numbered
<1>9. QED  BY <1>4, <1>5, <1>7, <1>8 DEF Inv

\* unlink and rmdir take an entry away.
LEMMA RemoveInv == ASSUME Inv, NEW m \in Mounts, NEW e \in dent[m], Remove(m, e) PROVE Inv'
<1>1. IsFiniteSet(dent[m] \ {e}) /\ IsFiniteSet(Dirs(dent[m])) /\ m \in mounted
  BY FS_RemoveElement, FS_Subset DEF Inv, CallsFit, Dirs, Remove
<1>2. Typed'
  BY DEF Inv, Typed, Remove, LinksAfterRemove
<1>3. CallsFit'
  BY <1>1 DEF Inv, Typed, CallsFit, Remove
<1>4. LinksAfterRemove(links[m], e) = 2 + Cardinality(Dirs(dent[m] \ {e}))
  <2>1. links[m] = 2 + Cardinality(Dirs(dent[m])) /\ Cardinality(Dirs(dent[m])) \in Nat
    BY <1>1, FS_CardinalityType DEF Inv, Counted
  <2>2. CASE e.dir
    <3>1. Dirs(dent[m] \ {e}) = Dirs(dent[m]) \ {e} /\ e \in Dirs(dent[m])
      BY <2>2 DEF Dirs
    <3>2. Cardinality(Dirs(dent[m] \ {e})) = Cardinality(Dirs(dent[m])) - 1
      BY <1>1, <3>1, FS_RemoveElement
    <3>3. LinksAfterRemove(links[m], e) = links[m] - 1
      BY <2>2 DEF LinksAfterRemove
    <3>4. QED  BY <2>1, <3>2, <3>3
  <2>3. CASE ~ e.dir
    <3>1. Dirs(dent[m] \ {e}) = Dirs(dent[m])
      BY <2>3 DEF Dirs
    <3>2. QED  BY <2>1, <2>3, <3>1 DEF LinksAfterRemove
  <2>4. QED  BY <2>2, <2>3
<1>5. Counted'
  BY <1>1, <1>4 DEF Inv, Typed, Counted, Remove
<1>6. Numbered'
  BY DEF Inv, Typed, Numbered, Remove
<1>7. QED  BY <1>2, <1>3, <1>5, <1>6 DEF Inv

\* A reader moves its position and nothing else.
LEMMA ReadInv == ASSUME Inv, NEW m \in Mounts, OpenDir(m) \/ Getdents(m) PROVE Inv'
<1>1. UNCHANGED <<ino_counter, mounted, dent, links, call, overlapped>>
  BY DEF OpenDir, Getdents
<1>2. Typed'
  <2>1. PICK p \in Closed .. TableSize : pos' = [pos EXCEPT ![m] = p]
    <3>1. CASE OpenDir(m)
      BY <3>1 DEF OpenDir, Closed, TableSize
    <3>2. CASE Getdents(m)
      <4>1. pos[m] \in Closed .. TableSize
        BY DEF Inv, Typed
      <4>2. PICK p \in IF pos[m] >= TableSize THEN {Closed} ELSE PosAfter(pos[m]) :
              pos' = [pos EXCEPT ![m] = p]
        BY <3>2 DEF Getdents
      <4>3. p \in Closed .. TableSize
        BY <4>1, <4>2 DEF PosAfter, Closed, TableSize
      <4>4. QED  BY <4>2, <4>3
    <3>3. QED  BY <3>1, <3>2
  <2>2. QED  BY <1>1, <2>1 DEF Inv, Typed
<1>3. CallsFit' /\ Counted' /\ Numbered'
  BY <1>1 DEF Inv, CallsFit, Counted, Numbered
<1>4. QED  BY <1>2, <1>3 DEF Inv

\* Every step keeps the invariant.
LEMMA NextInv == Inv /\ [Next]_cvars => Inv'
<1> SUFFICES ASSUME Inv, [Next]_cvars PROVE Inv'
  OBVIOUS
<1>1. CASE UNCHANGED cvars
  BY <1>1 DEF cvars, Inv, Typed, CallsFit, Counted, Numbered
<1>2. CASE Next
  <2>1. PICK m \in Mounts :
          \/ Mount(m) \/ Unmount(m) \/ OpenDir(m) \/ Getdents(m) \/ Finish(m)
          \/ \E n \in Names, isdir \in BOOLEAN : LoadCounter(m, n, isdir)
          \/ \E e \in dent[m] : Remove(m, e)
    BY <1>2 DEF Next
  <2>2. QED  BY <2>1, MountInv, UnmountInv, ReadInv, FinishInv, LoadInv, RemoveInv
<1>3. QED  BY <1>1, <1>2

\* The link count of every mounted root is that of its subdirectories, in any
\* mixture of create, mkdir, unlink, rmdir, mount and unmount; and numbers
\* are distinct as long as no two calls are between the load and the store.
THEOREM LinksAndNumbersOfComplete ==
  FairSpec => [](TypeOK /\ RootLinkCount /\ NumbersDistinct)
<1>1. Init /\ [][Next]_cvars => []Inv
  BY InitInv, NextInv, PTL
<1>2. QED  BY <1>1, InvIsProperties, PTL DEF FairSpec
============================================================================
