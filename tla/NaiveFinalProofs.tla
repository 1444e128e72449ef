-------------------------- MODULE NaiveFinalProofs --------------------------
(***************************************************************************)
(* Theorems about naivefs-final, for any number of mounts and names and    *)
(* any cut of the long ones.                                               *)
(*                                                                         *)
(* The list and the dentries are two records of the same names, kept apart *)
(* and compared by name only.  The invariant says when they agree: while   *)
(* one device is mounted and every name but the cut one is in each at most *)
(* once, the entry naive_unlink's loop finds is the dentry's own.          *)
(***************************************************************************)
EXTENDS NaiveFinal, SequenceTheorems, FiniteSetTheorems, TLAPS

----------------------------------------------------------------------------
(* Sequences.                                                              *)

\* A set of positive numbers that is not empty has a least member.
LEMMA LeastExists ==
  ASSUME NEW H, H \subseteq Nat \ {0}, H # {}
  PROVE  \E i \in H : \A j \in H : i <= j
<1> DEFINE T == {1 .. i : i \in H}
           R == StrictSubsetOrdering(Nat)
<1>1. IsWellFoundedOn(R, FiniteSubsetsOf(Nat))
  BY FS_StrictSubsetOrderingWellFounded
<1>2. T \subseteq FiniteSubsetsOf(Nat) /\ T # {}
  <2>1. \A i \in H : IsFiniteSet(1 .. i) /\ 1 .. i \in SUBSET Nat
    BY FS_Interval
  <2>2. QED  BY <2>1 DEF FiniteSubsetsOf
<1> HIDE DEF R
<1>3. PICK A \in T : \A B \in T : ~ (<<B, A>> \in R)
  BY <1>1, <1>2, WFMin
<1>4. PICK i \in H : A = 1 .. i
  BY <1>3
<1>5. ASSUME NEW j \in H PROVE i <= j
  <2>1. ~ (<<1 .. j, 1 .. i>> \in R)
    BY <1>3, <1>4
  <2>2. ~ (1 .. j \subseteq 1 .. i /\ 1 .. j # 1 .. i)
    <3>1. 1 .. j \in SUBSET Nat /\ 1 .. i \in SUBSET Nat
      OBVIOUS
    <3>2. QED  BY <2>1, <3>1 DEF R, StrictSubsetOrdering
  <2>3. i \in Nat /\ j \in Nat /\ j # 0
    OBVIOUS
  <2>4. CASE j < i
    <3>1. 1 .. j \subseteq 1 .. i /\ i \in 1 .. i /\ i \notin 1 .. j
      BY <2>3, <2>4
    <3>2. QED  BY <2>2, <3>1
  <2>5. QED  BY <2>3, <2>4
<1>6. QED  BY <1>5

\* A sequence without its i-th element.
LEMMA RemoveAtIsShorter ==
  ASSUME NEW S, NEW s \in Seq(S), NEW i \in 1 .. Len(s)
  PROVE  /\ RemoveAt(s, i) \in Seq(S)
         /\ Len(RemoveAt(s, i)) = Len(s) - 1
         /\ \A j \in 1 .. Len(s) - 1 : RemoveAt(s, i)[j] = IF j < i THEN s[j] ELSE s[j + 1]
<1> DEFINE a == SubSeq(s, 1, i - 1)
           b == SubSeq(s, i + 1, Len(s))
<1>1. Len(s) \in Nat /\ i \in Nat /\ i >= 1 /\ i <= Len(s)
  BY LenProperties
<1>2. a \in Seq(S) /\ Len(a) = i - 1 /\ \A j \in 1 .. i - 1 : a[j] = s[j]
  <2>1. i - 1 \in Nat /\ i - 1 \in 0 .. Len(s)
    BY <1>1
  <2>2. /\ a \in Seq(S) /\ Len(a) = (IF 1 <= i - 1 THEN (i - 1) - 1 + 1 ELSE 0)
        /\ \A j \in 1 .. (i - 1) - 1 + 1 : a[j] = s[1 + j - 1]
    BY <1>1, <2>1, SubSeqProperties
  <2>3. Len(a) = i - 1
    BY <1>1, <2>2
  <2>4. \A j \in 1 .. i - 1 : a[j] = s[j]
    <3>1. (i - 1) - 1 + 1 = i - 1 /\ \A j \in 1 .. i - 1 : 1 + j - 1 = j
      BY <1>1
    <3> HIDE DEF a
    <3>2. QED  BY <2>2, <3>1
  <2>5. QED  BY <2>2, <2>3, <2>4
<1>3. b \in Seq(S) /\ Len(b) = Len(s) - i /\ \A j \in 1 .. Len(s) - i : b[j] = s[i + j]
  BY <1>1
<1>4. RemoveAt(s, i) = a \o b
  BY DEF RemoveAt
<1> HIDE DEF a, b
<1>5. /\ a \o b \in Seq(S) /\ Len(a \o b) = Len(s) - 1
      /\ \A j \in 1 .. Len(s) - 1 : (a \o b)[j] = IF j <= i - 1 THEN a[j] ELSE b[j - (i - 1)]
  <2>1. /\ a \o b \in Seq(S) /\ Len(a \o b) = Len(a) + Len(b)
        /\ \A j \in 1 .. Len(a) + Len(b) : (a \o b)[j] = IF j <= Len(a) THEN a[j] ELSE b[j - Len(a)]
    <3>1. a \in Seq(S) /\ b \in Seq(S)
      BY <1>2, <1>3
    <3>2. QED  BY ONLY <3>1, ConcatProperties
  <2>2. Len(a) + Len(b) = Len(s) - 1
    BY <1>1, <1>2, <1>3
  <2>3. Len(a) = i - 1
    BY <1>2
  <2>4. QED  BY <2>1, <2>2, <2>3
<1>6. ASSUME NEW j \in 1 .. Len(s) - 1
      PROVE  (a \o b)[j] = IF j < i THEN s[j] ELSE s[j + 1]
  <2>1. CASE j < i
    <3>1. j \in 1 .. i - 1 /\ j <= i - 1
      BY <1>1, <2>1
    <3>2. QED  BY <1>2, <1>5, <2>1, <3>1
  <2>2. CASE ~ (j < i)
    <3>1. j - (i - 1) \in 1 .. Len(s) - i /\ ~ (j <= i - 1) /\ i + (j - (i - 1)) = j + 1
      BY <1>1, <2>2
    <3>2. b[j - (i - 1)] = s[j + 1]
      BY <1>3, <3>1
    <3>3. QED  BY <1>5, <2>2, <3>1, <3>2
  <2>3. QED  BY <2>1, <2>2
<1>7. QED  BY <1>4, <1>5, <1>6

----------------------------------------------------------------------------
(* The list.                                                               *)

ListedName == (Names \ LongNames) \cup {Cut, README, example}
ListEntry  == [name : ListedName, inode_no : FirstIno .. LastIno, is_dir : BOOLEAN]

\* ListConsistent of any list and counter.
Consistent(list, next) ==
  \A i, j \in DOMAIN list :
     /\ list[i].inode_no < next
     /\ i # j => /\ list[i].inode_no # list[j].inode_no
                 /\ list[i].name # list[j].name \/ list[i].name = Cut

\* The names a user or fill_super gives, as the list stores them.
LEMMA StoredName ==
  ASSUME NEW n \in Names \cup {README, example}
  PROVE  /\ Stored(n) \in ListedName
         /\ Stored(n) # Cut => Stored(n) = n
         /\ n \in {README, example} => Stored(n) = n /\ n # Cut
  BY FinalAssumption DEF Stored, ListedName

\* What naive_unlink's loop leaves.
LEMMA RemovedEntry ==
  ASSUME NEW S, NEW list \in Seq(S), NEW n
  PROVE  \/ Removed(list, n) = list /\ \A j \in 1 .. Len(list) : list[j].name # n
         \/ \E i \in 1 .. Len(list) :
              /\ list[i].name = n
              /\ Removed(list, n) \in Seq(S) /\ Len(Removed(list, n)) = Len(list) - 1
              /\ \A j \in 1 .. Len(list) - 1 :
                   Removed(list, n)[j] = IF j < i THEN list[j] ELSE list[j + 1]
<1> DEFINE hits  == {i \in DOMAIN list : list[i].name = n}
           first == CHOOSE i \in hits : \A j \in hits : i <= j
<1>1. DOMAIN list = 1 .. Len(list) /\ hits \subseteq Nat \ {0}
  BY LenProperties
<1>2. Removed(list, n) = IF hits = {} THEN list ELSE RemoveAt(list, first)
  BY DEF Removed
<1>3. CASE hits = {}
  BY <1>1, <1>2, <1>3
<1>4. CASE hits # {}
  <2>1. \E i \in hits : \A j \in hits : i <= j
    <3> HIDE DEF hits
    <3>1. QED  BY <1>1, <1>4, LeastExists
  <2>2. first \in hits
    <3> HIDE DEF hits
    <3>1. QED  BY <2>1
  <2>3. first \in 1 .. Len(list) /\ list[first].name = n
    BY <1>1, <2>2
  <2> HIDE DEF hits, first
  <2>4. Removed(list, n) = RemoveAt(list, first)
    BY <1>2, <1>4
  <2>5. QED  BY <2>3, <2>4, RemoveAtIsShorter
<1>5. QED  BY <1>3, <1>4

\* It stays consistent; every entry of another name stays; and no entry of
\* that name is left, unless it is the cut one.
LEMMA RemovedKeeps ==
  ASSUME NEW S, NEW list \in Seq(S), NEW n, NEW next, Consistent(list, next)
  PROVE  /\ Removed(list, n) \in Seq(S)
         /\ Consistent(Removed(list, n), next)
         /\ ToSet(Removed(list, n)) \subseteq ToSet(list)
         /\ \A e \in ToSet(list) : e.name # n => e \in ToSet(Removed(list, n))
         /\ n # Cut => \A e \in ToSet(Removed(list, n)) : e.name # n
<1> DEFINE left == Removed(list, n)
<1>1. DOMAIN list = 1 .. Len(list) /\ Len(list) \in Nat
  BY LenProperties
<1>2. CASE left = list /\ \A j \in 1 .. Len(list) : list[j].name # n
  BY <1>1, <1>2 DEF ToSet
<1>3. CASE \E i \in 1 .. Len(list) :
              /\ list[i].name = n
              /\ left \in Seq(S) /\ Len(left) = Len(list) - 1
              /\ \A j \in 1 .. Len(list) - 1 : left[j] = IF j < i THEN list[j] ELSE list[j + 1]
  <2>1. PICK i \in 1 .. Len(list) :
          /\ list[i].name = n
          /\ left \in Seq(S) /\ Len(left) = Len(list) - 1
          /\ \A j \in 1 .. Len(list) - 1 : left[j] = IF j < i THEN list[j] ELSE list[j + 1]
    BY <1>3
  <2> HIDE DEF left
  <2> DEFINE at(j) == IF j < i THEN j ELSE j + 1
  <2>2. DOMAIN left = 1 .. Len(list) - 1
    BY <2>1, LenProperties
  <2>3. \A j \in DOMAIN left : at(j) \in DOMAIN list /\ left[j] = list[at(j)] /\ at(j) # i
    BY <1>1, <2>1, <2>2
  <2>4. \A j, k \in DOMAIN left : j # k => at(j) # at(k)
    BY <1>1, <2>2
  <2>5. \A q \in DOMAIN list : q # i => \E j \in DOMAIN left : at(j) = q
    <3> TAKE q \in DOMAIN list
    <3>1. CASE q < i
      <4>1. q \in DOMAIN left /\ at(q) = q
        BY <1>1, <2>2, <3>1
      <4>2. QED  BY <4>1
    <3>2. CASE q > i
      <4>1. q - 1 \in DOMAIN left /\ at(q - 1) = q
        BY <1>1, <2>2, <3>2
      <4>2. QED  BY <4>1
    <3>3. QED  BY <1>1, <3>1, <3>2
  <2> HIDE DEF at
  <2>6. Consistent(left, next)
    BY <2>3, <2>4 DEF Consistent
  <2>7. ToSet(left) \subseteq ToSet(list)
    BY <2>3 DEF ToSet
  <2>8. \A e \in ToSet(list) : e.name # n => e \in ToSet(left)
    BY <2>1, <2>3, <2>5 DEF ToSet
  <2>9. n # Cut => \A e \in ToSet(left) : e.name # n
    <3> SUFFICES ASSUME n # Cut, NEW j \in DOMAIN left PROVE left[j].name # n
      BY DEF ToSet
    <3>1. at(j) \in DOMAIN list /\ left[j] = list[at(j)] /\ at(j) # i /\ i \in DOMAIN list
      BY <1>1, <2>3
    <3>2. QED  BY <2>1, <3>1 DEF Consistent
  <2>10. QED  BY <2>1, <2>6, <2>7, <2>8, <2>9 DEF left
<1>4. QED  BY <1>2, <1>3, RemovedEntry

\* naive_create past its check.
LEMMA CreatedKeeps ==
  ASSUME NEW list \in Seq(ListEntry), NEW next \in FirstIno .. LastIno, Consistent(list, next),
         NEW n \in Names \cup {README, example}, ~ Exists(list, n),
         NEW isdir \in BOOLEAN, NEW listed \in BOOLEAN
  PROVE  LET l == Created([list |-> list, next |-> next], n, isdir, listed) IN
         /\ l.list \in Seq(ListEntry) /\ l.next = next + 1
         /\ Consistent(l.list, l.next)
         /\ ToSet(l.list) = ToSet(list) \cup (IF listed THEN {Entry(Stored(n), next, isdir)} ELSE {})
<1> DEFINE l   == Created([list |-> list, next |-> next], n, isdir, listed)
           new == Entry(Stored(n), next, isdir)
           app == Append(list, new)
<1>1. l.list = (IF listed THEN app ELSE list) /\ l.next = next + 1
  BY DEF Created
<1> HIDE DEF l
<1>2. new \in ListEntry /\ new.inode_no = next /\ new.name = Stored(n)
  BY StoredName DEF Entry, ListEntry
<1> HIDE DEF new
<1>3. DOMAIN list = 1 .. Len(list) /\ Len(list) \in Nat /\ next \in Int
      /\ \A i \in DOMAIN list : list[i] \in ListEntry
  BY LenProperties, FinalAssumption
<1>4. /\ app \in Seq(ListEntry) /\ Len(app) = Len(list) + 1
      /\ \A i \in 1 .. Len(list) : app[i] = list[i]
      /\ app[Len(list) + 1] = new
  BY <1>2, AppendProperties
<1> HIDE DEF app
<1>5. DOMAIN app = 1 .. Len(list) + 1
  BY <1>4, LenProperties
<1>6. \A i \in DOMAIN list : list[i].inode_no \in Int /\ list[i].inode_no < next
  BY <1>3, FinalAssumption DEF Consistent, ListEntry
<1>7. \A i \in DOMAIN list : list[i].name # Stored(n) \/ Stored(n) = Cut
  BY StoredName DEF Exists
<1>8. Consistent(app, next + 1)
  <2> SUFFICES ASSUME NEW i \in DOMAIN app, NEW j \in DOMAIN app
               PROVE  /\ app[i].inode_no < next + 1
                      /\ i # j => /\ app[i].inode_no # app[j].inode_no
                                  /\ app[i].name # app[j].name \/ app[i].name = Cut
    BY DEF Consistent
  <2>1. (i \in DOMAIN list /\ app[i] = list[i]) \/ (i = Len(list) + 1 /\ app[i] = new)
    BY <1>3, <1>4, <1>5
  <2>2. (j \in DOMAIN list /\ app[j] = list[j]) \/ (j = Len(list) + 1 /\ app[j] = new)
    BY <1>3, <1>4, <1>5
  <2>3. app[i].inode_no < next + 1
    BY <1>2, <1>3, <1>6, <2>1
  <2>4. ASSUME i # j PROVE app[i].inode_no # app[j].inode_no
    <3>1. CASE i \in DOMAIN list /\ app[i] = list[i] /\ j \in DOMAIN list /\ app[j] = list[j]
      BY <2>4, <3>1 DEF Consistent
    <3>2. QED  BY <1>2, <1>3, <1>6, <2>1, <2>2, <2>4, <3>1
  <2>5. ASSUME i # j PROVE app[i].name # app[j].name \/ app[i].name = Cut
    <3>1. CASE i \in DOMAIN list /\ app[i] = list[i] /\ j \in DOMAIN list /\ app[j] = list[j]
      BY <2>5, <3>1 DEF Consistent
    <3>2. QED  BY <1>2, <1>7, <2>1, <2>2, <2>5, <3>1
  <2>6. QED  BY <2>3, <2>4, <2>5
<1>9. Consistent(list, next + 1)
  BY <1>3, <1>6 DEF Consistent
<1>10. ToSet(app) = ToSet(list) \cup {new}
  <2>1. \A i \in DOMAIN app : app[i] \in ToSet(list) \cup {new}
    BY <1>3, <1>4, <1>5 DEF ToSet
  <2>2. \A i \in DOMAIN list : list[i] \in ToSet(app)
    BY <1>3, <1>4, <1>5 DEF ToSet
  <2>3. new \in ToSet(app)
    BY <1>3, <1>4, <1>5 DEF ToSet
  <2>4. ToSet(app) \subseteq ToSet(list) \cup {new}
    BY <2>1 DEF ToSet
  <2>5. ToSet(list) \subseteq ToSet(app)
    BY <2>2 DEF ToSet
  <2>6. QED  BY <2>3, <2>4, <2>5
<1>11. /\ l.list \in Seq(ListEntry) /\ Consistent(l.list, next + 1)
       /\ ToSet(l.list) = ToSet(list) \cup (IF listed THEN {new} ELSE {})
  BY <1>1, <1>4, <1>8, <1>9, <1>10
<1>12. QED  BY <1>1, <1>11 DEF l, new

----------------------------------------------------------------------------
(* The inductive invariant.                                                *)

\* The types.
Typed ==
  /\ file_list \in Seq(ListEntry) /\ next_inode_no \in FirstIno .. LastIno + 1
  /\ mounted \subseteq Mounts
  /\ dent \in [Mounts -> SUBSET [name : Names, inode_no : FirstIno .. LastIno, is_dir : BOOLEAN]]
  /\ pos \in [Mounts -> Closed .. 3]
  /\ shared \in BOOLEAN /\ starved \in BOOLEAN

\* A device that is not mounted has no dentries, a root no name twice, and a
\* list that is not shared one mount.
DentriesFit ==
  /\ \A m \in Mounts : /\ m \notin mounted => dent[m] = {}
                       /\ \A e, f \in dent[m] : e.name = f.name => e = f
  /\ ~ shared => \A m, k \in mounted : m = k

\* Dentries and entries agree, but for the cut name and the two examples.
Agree ==
  ~ shared => \A m \in mounted :
     /\ \A e \in ToSet(file_list) : e.name # Cut => e \in dent[m] \/ OnlyListed(e)
     /\ ~ starved => \A e \in dent[m] : Stored(e.name) # Cut => e \in ToSet(file_list)

\* The examples are in the list and in no root.
Examples ==
  ~ shared /\ ~ starved /\ mounted # {} =>
     /\ \A n \in {README, example} : \E e \in ToSet(file_list) : e.name = n
     /\ \A m \in mounted : \A e \in dent[m] : ~ OnlyListed(e)

Inv == Typed /\ Consistent(file_list, next_inode_no) /\ DentriesFit /\ Agree /\ Examples

\* The invariant gives the properties.
LEMMA InvIsProperties == Inv => TypeOK /\ ListConsistent /\ ListFollowsNames /\ ExamplesStay
<1> SUFFICES ASSUME Inv PROVE TypeOK /\ ListConsistent /\ ListFollowsNames /\ ExamplesStay
  OBVIOUS
<1>1. TypeOK
  BY DEF Inv, Typed, TypeOK, ListEntry, ListedName
<1>2. ListConsistent
  BY DEF Inv, Consistent, ListConsistent
<1>3. ListFollowsNames
  <2>1. ASSUME ~ shared, NEW m \in mounted
        PROVE  /\ \A e \in Listed : e \in dent[m] \/ OnlyListed(e)
               /\ ~ starved => Found(m) \subseteq Listed
    <3>1. /\ \A e \in ToSet(file_list) : e.name # Cut => e \in dent[m] \/ OnlyListed(e)
          /\ ~ starved => \A e \in dent[m] : Stored(e.name) # Cut => e \in ToSet(file_list)
      BY <2>1 DEF Inv, Agree
    <3>2. \A e \in Listed : e \in dent[m] \/ OnlyListed(e)
      BY <3>1 DEF Listed
    <3>3. ASSUME ~ starved, NEW e \in Found(m) PROVE e \in Listed
      <4>1. e \in dent[m] /\ Stored(e.name) # Cut /\ m \in Mounts
        BY DEF Found, Inv, Typed
      <4>2. e \in ToSet(file_list) /\ e.name \in Names
        BY <3>1, <3>3, <4>1 DEF Inv, Typed
      <4>3. e.name # Cut
        BY <4>1, FinalAssumption DEF Stored
      <4>4. QED  BY <4>2, <4>3 DEF Listed
    <3>4. QED  BY <3>2, <3>3
  <2>2. QED  BY <2>1 DEF ListFollowsNames
<1>4. ExamplesStay
  <2>1. \A n \in {README, example} : n # Cut
    BY FinalAssumption
  <2>2. QED  BY <2>1 DEF Inv, Examples, ExamplesStay, Listed
<1>5. QED  BY <1>1, <1>2, <1>3, <1>4

\* The empty list is consistent with every counter.
LEMMA EmptyListFits ==
  ASSUME NEW next
  PROVE  /\ <<>> \in Seq(ListEntry) /\ Consistent(<<>>, next) /\ ToSet(<<>>) = {}
         /\ \A n : ~ Exists(<<>>, n)
<1>1. <<>> \in Seq(ListEntry) /\ DOMAIN <<>> = {}
  BY EmptySeq
<1>2. QED  BY <1>1 DEF Consistent, ToSet, Exists

\* Nothing is mounted at first.
LEMMA InitInv == Init => Inv
<1> SUFFICES ASSUME Init PROVE Inv
  OBVIOUS
<1>1. FirstIno \in FirstIno .. LastIno + 1 /\ Closed \in Closed .. 3
  BY FinalAssumption DEF Closed
<1>2. dent \in [Mounts -> SUBSET [name : Names, inode_no : FirstIno .. LastIno, is_dir : BOOLEAN]]
  BY DEF Init
<1>3. pos \in [Mounts -> Closed .. 3]
  BY <1>1 DEF Init
<1>4. Typed
  BY <1>1, <1>2, <1>3, EmptyListFits DEF Init, Typed
<1>5. Consistent(file_list, next_inode_no) /\ DentriesFit /\ Agree /\ Examples
  BY EmptyListFits DEF Init, DentriesFit, Agree, Examples
<1>6. QED  BY <1>4, <1>5 DEF Inv

----------------------------------------------------------------------------
(* The steps.                                                              *)

\* create and mkdir add the same entry to both, or the cut one to the list.
LEMMA CreateInv ==
  ASSUME Inv, NEW m \in Mounts, NEW n \in Names, NEW isdir \in BOOLEAN, NEW listed \in BOOLEAN,
         Create(m, n, isdir, listed)
  PROVE  Inv'
<1> DEFINE new    == Entry(n, next_inode_no, isdir)
           stored == Entry(Stored(n), next_inode_no, isdir)
           added  == IF listed THEN {stored} ELSE {}
<1>1. /\ m \in mounted /\ (\A e \in dent[m] : e.name # n) /\ ~ Exists(file_list, n)
      /\ next_inode_no \in FirstIno .. LastIno
      /\ dent' = [dent EXCEPT ![m] = @ \cup {new}]
      /\ starved' = (starved \/ ~ listed)
      /\ UNCHANGED <<mounted, pos, shared>>
  <2>1. next_inode_no \in FirstIno .. LastIno
    BY FinalAssumption DEF Inv, Typed, Create
  <2>2. QED  BY <2>1 DEF Create
<1>2. /\ file_list' \in Seq(ListEntry) /\ next_inode_no' = next_inode_no + 1
      /\ Consistent(file_list', next_inode_no')
      /\ ToSet(file_list') = ToSet(file_list) \cup added
  <2>1. file_list \in Seq(ListEntry) /\ Consistent(file_list, next_inode_no) /\ n \in Names \cup {README, example}
    BY DEF Inv, Typed
  <2>2. LET l == Created([list |-> file_list, next |-> next_inode_no], n, isdir, listed) IN
         /\ l.list \in Seq(ListEntry) /\ l.next = next_inode_no + 1
         /\ Consistent(l.list, l.next)
         /\ ToSet(l.list) = ToSet(file_list) \cup added
    BY <1>1, <2>1, CreatedKeeps
  <2>3. LET l == Created([list |-> file_list, next |-> next_inode_no], n, isdir, listed) IN
         file_list' = l.list /\ next_inode_no' = l.next
    BY DEF Create
  <2>4. QED  BY <2>2, <2>3
<1>3. /\ new \in [name : Names, inode_no : FirstIno .. LastIno, is_dir : BOOLEAN]
      /\ new.name = n /\ stored.name = Stored(n) /\ (Stored(n) = n => stored = new)
  BY <1>1 DEF Entry
<1> HIDE DEF new, stored
<1>4. Typed'
  BY <1>1, <1>2, <1>3, FinalAssumption DEF Inv, Typed
<1>5. \A k \in Mounts : dent'[k] = IF k = m THEN dent[m] \cup {new} ELSE dent[k]
  BY <1>1 DEF Inv, Typed
<1>6. DentriesFit'
  BY <1>1, <1>3, <1>5 DEF Inv, Typed, DentriesFit
<1>7. ASSUME ~ shared PROVE \A k \in mounted : k = m
  BY <1>1, <1>7 DEF Inv, DentriesFit
<1>8. (Stored(n) # Cut => Stored(n) = n) /\ (n \in {README, example} => Stored(n) = n /\ n # Cut)
  BY StoredName
<1>9. Agree'
  <2> SUFFICES ASSUME ~ shared
               PROVE  /\ \A e \in ToSet(file_list') : e.name # Cut => e \in dent'[m] \/ OnlyListed(e)
                      /\ ~ starved' => \A e \in dent'[m] : Stored(e.name) # Cut => e \in ToSet(file_list')
    BY <1>1, <1>7 DEF Agree, OnlyListed
  <2>1. /\ \A e \in ToSet(file_list) : e.name # Cut => e \in dent[m] \/ OnlyListed(e)
        /\ ~ starved => \A e \in dent[m] : Stored(e.name) # Cut => e \in ToSet(file_list)
    BY <1>1 DEF Inv, Agree
  <2>2. ASSUME NEW e \in ToSet(file_list'), e.name # Cut PROVE e \in dent'[m] \/ OnlyListed(e)
    <3>1. CASE e \in ToSet(file_list)
      BY <1>5, <2>1, <2>2, <3>1
    <3>2. CASE e = stored
      BY <1>3, <1>5, <1>8, <2>2, <3>2
    <3>3. QED  BY <1>2, <3>1, <3>2
  <2>3. ASSUME ~ starved', NEW e \in dent'[m], Stored(e.name) # Cut PROVE e \in ToSet(file_list')
    <3>1. ~ starved /\ listed
      BY <1>1, <2>3
    <3>2. CASE e \in dent[m]
      BY <1>2, <2>1, <2>3, <3>1, <3>2
    <3>3. CASE e = new
      BY <1>2, <1>3, <1>8, <2>3, <3>1, <3>3
    <3>4. QED  BY <1>5, <3>2, <3>3
  <2>4. QED  BY <2>2, <2>3
<1>10. Examples'
  <2> SUFFICES ASSUME ~ shared, ~ starved
               PROVE  /\ \A x \in {README, example} : \E e \in ToSet(file_list') : e.name = x
                      /\ \A e \in dent'[m] : ~ OnlyListed(e)
    BY <1>1, <1>7 DEF Examples, OnlyListed
  <2>1. /\ \A x \in {README, example} : \E e \in ToSet(file_list) : e.name = x
        /\ \A e \in dent[m] : ~ OnlyListed(e)
    BY <1>1 DEF Inv, Examples
  <2>2. n \notin {README, example}
    BY <1>1, <2>1 DEF Exists, ToSet
  <2>3. ~ OnlyListed(new)
    BY <1>3, <2>2 DEF OnlyListed
  <2>4. QED  BY <1>2, <1>5, <2>1, <2>3
<1>11. QED  BY <1>2, <1>4, <1>6, <1>9, <1>10 DEF Inv

\* unlink and rmdir take one entry from each, of the same name.
LEMMA UnlinkInv ==
  ASSUME Inv, NEW m \in Mounts, NEW e \in dent[m], Unlink(m, e)
  PROVE  Inv'
<1> DEFINE n == e.name
<1>1. /\ m \in mounted /\ file_list' = Removed(file_list, n)
      /\ dent' = [dent EXCEPT ![m] = @ \ {e}]
      /\ UNCHANGED <<next_inode_no, mounted, pos, shared, starved>>
  BY DEF Unlink
<1>2. /\ file_list' \in Seq(ListEntry)
      /\ Consistent(file_list', next_inode_no)
      /\ ToSet(file_list') \subseteq ToSet(file_list)
      /\ \A f \in ToSet(file_list) : f.name # n => f \in ToSet(file_list')
      /\ n # Cut => \A f \in ToSet(file_list') : f.name # n
  BY <1>1, RemovedKeeps DEF Inv, Typed
<1>3. n \in Names
  BY DEF Inv, Typed
<1> HIDE DEF n
<1>4. Typed'
  BY <1>1, <1>2 DEF Inv, Typed
<1>5. \A k \in Mounts : dent'[k] = IF k = m THEN dent[m] \ {e} ELSE dent[k]
  BY <1>1 DEF Inv, Typed
<1>6. DentriesFit'
  BY <1>1, <1>5 DEF Inv, Typed, DentriesFit
<1>7. ASSUME ~ shared PROVE \A k \in mounted : k = m
  BY <1>1, <1>7 DEF Inv, DentriesFit
<1>8. \A f \in dent[m] \ {e} : f.name # n
  BY DEF Inv, DentriesFit, n
<1>9. Agree'
  <2> SUFFICES ASSUME ~ shared
               PROVE  /\ \A f \in ToSet(file_list') : f.name # Cut => f \in dent'[m] \/ OnlyListed(f)
                      /\ ~ starved => \A f \in dent'[m] : Stored(f.name) # Cut => f \in ToSet(file_list')
    BY <1>1, <1>7 DEF Agree, OnlyListed
  <2>1. /\ \A f \in ToSet(file_list) : f.name # Cut => f \in dent[m] \/ OnlyListed(f)
        /\ ~ starved => \A f \in dent[m] : Stored(f.name) # Cut => f \in ToSet(file_list)
    BY <1>1 DEF Inv, Agree
  <2>2. ASSUME NEW f \in ToSet(file_list'), f.name # Cut PROVE f \in dent'[m] \/ OnlyListed(f)
    <3>1. f \in dent[m] \/ OnlyListed(f)
      BY <1>2, <2>1, <2>2
    <3>2. f # e
      BY <1>2, <2>2 DEF n
    <3>3. QED  BY <1>5, <3>1, <3>2
  <2>3. ASSUME ~ starved, NEW f \in dent'[m], Stored(f.name) # Cut PROVE f \in ToSet(file_list')
    <3>1. f \in dent[m] /\ f.name # n
      BY <1>5, <1>8
    <3>2. QED  BY <1>2, <2>1, <2>3, <3>1
  <2>4. QED  BY <2>2, <2>3
<1>10. Examples'
  <2> SUFFICES ASSUME ~ shared, ~ starved
               PROVE  /\ \A x \in {README, example} : \E f \in ToSet(file_list') : f.name = x
                      /\ \A f \in dent'[m] : ~ OnlyListed(f)
    BY <1>1, <1>7 DEF Examples, OnlyListed
  <2>1. /\ \A x \in {README, example} : \E f \in ToSet(file_list) : f.name = x
        /\ \A f \in dent[m] : ~ OnlyListed(f)
    BY <1>1 DEF Inv, Examples
  <2>2. n \notin {README, example}
    BY <2>1 DEF OnlyListed, n
  <2>3. QED  BY <1>2, <1>5, <2>1, <2>2
<1>11. QED  BY <1>1, <1>2, <1>4, <1>6, <1>9, <1>10 DEF Inv

\* What pre-creating a name does to a list and counter.
Precreates(list, next, n, isdir, outcome) ==
  LET l == Precreated([list |-> list, next |-> next], n, isdir, outcome) IN
  /\ l = [list |-> l.list, next |-> l.next]
  /\ l.list \in Seq(ListEntry) /\ l.next \in {next, next + 1} /\ Consistent(l.list, l.next)
  /\ \A e \in ToSet(l.list) : e \in ToSet(list) \/ e.name = n
  /\ \A e \in ToSet(list) : e \in ToSet(l.list)
  /\ outcome = "made" => \E e \in ToSet(l.list) : e.name = n

\* Pre-creating a name of fill_super.
LEMMA PrecreatedKeeps ==
  ASSUME NEW list \in Seq(ListEntry), NEW next \in FirstIno .. LastIno, Consistent(list, next),
         NEW n \in {README, example}, ~ Exists(list, n),
         NEW isdir \in BOOLEAN, NEW outcome \in Outcomes
  PROVE  Precreates(list, next, n, isdir, outcome)
<1> DEFINE listed == outcome = "made"
           new    == Entry(Stored(n), next, isdir)
           c      == Created([list |-> list, next |-> next], n, isdir, listed)
           l      == Precreated([list |-> list, next |-> next], n, isdir, outcome)
<1>1. CASE outcome = "no file"
  BY <1>1 DEF Precreated, Precreates
<1>2. CASE outcome # "no file"
  <2>1. /\ c.list \in Seq(ListEntry) /\ c.next = next + 1 /\ Consistent(c.list, c.next)
        /\ ToSet(c.list) = ToSet(list) \cup (IF listed THEN {new} ELSE {})
    <3>1. n \in Names \cup {README, example} /\ listed \in BOOLEAN
      OBVIOUS
    <3> HIDE DEF listed
    <3>2. QED  BY <3>1, CreatedKeeps
  <2>2. l = c
    BY <1>2 DEF Precreated
  <2>3. new.name = n
    BY StoredName DEF Entry
  <2>4. c = [list |-> c.list, next |-> c.next]
    BY DEF Created
  <2> HIDE DEF c, l, new
  <2>5. /\ \A e \in ToSet(c.list) : e \in ToSet(list) \/ e.name = n
        /\ \A e \in ToSet(list) : e \in ToSet(c.list)
        /\ outcome = "made" => \E e \in ToSet(c.list) : e.name = n
    BY <2>1, <2>3
  <2>6. /\ l = [list |-> l.list, next |-> l.next]
        /\ l.list \in Seq(ListEntry) /\ l.next \in {next, next + 1} /\ Consistent(l.list, l.next)
        /\ \A e \in ToSet(l.list) : e \in ToSet(list) \/ e.name = n
        /\ \A e \in ToSet(list) : e \in ToSet(l.list)
        /\ outcome = "made" => \E e \in ToSet(l.list) : e.name = n
    BY <2>1, <2>2, <2>4, <2>5
  <2>7. QED  BY <2>6 DEF l, Precreates
<1>3. QED  BY <1>1, <1>2

\* fill_super on a device that is not mounted.
LEMMA FillSuperInv ==
  ASSUME Inv, NEW m \in Mounts, NEW file \in Outcomes, NEW dir \in Outcomes, FillSuper(m, file, dir)
  PROVE  Inv'
<1> DEFINE l1 == Precreated(Emptied, README, FALSE, file)
           l2 == Precreated(l1, example, TRUE, dir)
<1>1. /\ m \notin mounted /\ mounted' = mounted \cup {m}
      /\ file_list' = l2.list /\ next_inode_no' = l2.next
      /\ shared' = (mounted # {}) /\ starved' = ({file, dir} # {"made"})
      /\ UNCHANGED <<dent, pos>>
  BY DEF FillSuper
<1>2. FirstIno \in FirstIno .. LastIno /\ FirstIno + 1 \in FirstIno .. LastIno
      /\ FirstIno + 2 \in FirstIno .. LastIno + 1 /\ FirstIno \in FirstIno .. LastIno + 1
      /\ FirstIno + 1 \in FirstIno .. LastIno + 1
  BY FinalAssumption
<1>3. /\ l1 = [list |-> l1.list, next |-> l1.next]
      /\ l1.list \in Seq(ListEntry) /\ l1.next \in {FirstIno, FirstIno + 1}
      /\ Consistent(l1.list, l1.next)
      /\ \A e \in ToSet(l1.list) : e.name = README
      /\ file = "made" => \E e \in ToSet(l1.list) : e.name = README
  <2> DEFINE l == Precreated([list |-> <<>>, next |-> FirstIno], README, FALSE, file)
  <2>1. /\ <<>> \in Seq(ListEntry) /\ Consistent(<<>>, FirstIno) /\ ~ Exists(<<>>, README)
        /\ ToSet(<<>>) = {} /\ FALSE \in BOOLEAN /\ README \in {README, example}
    BY EmptyListFits
  <2>2. /\ l = [list |-> l.list, next |-> l.next]
        /\ l.list \in Seq(ListEntry) /\ l.next \in {FirstIno, FirstIno + 1} /\ Consistent(l.list, l.next)
        /\ \A e \in ToSet(l.list) : e \in ToSet(<<>>) \/ e.name = README
        /\ file = "made" => \E e \in ToSet(l.list) : e.name = README
    <3>1. Precreates(<<>>, FirstIno, README, FALSE, file)
      BY <1>2, <2>1, PrecreatedKeeps
    <3>2. QED  BY <3>1 DEF Precreates
  <2>3. l1 = l
    BY DEF Emptied
  <2> HIDE DEF l, l1
  <2>4. QED  BY <2>1, <2>2, <2>3
<1> HIDE DEF l1
<1> DEFINE list == l1.list
           next == l1.next
<1>4. list \in Seq(ListEntry) /\ next \in FirstIno .. LastIno /\ Consistent(list, next)
      /\ ~ Exists(list, example)
  <2>1. next \in FirstIno .. LastIno
    BY <1>2, <1>3
  <2>2. ~ Exists(list, example)
    BY <1>3, FinalAssumption DEF Exists, ToSet
  <2>3. QED  BY <1>3, <2>1, <2>2
<1>5. l2 = Precreated([list |-> list, next |-> next], example, TRUE, dir)
  BY <1>3
<1> HIDE DEF list, next, l2
<1>6. /\ l2.list \in Seq(ListEntry) /\ l2.next \in {next, next + 1} /\ Consistent(l2.list, l2.next)
      /\ \A e \in ToSet(l2.list) : e \in ToSet(list) \/ e.name = example
      /\ \A e \in ToSet(list) : e \in ToSet(l2.list)
      /\ dir = "made" => \E e \in ToSet(l2.list) : e.name = example
  <2> DEFINE l == Precreated([list |-> list, next |-> next], example, TRUE, dir)
  <2>1. TRUE \in BOOLEAN /\ example \in {README, example}
    OBVIOUS
  <2>2. /\ l.list \in Seq(ListEntry) /\ l.next \in {next, next + 1} /\ Consistent(l.list, l.next)
        /\ \A e \in ToSet(l.list) : e \in ToSet(list) \/ e.name = example
        /\ \A e \in ToSet(list) : e \in ToSet(l.list)
        /\ dir = "made" => \E e \in ToSet(l.list) : e.name = example
    <3>1. Precreates(list, next, example, TRUE, dir)
      BY <1>4, <2>1, PrecreatedKeeps
    <3>2. QED  BY <3>1 DEF Precreates
  <2>3. l2 = l
    BY <1>5
  <2> HIDE DEF l
  <2>4. QED  BY <2>2, <2>3
<1>7. next_inode_no' \in FirstIno .. LastIno + 1
  <2>1. next \in {FirstIno, FirstIno + 1} /\ FirstIno \in Int
    BY <1>3, FinalAssumption DEF next
  <2>2. next + 1 \in {FirstIno + 1, FirstIno + 2}
    BY <2>1
  <2>3. QED  BY <1>1, <1>2, <1>6, <2>1, <2>2
<1>8. Typed'
  BY <1>1, <1>6, <1>7 DEF Inv, Typed
<1>9. dent'[m] = {}
  BY <1>1 DEF Inv, DentriesFit
<1>10. ~ shared' => mounted' = {m}
  BY <1>1
<1>11. DentriesFit'
  BY <1>1, <1>10 DEF Inv, DentriesFit
<1>12. \A e \in ToSet(file_list') : OnlyListed(e)
  BY <1>1, <1>3, <1>6 DEF OnlyListed, list
<1>13. Agree'
  BY <1>9, <1>10, <1>12 DEF Agree, OnlyListed
<1>14. Examples'
  <2> SUFFICES ASSUME ~ shared', ~ starved'
               PROVE  \A n \in {README, example} : \E e \in ToSet(file_list') : e.name = n
    BY <1>9, <1>10 DEF Examples
  <2>1. file = "made" /\ dir = "made"
    BY <1>1
  <2>2. QED  BY <1>1, <1>3, <1>6, <2>1 DEF list
<1>15. QED  BY <1>1, <1>6, <1>8, <1>11, <1>13, <1>14 DEF Inv

\* fill_super when it fails.
LEMMA FillFailsInv ==
  ASSUME Inv, NEW m \in Mounts, FillFails(m)
  PROVE  Inv'
<1>1. /\ file_list' = <<>> /\ next_inode_no' = FirstIno
      /\ shared' = (mounted # {}) /\ starved' = FALSE
      /\ UNCHANGED <<mounted, dent, pos>>
  BY DEF FillFails, Emptied
<1>2. FirstIno \in FirstIno .. LastIno + 1
  BY FinalAssumption
<1>3. Typed'
  BY <1>1, <1>2, EmptyListFits DEF Inv, Typed
<1>4. Consistent(file_list', next_inode_no')
  BY <1>1, EmptyListFits
<1>5. ~ shared' => mounted' = {}
  BY <1>1
<1>6. DentriesFit'
  BY <1>1, <1>5 DEF Inv, DentriesFit
<1>7. Agree' /\ Examples'
  BY <1>5 DEF Agree, Examples
<1>8. QED  BY <1>3, <1>4, <1>6, <1>7 DEF Inv

\* An unmount drops the dentries and keeps the list.
LEMMA UnmountInv ==
  ASSUME Inv, NEW m \in Mounts, Unmount(m)
  PROVE  Inv'
<1>1. /\ m \in mounted /\ mounted' = mounted \ {m} /\ dent' = [dent EXCEPT ![m] = {}]
      /\ UNCHANGED <<file_list, next_inode_no, pos, shared, starved>>
  BY DEF Unmount
<1>2. \A k \in Mounts : dent'[k] = IF k = m THEN {} ELSE dent[k]
  BY <1>1 DEF Inv, Typed
<1>3. Typed'
  BY <1>1 DEF Inv, Typed
<1>4. DentriesFit'
  BY <1>1, <1>2 DEF Inv, DentriesFit
<1>5. ~ shared => mounted' = {}
  BY <1>1 DEF Inv, DentriesFit
<1>6. Agree' /\ Examples'
  BY <1>1, <1>5 DEF Agree, Examples
<1>7. QED  BY <1>1, <1>3, <1>4, <1>6 DEF Inv

\* A reader moves its position and nothing else.
LEMMA ReadInv ==
  ASSUME Inv, NEW m \in Mounts, OpenDir(m) \/ Getdents(m)
  PROVE  Inv'
<1>1. UNCHANGED <<file_list, next_inode_no, mounted, dent, shared, starved>>
  BY DEF OpenDir, Getdents
<1>2. PICK p \in Closed .. 3 : pos' = [pos EXCEPT ![m] = p]
  <2>1. CASE OpenDir(m)
    BY <2>1 DEF OpenDir, Closed
  <2>2. CASE Getdents(m)
    <3>1. PICK p \in IF NothingLeft(pos[m]) THEN {Closed} ELSE PosAfter(pos[m]) :
            pos' = [pos EXCEPT ![m] = p]
      BY <2>2 DEF Getdents
    <3>2. pos[m] \in Closed .. 3
      BY DEF Inv, Typed
    <3>3. p \in Closed .. 3
      BY <3>1, <3>2 DEF PosAfter, Closed
    <3>4. QED  BY <3>1, <3>3
  <2>3. QED  BY <2>1, <2>2
<1>3. Typed'
  BY <1>1, <1>2 DEF Inv, Typed
<1>4. DentriesFit' /\ Agree' /\ Examples'
  BY <1>1 DEF Inv, DentriesFit, Agree, Examples, OnlyListed
<1>5. QED  BY <1>1, <1>3, <1>4 DEF Inv

\* Every step keeps the invariant.
LEMMA NextInv == Inv /\ [Next]_fvars => Inv'
<1> SUFFICES ASSUME Inv, [Next]_fvars PROVE Inv'
  OBVIOUS
<1>1. CASE UNCHANGED fvars
  BY <1>1 DEF fvars, Inv, Typed, DentriesFit, Agree, Examples, OnlyListed
<1>2. CASE Next
  <2>1. PICK m \in Mounts :
          \/ \E n \in Names, listed \in BOOLEAN : Create(m, n, n \in DirNames, listed)
          \/ \E e \in dent[m] : Unlink(m, e)
          \/ \E file, dir \in Outcomes : FillSuper(m, file, dir)
          \/ FillFails(m) \/ Unmount(m) \/ OpenDir(m) \/ Getdents(m)
    BY <1>2 DEF Next
  <2>2. \A n \in Names : (n \in DirNames) \in BOOLEAN
    OBVIOUS
  <2>3. CASE \E n \in Names, listed \in BOOLEAN : Create(m, n, n \in DirNames, listed)
    BY <2>2, <2>3, CreateInv
  <2>4. CASE \E e \in dent[m] : Unlink(m, e)
    BY <2>4, UnlinkInv
  <2>5. CASE \E file, dir \in Outcomes : FillSuper(m, file, dir)
    BY <2>5, FillSuperInv
  <2>6. QED  BY <2>1, <2>3, <2>4, <2>5, FillFailsInv, UnmountInv, ReadInv
<1>3. QED  BY <1>1, <1>2

\* With any number of mounts, also when they fail: the list is consistent,
\* readdir and lookup agree while one device has the list to itself, and the
\* examples stay while no entry fails to be allocated.
THEOREM ListAndNames ==
  Spec => [](TypeOK /\ ListConsistent /\ ListFollowsNames /\ ExamplesStay)
<1>1. Spec => []Inv
  BY InitInv, NextInv, PTL DEF Spec
<1>2. QED  BY <1>1, InvIsProperties, PTL
============================================================================
