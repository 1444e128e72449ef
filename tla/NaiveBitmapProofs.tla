------------------------- MODULE NaiveBitmapProofs -------------------------
(***************************************************************************)
(* Theorems about the byte loops of NaiveBitmap, for every number of bits  *)
(* in a byte, every pair of totals and every content of the bitmaps: they  *)
(* compute the operators of NaiveAlloc, on which the other theorems rest.  *)
(*                                                                         *)
(* A loop is a recursive function.  It is the function its equation        *)
(* defines because some function satisfies the equation, namely the one    *)
(* that looks up the value at the next stop; and it returns the value of   *)
(* its first stop, since the least index with that value is its start.     *)
(***************************************************************************)
EXTENDS NaiveBitmap, FiniteSetTheorems, TLAPS

----------------------------------------------------------------------------
(* Loops.                                                                  *)

\* A set of natural numbers that is not empty has a least member.
LEMMA LeastNumber ==
  ASSUME NEW H, H \subseteq Nat, H # {}
  PROVE  \E i \in H : \A j \in H : i <= j
<1> DEFINE T == {0 .. i : i \in H}
           R == StrictSubsetOrdering(Nat)
<1>1. IsWellFoundedOn(R, FiniteSubsetsOf(Nat))
  BY FS_StrictSubsetOrderingWellFounded
<1>2. T \subseteq FiniteSubsetsOf(Nat) /\ T # {}
  <2>1. \A i \in H : IsFiniteSet(0 .. i) /\ 0 .. i \in SUBSET Nat
    <3>1. \A i \in H : i \in Int /\ 0 \in Int
      OBVIOUS
    <3>2. \A i \in H : 0 .. i \in SUBSET Nat
      OBVIOUS
    <3>3. QED  BY <3>1, <3>2, FS_Interval
  <2>2. QED  BY <2>1 DEF FiniteSubsetsOf
<1> HIDE DEF R
<1>3. PICK A \in T : \A B \in T : ~ (<<B, A>> \in R)
  BY <1>1, <1>2, WFMin
<1>4. PICK i \in H : A = 0 .. i
  BY <1>3
<1>5. ASSUME NEW j \in H, j < i PROVE FALSE
  <2>1. 0 .. j \subseteq 0 .. i /\ i \in 0 .. i /\ i \notin 0 .. j
    BY <1>5
  <2>2. 0 .. j \in SUBSET Nat /\ 0 .. i \in SUBSET Nat
    OBVIOUS
  <2>3. ~ (<<0 .. j, 0 .. i>> \in R)
    BY <1>3, <1>4
  <2>4. QED  BY <2>1, <2>2, <2>3 DEF R, StrictSubsetOrdering
<1>6. QED  BY <1>5

\* A loop from index a on: stop says where it returns, and it returns at b if
\* not before.
Loops(a, b, stop, val, f) ==
  f = [i \in a .. b |-> IF stop[i] THEN val[i] ELSE f[i + 1]]

\* The first index at or after i where it returns.
Stops(b, stop, i) == {k \in i .. b : stop[k] /\ \A j \in i .. b : stop[j] => k <= j}

\* It returns somewhere, and there only.
LEMMA StopsOnce ==
  ASSUME NEW b \in Nat, NEW stop, stop[b], NEW i \in Nat, i <= b
  PROVE  \E k \in i .. b : Stops(b, stop, i) = {k}
<1> DEFINE H == {k \in i .. b : stop[k]}
<1>1. H \subseteq Nat /\ b \in H
  OBVIOUS
<1>2. PICK k \in H : \A j \in H : k <= j
  BY <1>1, LeastNumber
<1>3. k \in Stops(b, stop, i)
  BY <1>2 DEF Stops
<1>4. ASSUME NEW l \in Stops(b, stop, i) PROVE l = k
  <2>1. l \in H /\ \A j \in H : l <= j
    BY <1>4 DEF Stops
  <2>2. l \in Nat /\ k \in Nat /\ l <= k /\ k <= l
    BY <1>1, <1>2, <2>1
  <2>3. QED  BY <2>2
<1>5. QED  BY <1>3, <1>4

\* The loop's equation has a solution.
LEMMA LoopExists ==
  ASSUME NEW a \in Nat, NEW b \in Nat, a <= b, NEW stop, stop[b], NEW val
  PROVE  \E f : Loops(a, b, stop, val, f)
<1> DEFINE at(i) == CHOOSE k \in Stops(b, stop, i) : TRUE
           g == [i \in a .. b |-> val[at(i)]]
<1>1. ASSUME NEW i \in a .. b PROVE g[i] = IF stop[i] THEN val[i] ELSE g[i + 1]
  <2>0. i \in Nat /\ i <= b
    OBVIOUS
  <2>1. PICK k \in i .. b : Stops(b, stop, i) = {k}
    BY <2>0, StopsOnce
  <2>2. at(i) = k
    BY <2>1
  <2> HIDE DEF at
  <2>3. CASE stop[i]
    <3>1. i \in Stops(b, stop, i)
      BY <2>0, <2>3 DEF Stops
    <3>2. k = i
      BY <2>1, <3>1
    <3>3. at(i) = i
      BY <2>2, <3>2
    <3>4. QED  BY <2>3, <3>3
  <2>4. CASE ~ stop[i]
    <3>1. i # b /\ i + 1 \in a .. b /\ i + 1 \in Nat /\ i + 1 <= b
      BY <2>0, <2>4
    <3>2. \A n \in i .. b : n # i => n \in (i + 1) .. b
      BY <2>0
    <3>3. k \in Stops(b, stop, i)
      BY <2>1
    <3>4. stop[k] /\ \A j \in i .. b : stop[j] => k <= j
      BY <3>3 DEF Stops
    <3>5. k \in (i + 1) .. b /\ \A j \in (i + 1) .. b : j \in i .. b
      BY <2>0, <2>4, <3>2, <3>4
    <3>6. k \in Stops(b, stop, i + 1)
      BY <3>4, <3>5 DEF Stops
    <3>7. \E l \in (i + 1) .. b : Stops(b, stop, i + 1) = {l}
      BY ONLY b \in Nat, stop[b], <3>1, StopsOnce
    <3>8. at(i + 1) = k
      BY <3>6, <3>7 DEF at
    <3>9. g[i] = val[k] /\ g[i + 1] = val[k]
      BY <2>2, <3>1, <3>8
    <3>10. QED  BY <2>4, <3>9
  <2>5. QED  BY <2>3, <2>4
<1>2. Loops(a, b, stop, val, g)
  <2> DEFINE h == [i \in a .. b |-> IF stop[i] THEN val[i] ELSE g[i + 1]]
  <2>1. g = [i \in a .. b |-> g[i]]
    OBVIOUS
  <2> HIDE DEF g
  <2>2. [i \in a .. b |-> g[i]] = h
    BY <1>1
  <2>3. QED  BY <2>1, <2>2 DEF Loops
<1>3. QED  BY <1>2

\* What it returns: the value at its first stop.
LEMMA LoopReturns ==
  ASSUME NEW a \in Nat, NEW b \in Nat, a <= b, NEW stop, stop[b], NEW val,
         NEW f, Loops(a, b, stop, val, f)
  PROVE  \E k \in a .. b : /\ stop[k] /\ \A j \in a .. b : j < k => ~ stop[j]
                           /\ f[a] = val[k]
<1>1. PICK k \in a .. b : Stops(b, stop, a) = {k}
  BY StopsOnce
<1>2. stop[k] /\ \A j \in a .. b : stop[j] => k <= j
  <2>1. k \in Stops(b, stop, a)
    BY <1>1
  <2>2. QED  BY <2>1 DEF Stops
<1>3. \A i \in a .. b : f[i] = IF stop[i] THEN val[i] ELSE f[i + 1]
  BY DEF Loops
<1> DEFINE H == {i \in a .. k : f[i] = val[k]}
<1>4. H \subseteq Nat /\ k \in H
  BY <1>2, <1>3
<1>5. PICK m \in H : \A j \in H : m <= j
  BY <1>4, LeastNumber
<1>6. m = a
  <2>1. SUFFICES ASSUME m # a PROVE FALSE
    OBVIOUS
  <2>2. m - 1 \in a .. k /\ m - 1 < k /\ (m - 1) + 1 = m /\ m - 1 \in a .. b
    BY <2>1, <1>5
  <2>3. ~ stop[m - 1]
    BY <1>2, <2>2
  <2>4. f[m - 1] = f[m]
    BY <1>3, <2>2, <2>3
  <2>5. m - 1 \in H
    BY <1>5, <2>2, <2>4
  <2>6. QED  BY <1>4, <1>5, <2>5
<1>7. \A j \in a .. b : j < k => ~ stop[j]
  BY <1>2
<1>8. QED  BY <1>2, <1>5, <1>6, <1>7

----------------------------------------------------------------------------
(* Numbers, bytes and bits.                                                *)

\* A number is in the byte of its quotient, at the bit of its remainder.
LEMMA ByteAndBit ==
  ASSUME NEW n \in Nat
  PROVE  /\ n \div ByteBits \in Nat /\ n % ByteBits \in Bits
         /\ n = (n \div ByteBits) * ByteBits + (n % ByteBits)
  BY AllocAssumption DEF Bits

\* And in no other place.
LEMMA OfByteAndBit ==
  ASSUME NEW i \in Nat, NEW j \in Bits
  PROVE  /\ i * ByteBits + j \in Nat
         /\ (i * ByteBits + j) \div ByteBits = i /\ (i * ByteBits + j) % ByteBits = j
<1> DEFINE n == i * ByteBits + j
           q == n \div ByteBits
           r == n % ByteBits
<1>1. n \in Nat /\ i * ByteBits \in Nat /\ j \in Nat
  BY AllocAssumption DEF Bits
<1>2. q \in Nat /\ r \in Bits /\ n = q * ByteBits + r
  BY <1>1, ByteAndBit
<1> HIDE DEF q, r
<1>3. ~ (q < i)
  <2>1. SUFFICES ASSUME q < i PROVE FALSE
    OBVIOUS
  <2>2. (i - q) * ByteBits >= ByteBits
    BY <1>2, <2>1, AllocAssumption
  <2>3. i * ByteBits >= q * ByteBits + ByteBits
    BY <1>2, <2>2, AllocAssumption
  <2>4. QED  BY <1>1, <1>2, <2>3, AllocAssumption DEF Bits
<1>4. ~ (i < q)
  <2>1. SUFFICES ASSUME i < q PROVE FALSE
    OBVIOUS
  <2>2. (q - i) * ByteBits >= ByteBits
    BY <1>2, <2>1, AllocAssumption
  <2>3. q * ByteBits >= i * ByteBits + ByteBits
    BY <1>2, <2>2, AllocAssumption
  <2>4. QED  BY <1>1, <1>2, <2>3, AllocAssumption DEF Bits
<1>5. q = i
  BY <1>2, <1>3, <1>4
<1>6. r = j
  BY <1>1, <1>2, <1>5, AllocAssumption DEF Bits
<1>7. QED  BY <1>1, <1>5, <1>6 DEF q, r

\* Numbers are ordered by bytes, then by bits.
LEMMA BytesThenBits ==
  ASSUME NEW m \in Nat, NEW n \in Nat
  PROVE  /\ m <= n => m \div ByteBits <= n \div ByteBits
         /\ m \div ByteBits < n \div ByteBits => m < n
         /\ m \div ByteBits = n \div ByteBits => (m <= n <=> m % ByteBits <= n % ByteBits)
<1> DEFINE p == m \div ByteBits
           q == n \div ByteBits
           r == m % ByteBits
           s == n % ByteBits
<1>1. /\ p \in Nat /\ q \in Nat /\ r \in Bits /\ s \in Bits
      /\ m = p * ByteBits + r /\ n = q * ByteBits + s
  BY ByteAndBit
<1> HIDE DEF p, q, r, s
<1>2. p < q => m < n
  <2>1. SUFFICES ASSUME p < q PROVE m < n
    OBVIOUS
  <2>2. (q - p) * ByteBits >= ByteBits
    BY <1>1, <2>1, AllocAssumption
  <2>3. q * ByteBits >= p * ByteBits + ByteBits
    BY <1>1, <2>2, AllocAssumption
  <2>4. QED  BY <1>1, <2>3, AllocAssumption DEF Bits
<1>3. q < p => n < m
  <2>1. SUFFICES ASSUME q < p PROVE n < m
    OBVIOUS
  <2>2. (p - q) * ByteBits >= ByteBits
    BY <1>1, <2>1, AllocAssumption
  <2>3. p * ByteBits >= q * ByteBits + ByteBits
    BY <1>1, <2>2, AllocAssumption
  <2>4. QED  BY <1>1, <2>3, AllocAssumption DEF Bits
<1>4. p = q => (m <= n <=> r <= s)
  BY <1>1, AllocAssumption DEF Bits
<1>5. m <= n => p <= q
  BY <1>1, <1>3
<1>6. QED  BY <1>2, <1>4, <1>5 DEF p, q, r, s

\* The numbers below a whole number of bytes are those of these bytes.
LEMMA WholeBytes ==
  ASSUME NEW total \in Nat, NEW n \in Nat
  PROVE  /\ total \div ByteBits \in Nat
         /\ ByteBits * (total \div ByteBits) <= total
         /\ n < ByteBits * (total \div ByteBits) <=> n \div ByteBits < total \div ByteBits
<1> DEFINE last == total \div ByteBits
           whole == ByteBits * last
<1>1. last \in Nat /\ whole \in Nat /\ whole = last * ByteBits + 0 /\ 0 \in Bits
      /\ total = last * ByteBits + (total % ByteBits) /\ total % ByteBits \in Bits
  BY ByteAndBit, AllocAssumption DEF Bits
<1> HIDE DEF last
<1>2. whole <= total
  <2>1. total % ByteBits >= 0
    BY <1>1, AllocAssumption DEF Bits
  <2> HIDE DEF whole
  <2>2. last * ByteBits \in Nat /\ total % ByteBits \in Int
    BY <1>1, AllocAssumption DEF Bits
  <2>3. QED  BY <1>1, <2>1, <2>2
<1>3. whole \div ByteBits = last /\ whole % ByteBits = 0
  BY <1>1, OfByteAndBit
<1>4. n % ByteBits \in Bits
  BY ByteAndBit
<1> HIDE DEF whole
<1>5. n \div ByteBits \in Nat
  BY ByteAndBit
<1>6. n \div ByteBits < last => n < whole
  BY <1>1, <1>3, BytesThenBits
<1>7. ~ (n \div ByteBits < last) => ~ (n < whole)
  <2>1. SUFFICES ASSUME ~ (n \div ByteBits < last) PROVE whole <= n
    BY <1>1
  <2>2. CASE n \div ByteBits = last
    <3>1. whole % ByteBits <= n % ByteBits
      BY <1>3, <1>4 DEF Bits
    <3>2. QED  BY <1>1, <1>3, <2>2, <3>1, BytesThenBits
  <2>3. CASE last < n \div ByteBits
    BY <1>1, <1>3, <2>3, BytesThenBits
  <2>4. QED  BY <1>1, <1>5, <2>1, <2>2, <2>3
<1>8. QED  BY <1>1, <1>2, <1>6, <1>7 DEF last, whole

----------------------------------------------------------------------------
(* The scans.                                                              *)

\* The first clear bit of a byte at or after one, if there is any.
LEMMA FirstClear ==
  ASSUME NEW bytes, NEW i, NEW from \in Nat
  PROVE  \/ ClearBit(bytes, i, from) = {} /\ \A j \in Bits : j >= from => j \in bytes[i]
         \/ \E c \in Bits : /\ ClearBit(bytes, i, from) = {c}
                            /\ c >= from /\ c \notin bytes[i]
                            /\ \A j \in Bits : j >= from /\ j < c => j \in bytes[i]
<1> DEFINE H == {j \in Bits : j >= from /\ j \notin bytes[i]}
<1>1. Bits \subseteq Nat
  BY AllocAssumption DEF Bits
<1>2. CASE H = {}
  BY <1>2 DEF ClearBit
<1>3. CASE H # {}
  <2>1. PICK c \in H : \A j \in H : c <= j
    BY <1>1, <1>3, LeastNumber
  <2>2. \A j \in Bits : j >= from /\ j < c => j \in bytes[i]
    <3>1. SUFFICES ASSUME NEW j \in Bits, j >= from, j < c, j \notin bytes[i] PROVE FALSE
      OBVIOUS
    <3>2. c <= j /\ c \in Nat /\ j \in Nat
      BY <1>1, <2>1, <3>1
    <3>3. QED  BY <3>1, <3>2
  <2>3. ClearBit(bytes, i, from) = {j \in H : \A k \in H : j <= k}
    BY DEF ClearBit
  <2>4. ASSUME NEW j \in H, \A k \in H : j <= k PROVE j = c
    <3>1. j <= c /\ c <= j /\ c \in Nat /\ j \in Nat
      BY <1>1, <2>1, <2>4
    <3>2. QED  BY <3>1
  <2>5. ClearBit(bytes, i, from) = {c}
    BY <2>1, <2>3, <2>4
  <2>6. QED  BY <2>1, <2>2, <2>5
<1>4. QED  BY <1>2, <1>3

\* What the scan of the inode bitmap returns: the lowest clear number of the
\* whole bytes, or 0 when all of them are set.
LEMMA ScanInodesReturns ==
  ASSUME NEW bytes
  PROVE  LET last == InodeTotal \div ByteBits
             clear(n) == n % ByteBits \notin bytes[n \div ByteBits]
         IN  \/ /\ ScanInodes(bytes) = 0
                /\ \A n \in Nat : n \div ByteBits < last => ~ clear(n)
             \/ \E n \in Nat : /\ ScanInodes(bytes) = n + 1
                               /\ n \div ByteBits < last /\ clear(n)
                               /\ \A m \in Nat : m < n => ~ clear(m)
<1> DEFINE last == InodeTotal \div ByteBits
           clear(n) == n % ByteBits \notin bytes[n \div ByteBits]
           ino(i) == i * ByteBits + (CHOOSE j \in ClearBit(bytes, i, 0) : TRUE) + 1
           body(f, i) == IF i = last THEN 0
                         ELSE IF ClearBit(bytes, i, 0) = {} THEN f[i + 1]
                         ELSE IF ino(i) > InodeTotal THEN 0 ELSE ino(i)
           Eq(f) == f = [i \in 0 .. last |-> body(f, i)]
           scan == CHOOSE f : Eq(f)
           stop == [i \in 0 .. last |-> i = last \/ ClearBit(bytes, i, 0) # {}]
           val == [i \in 0 .. last |-> IF i = last \/ ino(i) > InodeTotal THEN 0 ELSE ino(i)]
<1>1. ScanInodes(bytes) = scan[0]
  BY DEF ScanInodes
<1>2. last \in Nat
  BY ByteAndBit, AllocAssumption
<1> HIDE DEF ino
<1>3. ASSUME NEW f PROVE Eq(f) <=> Loops(0, last, stop, val, f)
  <2>1. ASSUME NEW i \in 0 .. last
        PROVE  body(f, i) = IF stop[i] THEN val[i] ELSE f[i + 1]
    OBVIOUS
  <2>2. [i \in 0 .. last |-> body(f, i)] = [i \in 0 .. last |-> IF stop[i] THEN val[i] ELSE f[i + 1]]
    <3> HIDE DEF body, stop, val
    <3>1. QED  BY <2>1
  <2> HIDE DEF body, stop, val
  <2>3. QED  BY <2>2 DEF Loops
<1> HIDE DEF last
<1>4. stop[last] /\ 0 \in Nat /\ 0 <= last
  <2>1. last \in 0 .. last /\ 0 \in Nat /\ 0 <= last
    BY <1>2
  <2>2. stop[last]
    BY <2>1, Zenon
  <2>3. QED  BY <2>1, <2>2
<1> HIDE DEF stop, val, Eq
<1>5. \E f : Loops(0, last, stop, val, f)
  BY <1>2, <1>4, LoopExists
<1>6. Loops(0, last, stop, val, scan)
  BY <1>3, <1>5
<1> HIDE DEF scan
<1>7. PICK k \in 0 .. last : /\ stop[k] /\ \A j \in 0 .. last : j < k => ~ stop[j]
                             /\ scan[0] = val[k]
  BY <1>2, <1>4, <1>6, LoopReturns
<1>8. ASSUME NEW n \in Nat, n \div ByteBits < k PROVE ~ clear(n)
  <2>1. n \div ByteBits \in 0 .. last /\ n % ByteBits \in Bits /\ n % ByteBits >= 0
    BY <1>2, <1>8, ByteAndBit, AllocAssumption DEF Bits
  <2>2. ClearBit(bytes, n \div ByteBits, 0) = {}
    BY <1>7, <1>8, <2>1 DEF stop
  <2>3. QED  BY <2>1, <2>2, FirstClear
<1>9. CASE k = last
  <2>1. scan[0] = 0
    BY <1>7, <1>9 DEF val
  <2>2. QED  BY <1>1, <1>8, <1>9, <2>1 DEF last
<1>10. CASE k # last
  <2>1. k \in Nat /\ k < last /\ ClearBit(bytes, k, 0) # {}
    <3>1. k \in Nat /\ k < last
      BY <1>2, <1>10
    <3>2. ClearBit(bytes, k, 0) # {}
      BY <1>7, <1>10, Zenon DEF stop
    <3>3. QED  BY <3>1, <3>2
  <2>2. PICK c \in Bits : /\ ClearBit(bytes, k, 0) = {c} /\ c \notin bytes[k]
                          /\ \A j \in Bits : j >= 0 /\ j < c => j \in bytes[k]
    BY <2>1, FirstClear
  <2> DEFINE n == k * ByteBits + c
  <2>3. n \in Nat /\ n \div ByteBits = k /\ n % ByteBits = c
    BY <2>1, OfByteAndBit
  <2>4. ino(k) = n + 1
    BY <2>2 DEF ino
  <2> HIDE DEF n
  <2>5. n < InodeTotal
    <3>1. n < ByteBits * last /\ ByteBits * last <= InodeTotal
      BY <2>1, <2>3, WholeBytes, AllocAssumption DEF last
    <3>2. QED  BY <1>2, <2>3, <3>1, AllocAssumption
  <2>6. scan[0] = n + 1
    BY <1>7, <1>10, <2>3, <2>4, <2>5, AllocAssumption DEF val
  <2>7. ASSUME NEW m \in Nat, m < n PROVE ~ clear(m)
    <3>1. m \div ByteBits <= k /\ m \div ByteBits \in Nat /\ m % ByteBits \in Bits
      BY <2>3, <2>7, BytesThenBits, ByteAndBit
    <3>2. CASE m \div ByteBits = k
      <4>1. m % ByteBits >= 0 /\ m % ByteBits < c
        <5>1. ~ (n <= m)
          BY <2>3, <2>7
        <5>2. ~ (c <= m % ByteBits)
          BY <2>3, <3>2, <5>1, BytesThenBits
        <5>3. QED  BY <3>1, <5>2, AllocAssumption DEF Bits
      <4>2. QED  BY <2>2, <3>1, <3>2, <4>1
    <3>3. QED  BY <1>8, <2>1, <3>1, <3>2
  <2>8. clear(n)
    BY <2>2, <2>3
  <2>9. QED  BY <1>1, <2>1, <2>3, <2>6, <2>7, <2>8 DEF last
<1>11. QED  BY <1>9, <1>10

\* What the scan of the block bitmap returns: the lowest clear block of the
\* data area in a whole byte, or -1 when there is none.
LEMMA ScanBlocksReturns ==
  ASSUME NEW bytes
  PROVE  LET last == BlockTotal \div ByteBits
             clear(n) == n % ByteBits \notin bytes[n \div ByteBits]
         IN  \/ /\ ScanBlocks(bytes) = -1
                /\ \A n \in Nat : n >= DataStart /\ n \div ByteBits < last => ~ clear(n)
             \/ \E n \in Nat : /\ ScanBlocks(bytes) = n
                               /\ n >= DataStart /\ n \div ByteBits < last /\ clear(n)
                               /\ \A m \in Nat : m >= DataStart /\ m < n => ~ clear(m)
<1> DEFINE last == BlockTotal \div ByteBits
           first == DataStart \div ByteBits
           clear(n) == n % ByteBits \notin bytes[n \div ByteBits]
           from(i) == IF i = first THEN DataStart % ByteBits ELSE 0
           no(i) == i * ByteBits + (CHOOSE j \in ClearBit(bytes, i, from(i)) : TRUE)
           body(f, i) == IF i >= last THEN -1
                         ELSE IF ClearBit(bytes, i, from(i)) = {} THEN f[i + 1]
                         ELSE IF no(i) >= BlockTotal THEN -1 ELSE no(i)
           Eq(f) == f = [i \in first .. (last + first) |-> body(f, i)]
           scan == CHOOSE f : Eq(f)
           stop == [i \in first .. (last + first) |->
                      i >= last \/ ClearBit(bytes, i, from(i)) # {}]
           val == [i \in first .. (last + first) |->
                      IF i >= last \/ no(i) >= BlockTotal THEN -1 ELSE no(i)]
<1>1. ScanBlocks(bytes) = scan[first]
  BY DEF ScanBlocks
<1>2. /\ last \in Nat /\ first \in Nat /\ DataStart \in Nat
      /\ DataStart % ByteBits \in Bits /\ first <= last + first
  BY ByteAndBit, AllocAssumption
<1> HIDE DEF no, from
<1>3. ASSUME NEW f PROVE Eq(f) <=> Loops(first, last + first, stop, val, f)
  <2>1. ASSUME NEW i \in first .. (last + first)
        PROVE  body(f, i) = IF stop[i] THEN val[i] ELSE f[i + 1]
    <3> HIDE DEF last, first
    <3>1. QED  OBVIOUS
  <2>2. [i \in first .. (last + first) |-> body(f, i)]
          = [i \in first .. (last + first) |-> IF stop[i] THEN val[i] ELSE f[i + 1]]
    <3> HIDE DEF body, stop, val, last, first
    <3>1. QED  BY <2>1
  <2> HIDE DEF body, stop, val, last, first
  <2>3. QED  BY <2>2 DEF Loops
<1> HIDE DEF last, first
<1>4. stop[last + first] /\ last + first \in Nat
  <2>1. last + first \in first .. (last + first) /\ last + first >= last
    BY <1>2
  <2>2. stop[last + first]
    BY <2>1, Zenon
  <2>3. QED  BY <1>2, <2>2
<1> HIDE DEF stop, val, Eq
<1>5. \E f : Loops(first, last + first, stop, val, f)
  BY <1>2, <1>4, LoopExists
<1>6. Loops(first, last + first, stop, val, scan)
  BY <1>3, <1>5
<1> HIDE DEF scan
<1>7. PICK k \in first .. (last + first) :
        /\ stop[k] /\ \A j \in first .. (last + first) : j < k => ~ stop[j]
        /\ scan[first] = val[k]
  BY <1>2, <1>4, <1>6, LoopReturns
<1>8. \A i \in Nat : from(i) \in Nat
  BY <1>2, AllocAssumption DEF from, Bits
<1>9. ASSUME NEW n \in Nat, n >= DataStart
      PROVE  n \div ByteBits >= first /\ n % ByteBits >= from(n \div ByteBits)
  <2>1. n % ByteBits \in Bits /\ n \div ByteBits \in Nat /\ DataStart <= n
    BY <1>2, <1>9, ByteAndBit
  <2>2. first <= n \div ByteBits
    BY <1>2, <2>1, BytesThenBits DEF first
  <2>3. CASE n \div ByteBits = first
    <3>1. DataStart % ByteBits <= n % ByteBits
      BY <1>2, <2>1, <2>3, BytesThenBits DEF first
    <3>2. QED  BY <1>2, <2>1, <2>2, <2>3, <3>1, AllocAssumption DEF from, Bits
  <2>4. CASE n \div ByteBits # first
    BY <1>2, <2>1, <2>2, <2>4, AllocAssumption DEF from, Bits
  <2>5. QED  BY <2>3, <2>4
<1>10. ASSUME NEW n \in Nat, n >= DataStart, n \div ByteBits < k, n \div ByteBits < last
       PROVE  ~ clear(n)
  <2>1. n \div ByteBits \in Nat /\ n % ByteBits \in Bits
    BY ByteAndBit
  <2>2. n \div ByteBits >= first /\ n % ByteBits >= from(n \div ByteBits)
    BY <1>9, <1>10
  <2>3. n \div ByteBits \in first .. (last + first)
    BY <1>2, <1>10, <2>1, <2>2
  <2>4. ~ stop[n \div ByteBits]
    BY <1>7, <1>10, <2>3
  <2>5. ClearBit(bytes, n \div ByteBits, from(n \div ByteBits)) = {}
    BY <2>3, <2>4, Zenon DEF stop
  <2>6. from(n \div ByteBits) \in Nat
    BY <1>8, <2>1
  <2>7. n % ByteBits \in bytes[n \div ByteBits]
    <3> DEFINE q == n \div ByteBits
               r == n % ByteBits
    <3> HIDE DEF q, r
    <3>1. r \in bytes[q]
      <4>1. ClearBit(bytes, q, from(q)) = {} /\ from(q) \in Nat /\ r \in Bits /\ r >= from(q)
        BY <2>1, <2>2, <2>5, <2>6 DEF q, r
      <4>2. QED  BY <4>1, FirstClear
    <3>2. QED  BY <3>1 DEF q, r
  <2>8. QED  BY <2>7
<1>11. CASE k >= last
  <2>1. scan[first] = -1
    BY <1>7, <1>11 DEF val
  <2>2. ASSUME NEW n \in Nat, n >= DataStart, n \div ByteBits < last PROVE ~ clear(n)
    <3>1. n \div ByteBits \in Nat
      BY ByteAndBit
    <3>2. n \div ByteBits < k
      BY <1>2, <1>11, <2>2, <3>1
    <3>3. QED  BY <1>10, <2>2, <3>2
  <2>3. QED  BY <1>1, <2>1, <2>2 DEF last
<1>12. CASE ~ (k >= last)
  <2>1. k \in Nat /\ k < last /\ k >= first
    BY <1>2, <1>12
  <2>2. ClearBit(bytes, k, from(k)) # {}
    BY <1>7, <1>12, Zenon DEF stop
  <2>3. PICK c \in Bits : /\ ClearBit(bytes, k, from(k)) = {c}
                          /\ c >= from(k) /\ c \notin bytes[k]
                          /\ \A j \in Bits : j >= from(k) /\ j < c => j \in bytes[k]
    BY <1>8, <2>1, <2>2, FirstClear
  <2> DEFINE n == k * ByteBits + c
  <2>4. n \in Nat /\ n \div ByteBits = k /\ n % ByteBits = c
    BY <2>1, OfByteAndBit
  <2>5. no(k) = n
    BY <2>3 DEF no
  <2> HIDE DEF n
  <2>6. n < BlockTotal
    <3>1. n < ByteBits * last /\ ByteBits * last <= BlockTotal
      BY <2>1, <2>4, WholeBytes, AllocAssumption DEF last
    <3>2. QED  BY <1>2, <2>4, <3>1, AllocAssumption
  <2>7. scan[first] = n
    BY <1>7, <1>12, <2>4, <2>5, <2>6, AllocAssumption DEF val
  <2>8. n >= DataStart
    <3>1. CASE k = first
      <4>1. DataStart % ByteBits <= n % ByteBits
        BY <2>3, <2>4, <3>1 DEF from
      <4>2. QED  BY <1>2, <2>4, <3>1, <4>1, BytesThenBits DEF first
    <3>2. CASE k # first
      <4>1. DataStart \div ByteBits < n \div ByteBits
        BY <1>2, <2>1, <2>4, <3>2 DEF first
      <4>2. QED  BY <1>2, <2>4, <4>1, BytesThenBits
    <3>3. QED  BY <3>1, <3>2
  <2>9. ASSUME NEW m \in Nat, m >= DataStart, m < n PROVE ~ clear(m)
    <3>1. m \div ByteBits <= k /\ m \div ByteBits \in Nat /\ m % ByteBits \in Bits
      BY <2>4, <2>9, BytesThenBits, ByteAndBit
    <3>2. m % ByteBits >= from(m \div ByteBits)
      BY <1>9, <2>9
    <3>3. CASE m \div ByteBits = k
      <4>1. m % ByteBits < c
        <5>1. ~ (n <= m)
          BY <2>4, <2>9
        <5>2. ~ (c <= m % ByteBits)
          BY <2>4, <3>3, <5>1, BytesThenBits
        <5>3. QED  BY <3>1, <5>2, AllocAssumption DEF Bits
      <4>2. QED  BY <2>3, <3>1, <3>2, <3>3, <4>1
    <3>4. CASE m \div ByteBits # k
      <4>1. m \div ByteBits < k /\ m \div ByteBits < last
        BY <1>2, <2>1, <3>1, <3>4
      <4>2. QED  BY <1>10, <2>9, <4>1
    <3>5. QED  BY <3>3, <3>4
  <2>10. clear(n)
    BY <2>3, <2>4
  <2>11. QED  BY <1>1, <2>1, <2>4, <2>7, <2>8, <2>9, <2>10 DEF last
<1>13. QED  BY <1>11, <1>12

----------------------------------------------------------------------------
(* The loops and the sets.                                                 *)

\* An inode number or a block is in its set if its bit is set.
LEMMA InSets ==
  /\ \A i \in ScannedInos :
       /\ i - 1 \in Nat /\ (i - 1) \div ByteBits < InodeTotal \div ByteBits
       /\ i \in ImapSet <=> (i - 1) % ByteBits \in inode_bitmap[(i - 1) \div ByteBits]
  /\ \A b \in ScannedBlocks :
       /\ b \in Nat /\ b >= DataStart /\ b \div ByteBits < BlockTotal \div ByteBits
       /\ b \in BmapSet <=> b % ByteBits \in block_bitmap[b \div ByteBits]
<1>1. ASSUME NEW i \in ScannedInos
      PROVE  i - 1 \in Nat /\ (i - 1) \div ByteBits < InodeTotal \div ByteBits /\ i \in Inos
  <2>1. /\ i - 1 \in Nat /\ i \in Nat /\ InodeTotal \div ByteBits \in Nat
        /\ ByteBits * (InodeTotal \div ByteBits) <= InodeTotal
        /\ ByteBits * (InodeTotal \div ByteBits) \in Nat
    BY WholeBytes, AllocAssumption DEF ScannedInos
  <2>2. i - 1 < ByteBits * (InodeTotal \div ByteBits)
    BY <2>1 DEF ScannedInos
  <2>3. i \in Inos
    BY <2>1, <2>2, AllocAssumption DEF Inos
  <2>4. QED  BY <2>1, <2>2, <2>3, WholeBytes, AllocAssumption
<1>2. ASSUME NEW b \in ScannedBlocks
      PROVE  /\ b \in Nat /\ b >= DataStart /\ b \in Blocks
             /\ b \div ByteBits < BlockTotal \div ByteBits
  <2>1. /\ b \in Nat /\ BlockTotal \div ByteBits \in Nat /\ b >= DataStart
        /\ ByteBits * (BlockTotal \div ByteBits) <= BlockTotal
        /\ ByteBits * (BlockTotal \div ByteBits) \in Nat
    BY WholeBytes, AllocAssumption DEF ScannedBlocks
  <2>2. b < ByteBits * (BlockTotal \div ByteBits)
    BY <2>1 DEF ScannedBlocks
  <2>3. b \in Blocks
    BY <2>1, <2>2, AllocAssumption DEF Blocks
  <2>4. QED  BY <2>1, <2>2, <2>3, WholeBytes, AllocAssumption
<1>3. QED  BY <1>1, <1>2 DEF ImapSet, BmapSet

\* Numbers in whole bytes are those the set operators look at.
LEMMA InScanned ==
  /\ \A n \in Nat : n \div ByteBits < InodeTotal \div ByteBits => n + 1 \in ScannedInos
  /\ \A n \in Nat : n >= DataStart /\ n \div ByteBits < BlockTotal \div ByteBits
                      => n \in ScannedBlocks
<1> DEFINE wi == ByteBits * (InodeTotal \div ByteBits)
           wb == ByteBits * (BlockTotal \div ByteBits)
<1>1. wi \in Nat /\ wb \in Nat
  BY WholeBytes, AllocAssumption
<1>2. ASSUME NEW n \in Nat, n \div ByteBits < InodeTotal \div ByteBits PROVE n < wi
  BY <1>2, WholeBytes, AllocAssumption
<1>3. ASSUME NEW n \in Nat, n \div ByteBits < BlockTotal \div ByteBits PROVE n < wb
  BY <1>3, WholeBytes, AllocAssumption
<1> HIDE DEF wi, wb
<1>4. ScannedInos = 1 .. wi /\ ScannedBlocks = DataStart .. (wb - 1)
  BY DEF ScannedInos, ScannedBlocks, wi, wb
<1>5. ASSUME NEW n \in Nat, n < wi PROVE n + 1 \in 1 .. wi
  BY <1>1, <1>5
<1>6. ASSUME NEW n \in Nat, n >= DataStart, n < wb PROVE n \in DataStart .. (wb - 1)
  BY <1>1, <1>6, AllocAssumption
<1>7. QED  BY <1>2, <1>3, <1>4, <1>5, <1>6

\* Whatever the bitmap holds, the inode loop finds what FindFreeInode says.
LEMMA InodeLoopIsFindFreeInode == FindAgrees
<1> DEFINE last == InodeTotal \div ByteBits
           clear(n) == n % ByteBits \notin inode_bitmap[n \div ByteBits]
           s == ScanInodes(inode_bitmap)
<1>1. \A i \in ScannedInos : i - 1 \in Nat /\ (i - 1) \div ByteBits < last
                             /\ (i \in FreeInos(ImapSet) <=> clear(i - 1))
  BY InSets DEF FreeInos
<1>2. \/ s = 0 /\ \A n \in Nat : n \div ByteBits < last => ~ clear(n)
      \/ \E n \in Nat : /\ s = n + 1 /\ n \div ByteBits < last /\ clear(n)
                        /\ \A m \in Nat : m < n => ~ clear(m)
  BY ScanInodesReturns
<1>3. FreeInos(ImapSet) \subseteq ScannedInos /\ ScannedInos \subseteq Nat
  BY AllocAssumption DEF FreeInos, ScannedInos
<1>4. \A n \in Nat : n \div ByteBits < last => n + 1 \in ScannedInos
  BY InScanned
<1> HIDE DEF last, clear, s
<1>5. CASE s = 0 /\ \A n \in Nat : n \div ByteBits < last => ~ clear(n)
  <2>1. FreeInos(ImapSet) = {}
    BY <1>1, <1>3, <1>5
  <2>2. QED  BY <1>5, <2>1 DEF FindAgrees, FindFreeInode, s
<1>6. ASSUME NEW n \in Nat, s = n + 1, n \div ByteBits < last, clear(n),
             \A m \in Nat : m < n => ~ clear(m)
      PROVE  FindAgrees
  <2>1. n + 1 \in FreeInos(ImapSet)
    <3>1. n + 1 \in ScannedInos /\ (n + 1) - 1 = n
      BY <1>4, <1>6
    <3>2. QED  BY <1>1, <1>6, <3>1
  <2>2. ASSUME NEW i \in FreeInos(ImapSet) PROVE n + 1 <= i
    <3>1. i \in Nat /\ i - 1 \in Nat /\ clear(i - 1)
      BY <1>1, <1>3
    <3>2. ~ (i - 1 < n)
      BY <1>6, <3>1
    <3>3. QED  BY <3>1, <3>2
  <2>3. ASSUME NEW i \in FindFreeInode(ImapSet) PROVE i = n + 1
    <3>1. i \in FreeInos(ImapSet) /\ i <= n + 1
      BY <2>1 DEF FindFreeInode
    <3>2. n + 1 <= i /\ i \in Nat
      BY <1>3, <2>2, <3>1
    <3>3. QED  BY <3>1, <3>2
  <2>4. FindFreeInode(ImapSet) = {n + 1}
    BY <2>1, <2>2, <2>3 DEF FindFreeInode
  <2>5. s = n + 1 /\ s # 0
    BY <1>6
  <2>6. QED  BY <2>4, <2>5 DEF FindAgrees, s
<1>7. QED  BY <1>2, <1>5, <1>6

\* Whatever the bitmap holds, the block loop finds what AllocBlock says.
LEMMA BlockLoopIsAllocBlock == AllocAgrees
<1> DEFINE last == BlockTotal \div ByteBits
           clear(n) == n % ByteBits \notin block_bitmap[n \div ByteBits]
           s == ScanBlocks(block_bitmap)
<1>1. \A b \in ScannedBlocks : b \in Nat /\ b >= DataStart /\ b \div ByteBits < last
                               /\ (b \in FreeBlocks(BmapSet) <=> clear(b))
  BY InSets DEF FreeBlocks
<1>2. \/ s = -1 /\ \A n \in Nat : n >= DataStart /\ n \div ByteBits < last => ~ clear(n)
      \/ \E n \in Nat : /\ s = n /\ n >= DataStart /\ n \div ByteBits < last /\ clear(n)
                        /\ \A m \in Nat : m >= DataStart /\ m < n => ~ clear(m)
  BY ScanBlocksReturns
<1>3. FreeBlocks(BmapSet) \subseteq ScannedBlocks
  BY DEF FreeBlocks
<1>4. \A n \in Nat : n >= DataStart /\ n \div ByteBits < last => n \in ScannedBlocks
  BY InScanned
<1> HIDE DEF last, clear, s
<1>5. CASE s = -1 /\ \A n \in Nat : n >= DataStart /\ n \div ByteBits < last => ~ clear(n)
  <2>1. FreeBlocks(BmapSet) = {}
    BY <1>1, <1>3, <1>5
  <2>2. QED  BY <1>5, <2>1 DEF AllocAgrees, AllocBlock, s
<1>6. ASSUME NEW n \in Nat, s = n, n >= DataStart, n \div ByteBits < last, clear(n),
             \A m \in Nat : m >= DataStart /\ m < n => ~ clear(m)
      PROVE  AllocAgrees
  <2>1. n \in FreeBlocks(BmapSet)
    BY <1>1, <1>4, <1>6
  <2>2. ASSUME NEW b \in FreeBlocks(BmapSet) PROVE n <= b
    <3>1. b \in Nat /\ b >= DataStart /\ clear(b)
      BY <1>1, <1>3
    <3>2. ~ (b < n)
      BY <1>6, <3>1
    <3>3. QED  BY <3>1, <3>2
  <2>3. ASSUME NEW b \in AllocBlock(BmapSet) PROVE b = n
    <3>1. b \in FreeBlocks(BmapSet) /\ b <= n
      BY <2>1 DEF AllocBlock
    <3>2. n <= b /\ b \in Nat
      BY <1>1, <1>3, <2>2, <3>1
    <3>3. QED  BY <3>1, <3>2
  <2>4. AllocBlock(BmapSet) = {n}
    BY <2>1, <2>2, <2>3 DEF AllocBlock
  <2>5. s = n /\ s # -1
    BY <1>6
  <2>6. QED  BY <2>4, <2>5 DEF AllocAgrees, s
<1>7. QED  BY <1>2, <1>5, <1>6

\* The two loops compute the set operators of NaiveAlloc on every bitmap: the
\* lowest clear bit of the whole bytes, in the data area for blocks, and a
\* failure exactly when there is none.
THEOREM LoopsAgree == Spec => [](FindAgrees /\ AllocAgrees)
  BY InodeLoopIsFindFreeInode, BlockLoopIsAllocBlock, PTL

----------------------------------------------------------------------------
(* What a step changes.                                                    *)

\* The bitmaps are arrays of BitmapBytes bytes.
BytesFit == block_bitmap \in Bitmap /\ inode_bitmap \in Bitmap

\* Setting or clearing the bit of a number keeps an array of bytes one, and
\* changes no other number's bit.
LEMMA OneBit ==
  ASSUME NEW bytes \in Bitmap, NEW n \in Nat, NEW new,
         new = SetBit(bytes, n) \/ new = ClearBitOf(bytes, n)
  PROVE  /\ new \in Bitmap
         /\ \A m \in Nat : m # n /\ m < BitmapBytes * ByteBits =>
              (m % ByteBits \in new[m \div ByteBits] <=> m % ByteBits \in bytes[m \div ByteBits])
<1> DEFINE q == n \div ByteBits
           r == n % ByteBits
<1>1. q \in Nat /\ r \in Bits /\ n = q * ByteBits + r
  BY ByteAndBit
<1>2. new = [bytes EXCEPT ![q] = @ \cup {r}] \/ new = [bytes EXCEPT ![q] = @ \ {r}]
  BY DEF SetBit, ClearBitOf
<1> HIDE DEF q, r
<1>3. new \in Bitmap
  BY <1>1, <1>2 DEF Bitmap
<1>4. ASSUME NEW m \in Nat, m # n, m < BitmapBytes * ByteBits
      PROVE  m % ByteBits \in new[m \div ByteBits] <=> m % ByteBits \in bytes[m \div ByteBits]
  <2> DEFINE p == m \div ByteBits
             t == m % ByteBits
  <2>1. p \in Nat /\ t \in Bits /\ m = p * ByteBits + t
    BY ByteAndBit
  <2> HIDE DEF p, t
  <2>2. p \in 0 .. (BitmapBytes - 1)
    <3>1. SUFFICES ASSUME p >= BitmapBytes PROVE FALSE
      BY <2>1, BitmapAssumption
    <3>2. (p - BitmapBytes) * ByteBits >= 0
      BY <2>1, <3>1, BitmapAssumption, AllocAssumption
    <3>3. p * ByteBits >= BitmapBytes * ByteBits
      BY <2>1, <3>2, BitmapAssumption, AllocAssumption
    <3>4. QED  BY <1>4, <2>1, <3>3, BitmapAssumption, AllocAssumption DEF Bits
  <2>3. p # q \/ t # r
    BY <1>1, <1>4, <2>1
  <2>4. t \in new[p] <=> t \in bytes[p]
    BY <1>2, <2>2, <2>3 DEF Bitmap
  <2>5. QED  BY <2>4 DEF p, t
<1>5. QED  BY <1>3, <1>4

\* Sets that differ in one element at most.
LEMMA DifferInOne ==
  ASSUME NEW S, NEW T, NEW x, \A y : y # x => (y \in S <=> y \in T)
  PROVE  Cardinality((S \ T) \cup (T \ S)) <= 1
<1> DEFINE D == (S \ T) \cup (T \ S)
<1>1. D = {} \/ D = {x}
  OBVIOUS
<1>2. Cardinality({}) = 0 /\ Cardinality({x}) = 1
  BY FS_EmptySet, FS_Singleton
<1>3. QED  BY <1>1, <1>2

\* A step that changes one bit of one bitmap, or none.
ChangesOne(old, new) ==
  \/ new = old
  \/ \E n \in Nat : new = SetBit(old, n) \/ new = ClearBitOf(old, n)

\* Every step is one, of either bitmap.
LEMMA NextChangesOne ==
  ASSUME [Next]_vars
  PROVE  /\ ChangesOne(block_bitmap, block_bitmap')
         /\ ChangesOne(inode_bitmap, inode_bitmap')
<1>1. CASE AllocInode
  <2>1. PICK n \in Nat : ScanInodes(inode_bitmap) = n + 1
    BY <1>1, ScanInodesReturns DEF AllocInode
  <2>2. ScanInodes(inode_bitmap) - 1 = n
    BY <2>1
  <2>3. QED  BY <1>1, <2>2 DEF AllocInode, ChangesOne
<1>2. CASE AllocABlock
  <2>1. PICK n \in Nat : ScanBlocks(block_bitmap) = n
    BY <1>2, ScanBlocksReturns DEF AllocABlock
  <2>2. QED  BY <1>2, <2>1 DEF AllocABlock, ChangesOne
<1>3. ASSUME NEW i \in Inos, FreeInode(i)
      PROVE  /\ ChangesOne(block_bitmap, block_bitmap')
             /\ ChangesOne(inode_bitmap, inode_bitmap')
  <2>1. i - 1 \in Nat
    BY AllocAssumption DEF Inos
  <2>2. QED  BY <1>3, <2>1 DEF FreeInode, ChangesOne
<1>4. ASSUME NEW b \in Blocks, FreeABlock(b)
      PROVE  /\ ChangesOne(block_bitmap, block_bitmap')
             /\ ChangesOne(inode_bitmap, inode_bitmap')
  <2>1. b \in Nat
    BY AllocAssumption DEF Blocks
  <2>2. QED  BY <1>4, <2>1 DEF FreeABlock, ChangesOne
<1>5. CASE UNCHANGED vars
  BY <1>5 DEF vars, ChangesOne
<1>6. QED  BY <1>1, <1>2, <1>3, <1>4, <1>5 DEF Next

\* The arrays keep their size.
LEMMA BytesAlwaysFit == Spec => []BytesFit
<1>1. Init => BytesFit
  BY OneBit DEF Init, BytesFit, RootIno
<1>2. BytesFit /\ [Next]_vars => BytesFit'
  BY NextChangesOne, OneBit DEF BytesFit, ChangesOne
<1>3. QED  BY <1>1, <1>2, PTL DEF Spec

\* The numbers a bitmap marks differ in one at most after a step.
LEMMA OneNumberAtATime ==
  ASSUME BytesFit, [Next]_vars
  PROVE  /\ Cardinality((BmapSet \ BmapSet') \cup (BmapSet' \ BmapSet)) <= 1
         /\ Cardinality((ImapSet \ ImapSet') \cup (ImapSet' \ ImapSet)) <= 1
<1>1. \E x : \A y : y # x => (y \in BmapSet <=> y \in BmapSet')
  <2>1. CASE block_bitmap' = block_bitmap
    BY <2>1 DEF BmapSet
  <2>2. ASSUME NEW n \in Nat,
               block_bitmap' = SetBit(block_bitmap, n) \/ block_bitmap' = ClearBitOf(block_bitmap, n)
        PROVE  \A y : y # n => (y \in BmapSet <=> y \in BmapSet')
    <3>1. \A b \in Blocks : b \in Nat /\ b < BitmapBytes * ByteBits
      <4>1. BitmapBytes * ByteBits \in Int
        BY AllocAssumption, BitmapAssumption
      <4>2. QED  BY <4>1, AllocAssumption, BitmapAssumption DEF Blocks
    <3>2. \A b \in Blocks : b # n =>
            (b % ByteBits \in block_bitmap'[b \div ByteBits]
               <=> b % ByteBits \in block_bitmap[b \div ByteBits])
      BY <2>2, <3>1, OneBit DEF BytesFit
    <3>3. QED  BY <3>2 DEF BmapSet
  <2>3. QED  BY <2>1, <2>2, NextChangesOne DEF ChangesOne
<1>2. \E x : \A y : y # x => (y \in ImapSet <=> y \in ImapSet')
  <2>1. CASE inode_bitmap' = inode_bitmap
    BY <2>1 DEF ImapSet
  <2>2. ASSUME NEW n \in Nat,
               inode_bitmap' = SetBit(inode_bitmap, n) \/ inode_bitmap' = ClearBitOf(inode_bitmap, n)
        PROVE  \A y : y # n + 1 => (y \in ImapSet <=> y \in ImapSet')
    <3>1. \A i \in Inos : /\ i - 1 \in Nat /\ i - 1 < BitmapBytes * ByteBits
                          /\ i # n + 1 => i - 1 # n
      <4>1. BitmapBytes * ByteBits \in Int
        BY AllocAssumption, BitmapAssumption
      <4>2. QED  BY <4>1, AllocAssumption, BitmapAssumption DEF Inos
    <3>2. \A i \in Inos : i # n + 1 =>
            ((i - 1) % ByteBits \in inode_bitmap'[(i - 1) \div ByteBits]
               <=> (i - 1) % ByteBits \in inode_bitmap[(i - 1) \div ByteBits])
      BY <2>2, <3>1, OneBit DEF BytesFit
    <3>3. QED  BY <3>2 DEF ImapSet
  <2>3. QED  BY <2>1, <2>2, NextChangesOne DEF ChangesOne
<1>3. QED  BY <1>1, <1>2, DifferInOne

\* Finding, marking and freeing a number leave every other number's bit as it
\* was, also those of the same byte.
THEOREM OtherBitsStay == Spec => OneBitAtATime
  BY BytesAlwaysFit, OneNumberAtATime, PTL DEF Spec, OneBitAtATime
============================================================================
