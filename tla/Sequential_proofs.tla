-------------------------- MODULE Sequential_proofs --------------------------
(***************************************************************************)
(* Timer ids, the timer heap, the log, the scene and the mine sweeper,     *)
(* each for any use.                                                       *)
(***************************************************************************)
EXTENDS MCSequential, WellFoundedInduction, SequenceTheorems, FiniteSetTheorems, TLAPS

----------------------------------------------------------------------------
(* Sets of numbers, and what a sequence holds.                             *)

LessPairs == {p \in Nat \X Nat : p[1] < p[2]}

\* A lowest clear bit exists where any does.
LEMMA Smallest ==
    ASSUME NEW S \in SUBSET Nat, S # {}
    PROVE  \E n \in S : \A m \in S : n <= m
<1>1. IsWellFoundedOn(LessPairs, Nat) BY NatLessThanWellFounded DEF OpToRel, LessPairs
<1>2. PICK n \in S : \A m \in S : ~(<<m, n>> \in LessPairs) BY <1>1, WFMin
<1>3. \A m \in S : ~(m < n) BY <1>2 DEF LessPairs
<1>. QED BY <1>3

Distinct(q) == \A i, j \in DOMAIN q : q[i] = q[j] => i = j
In(q, t) == \E i \in DOMAIN q : q[i] = t

\* What a sequence holds stands at its head or behind it.
LEMMA HeadOrTail ==
    ASSUME NEW S, NEW q \in Seq(S), q # <<>>
    PROVE  \A t : In(q, t) <=> t = Head(q) \/ In(Tail(q), t)
<1>1. /\ Len(q) \in Nat \ {0} /\ DOMAIN q = 1 .. Len(q) /\ Head(q) = q[1]
      /\ DOMAIN Tail(q) = 1 .. (Len(q) - 1)
      /\ \A i \in 1 .. (Len(q) - 1) : Tail(q)[i] = q[i + 1]
  OBVIOUS
<1>2. ASSUME NEW t, In(q, t), t # Head(q) PROVE In(Tail(q), t)
  <2>1. PICK i \in 1 .. Len(q) : q[i] = t BY <1>1, <1>2 DEF In
  <2>2. i - 1 \in 1 .. (Len(q) - 1) /\ (i - 1) + 1 = i BY <1>1, <1>2, <2>1
  <2>. QED BY <1>1, <2>1, <2>2 DEF In
<1>3. ASSUME NEW t, In(Tail(q), t) PROVE In(q, t)
  <2>1. PICK i \in 1 .. (Len(q) - 1) : q[i + 1] = t BY <1>1, <1>3 DEF In
  <2>2. i + 1 \in DOMAIN q BY <1>1
  <2>. QED BY <2>1, <2>2 DEF In
<1>4. In(q, Head(q)) BY <1>1 DEF In
<1>. QED BY <1>2, <1>3, <1>4

LEMMA ConcatPlaces ==
    ASSUME NEW S, NEW q \in Seq(S), NEW s \in Seq(S)
    PROVE  /\ q \o s \in Seq(S) /\ Len(q \o s) = Len(q) + Len(s)
           /\ \A t : In(q \o s, t) <=> In(q, t) \/ In(s, t)
<1>1. /\ Len(q) \in Nat /\ Len(s) \in Nat
      /\ DOMAIN q = 1 .. Len(q) /\ DOMAIN s = 1 .. Len(s)
      /\ DOMAIN (q \o s) = 1 .. Len(q) + Len(s)
      /\ \A i \in 1 .. Len(q) : (q \o s)[i] = q[i]
      /\ \A i \in 1 .. Len(s) : (q \o s)[Len(q) + i] = s[i]
      /\ q \o s \in Seq(S) /\ Len(q \o s) = Len(q) + Len(s)
  OBVIOUS
<1>2. ASSUME NEW t, In(q \o s, t) PROVE In(q, t) \/ In(s, t)
  <2>1. PICK i \in 1 .. Len(q) + Len(s) : (q \o s)[i] = t BY <1>1, <1>2 DEF In
  <2>2. CASE i <= Len(q) BY <1>1, <2>1, <2>2 DEF In
  <2>3. CASE i > Len(q)
    <3>1. i - Len(q) \in 1 .. Len(s) /\ Len(q) + (i - Len(q)) = i BY <1>1, <2>3
    <3>. QED BY <1>1, <2>1, <3>1 DEF In
  <2>. QED BY <1>1, <2>2, <2>3
<1>3. ASSUME NEW t, In(q, t) PROVE In(q \o s, t) BY <1>1, <1>3 DEF In
<1>4. ASSUME NEW t, In(s, t) PROVE In(q \o s, t)
  <2>1. PICK i \in 1 .. Len(s) : s[i] = t BY <1>1, <1>4 DEF In
  <2>2. Len(q) + i \in DOMAIN (q \o s) BY <1>1
  <2>. QED BY <1>1, <2>1, <2>2 DEF In
<1>. QED BY <1>1, <1>2, <1>3, <1>4

\* A queue without repetition that takes something new at its back.
LEMMA AppendPlaces ==
    ASSUME NEW S, NEW q \in Seq(S), NEW u \in S, Distinct(q), ~In(q, u)
    PROVE  /\ Distinct(Append(q, u))
           /\ \A t : In(Append(q, u), t) <=> t = u \/ In(q, t)
<1>1. /\ Len(q) \in Nat /\ DOMAIN q = 1 .. Len(q)
      /\ DOMAIN Append(q, u) = 1 .. (Len(q) + 1)
      /\ Append(q, u)[Len(q) + 1] = u
      /\ \A i \in 1 .. Len(q) : Append(q, u)[i] = q[i]
  OBVIOUS
<1>. QED BY <1>1 DEF Distinct, In

----------------------------------------------------------------------------
(* The ids of timers, for any width of a byte, any size of the bitmap and  *)
(* any timers that come and go.                                            *)

\* The bit of every living id is set, until the release of an id that is
\* divisible by Byte2Bit has cleared a wrong one.
BitsCover == ~skewed => \A o \in Owners : id[o] # 0 => id[o] - 1 \in bits

IdsInv == TypeOK /\ BitsCover /\ IdsUnique

\* CreateTimerID gives 0 or the id of a bit that was clear and is set now.
LEMMA NewIdIsFree ==
    ASSUME NEW s \in Nat, NEW b \in SUBSET Nat
    PROVE  /\ TakenBits(s, b) \in SUBSET Nat
           /\ b \subseteq TakenBits(s, b)
           /\ IdOf(s, b) \in Nat
           /\ IdOf(s, b) # 0 => /\ IdOf(s, b) - 1 \in TakenBits(s, b)
                                /\ IdOf(s, b) - 1 \notin b
<1>1. ClearBits(s, b) \in SUBSET Nat BY IdsAssumption DEF ClearBits
<1>2. b \subseteq TakenBits(s, b) /\ TakenBits(s, b) \in SUBSET Nat
  BY <1>1 DEF TakenBits
<1>3. CASE ClearBits(s, b) = {} BY <1>2, <1>3 DEF IdOf
<1>4. CASE ClearBits(s, b) # {}
  <2>. DEFINE n == CHOOSE n \in ClearBits(s, b) : \A m \in ClearBits(s, b) : n <= m
  <2>1. \E k \in ClearBits(s, b) : \A m \in ClearBits(s, b) : k <= m
    BY <1>1, <1>4, Smallest
  <2>2. n \in ClearBits(s, b) /\ \A m \in ClearBits(s, b) : n <= m
    BY <2>1
  <2>3. IdOf(s, b) = 1 + n BY <1>4 DEF IdOf
  <2>4. n \in Nat /\ n \notin b BY <1>1, <2>2 DEF ClearBits
  <2>5. n \in TakenBits(s, b) BY <2>2 DEF TakenBits
  <2>. HIDE DEF n
  <2>6. 1 + n \in Nat /\ (1 + n) - 1 = n BY <2>4
  <2>. QED BY <1>2, <2>3, <2>4, <2>5, <2>6
<1>. QED BY <1>3, <1>4

\* ReleaseTimerID clears the bit of the id it is given, or none, if the id is
\* not divisible by Byte2Bit.
LEMMA ReleaseClearsOwn ==
    ASSUME NEW i \in Nat, (i % Byte2Bit) # 0
    PROVE  Cleared(i) \subseteq {i - 1}
<1>1. i = ((i \div Byte2Bit) * Byte2Bit) + (i % Byte2Bit) BY IdsAssumption
<1>2. i \div Byte2Bit \in Nat /\ (i % Byte2Bit) \in Nat BY IdsAssumption
<1>. DEFINE q == (i \div Byte2Bit) * Byte2Bit
            r == i % Byte2Bit
<1>3. q \in Nat /\ r \in Nat BY <1>2, IdsAssumption
<1>4. q + (r - 1) = i - 1 BY <1>1, <1>3
<1>. QED BY <1>4 DEF Cleared

LEMMA IdsInit == Init => IdsInv
<1>. SUFFICES ASSUME Init PROVE IdsInv
  OBVIOUS
<1>1. TypeOK
  <2>1. 0 \in 0 .. UIntSize - 1 BY IdsAssumption
  <2>. QED BY <2>1, IdsAssumption DEF Init, TypeOK
<1>2. BitsCover /\ IdsUnique BY DEF Init, BitsCover, IdsUnique
<1>. QED BY <1>1, <1>2 DEF IdsInv

LEMMA IdCreateStep ==
    ASSUME IdsInv, NEW o \in Owners, Create(o)
    PROVE  IdsInv'
<1>. DEFINE new == IdOf(idBytes', bits)
<1>0. idBytes' \in Nat BY IdsAssumption DEF IdsInv, TypeOK, Create, Grown
<1>1. /\ bits' \in SUBSET Nat /\ bits \subseteq bits' /\ new \in Nat
      /\ new # 0 => new - 1 \in bits' /\ new - 1 \notin bits
  BY <1>0, NewIdIsFree DEF IdsInv, TypeOK, Create
<1>2. /\ id' = [id EXCEPT ![o] = new] /\ skewed' = skewed
      /\ curTimers' = curTimers /\ state' = [state EXCEPT ![o] = "alive"]
  BY DEF Create
<1>3. TypeOK' BY <1>0, <1>1, <1>2 DEF IdsInv, TypeOK
<1>4. id'[o] = new /\ \A p \in Owners \ {o} : id'[p] = id[p]
  BY <1>2 DEF IdsInv, TypeOK
<1>5. BitsCover' BY <1>1, <1>2, <1>4 DEF IdsInv, BitsCover
<1>6. IdsUnique' BY <1>1, <1>2, <1>4 DEF IdsInv, BitsCover, IdsUnique
<1>. QED BY <1>3, <1>5, <1>6 DEF IdsInv

LEMMA IdDestroyStep ==
    ASSUME IdsInv, NEW o \in Owners, Destroy(o)
    PROVE  IdsInv'
<1>1. TypeOK' BY DEF IdsInv, TypeOK, Destroy
<1>2. id'[o] = 0 /\ \A p \in Owners \ {o} : id'[p] = id[p]
  BY DEF IdsInv, TypeOK, Destroy
<1>3. CASE skewed' BY <1>1, <1>3 DEF IdsInv, BitsCover, IdsUnique
<1>4. CASE ~skewed'
  <2>1. ~skewed /\ (id[o] # 0 => (id[o] % Byte2Bit) # 0) BY <1>4 DEF Destroy
  <2>2. bits \ {id[o] - 1} \subseteq bits'
    <3>1. CASE id[o] = 0 BY <3>1 DEF Destroy
    <3>2. CASE id[o] # 0
      <4>1. Cleared(id[o]) \subseteq {id[o] - 1}
        BY <2>1, <3>2, ReleaseClearsOwn DEF IdsInv, TypeOK
      <4>. QED BY <3>2, <4>1 DEF Destroy
    <3>. QED BY <3>1, <3>2
  <2>3. \A p \in Owners \ {o} : id[p] # 0 => id[p] \in Nat /\ id[p] # id[o]
    BY <2>1 DEF IdsInv, TypeOK, IdsUnique
  <2>4. BitsCover'
    <3>. SUFFICES ASSUME NEW p \in Owners, id'[p] # 0 PROVE id'[p] - 1 \in bits'
      BY DEF BitsCover
    <3>1. p # o /\ id'[p] = id[p] BY <1>2
    <3>2. id[p] - 1 \in bits BY <2>1, <3>1 DEF IdsInv, BitsCover
    <3>3. id[p] - 1 # id[o] - 1 BY <2>3, <3>1 DEF IdsInv, TypeOK
    <3>. QED BY <2>2, <3>1, <3>2, <3>3
  <2>5. IdsUnique' BY <1>2, <2>1 DEF IdsInv, IdsUnique
  <2>. QED BY <1>1, <2>4, <2>5 DEF IdsInv
<1>. QED BY <1>3, <1>4 DEF IdsInv, TypeOK

LEMMA IdsStep ==
    ASSUME IdsInv, [Next]_vars
    PROVE  IdsInv'
<1>1. CASE Register \/ Unregister
  <2>1. PICK n : n = curTimers' OBVIOUS
  <2>2. /\ n = (curTimers + 1) % UIntSize
           \/ n = IF curTimers = 0 THEN UIntSize - 1 ELSE curTimers - 1
        /\ UNCHANGED <<idBytes, bits, id, state, skewed>>
    BY <1>1, <2>1 DEF Register, Unregister, Counted
  <2>3. UIntSize \in Nat \ {0} /\ curTimers \in 0 .. UIntSize - 1
    BY IdsAssumption DEF IdsInv, TypeOK
  <2>4. curTimers' \in 0 .. UIntSize - 1 BY <2>1, <2>2, <2>3
  <2>. QED BY <2>2, <2>4 DEF IdsInv, TypeOK, BitsCover, IdsUnique
<1>2. CASE UNCHANGED vars
  BY <1>2 DEF vars, IdsInv, TypeOK, BitsCover, IdsUnique
<1>. QED BY <1>1, <1>2, IdCreateStep, IdDestroyStep DEF Next

\* Two living timers have different ids, as long as no id divisible by
\* BYTE2BIT was released: the condition is the code's own off-by-one.
THEOREM IdsStayUnique == Spec => []IdsUnique
<1>1. Init => IdsInv BY IdsInit
<1>2. IdsInv /\ [Next]_vars => IdsInv' BY IdsStep
<1>3. IdsInv => IdsUnique BY DEF IdsInv
<1>. QED BY <1>1, <1>2, <1>3, PTL DEF Spec

----------------------------------------------------------------------------
(* The shifts of a heap.                                                   *)

\* u[p] is the sequence h once node is put in at p or where the path from p
\* leads: from a place p of M, what stands at f[p] comes to p.
ShiftOf(u, M, f, h, node) ==
    u = [p \in DOMAIN h |->
            IF p \in M THEN [u[f[p]] EXCEPT ![p] = h[f[p]]]
            ELSE [h EXCEPT ![p] = node]]

\* Such a u exists if every step of a path lowers a rank r.
LEMMA ShiftExists ==
    ASSUME NEW n \in Nat, NEW h, DOMAIN h = 1..n, NEW node,
           NEW M \in SUBSET (1..n), NEW f \in [M -> 1..n],
           NEW r \in [1..n -> 0..n], \A p \in M : r[f[p]] < r[p]
    PROVE  \E u : ShiftOf(u, M, f, h, node)
<1>. DEFINE E(u, p) == IF p \in M THEN [u[f[p]] EXCEPT ![p] = h[f[p]]]
                       ELSE [h EXCEPT ![p] = node]
            Low(m) == {p \in 1..n : r[p] < m}
            Good(m) == \E u : u = [p \in Low(m) |-> E(u, p)]
            Bad == {m \in 0 .. n + 1 : ~Good(m)}
<1>1. Bad = {}
  <2>. SUFFICES ASSUME Bad # {} PROVE FALSE
    OBVIOUS
  <2>1. PICK m \in Bad : \A k \in Bad : m <= k
    <3>1. Bad \in SUBSET Nat OBVIOUS
    <3>. HIDE DEF Bad
    <3>. QED BY <3>1, Smallest
  <2>2. m \in 0 .. n + 1 /\ ~Good(m) OBVIOUS
  <2>3. m # 0
    <3>1. Low(0) = {} OBVIOUS
    <3>. DEFINE z == [p \in {} |-> 0]
    <3>. HIDE DEF E
    <3>2. z = [p \in Low(0) |-> E(z, p)] BY <3>1
    <3>. HIDE DEF z
    <3>3. Good(0) BY <3>2
    <3>. QED BY <2>2, <3>3
  <2>4. m - 1 \in 0 .. n + 1 /\ ~(m <= m - 1) BY <2>2, <2>3
  <2>5. Good(m - 1) BY <2>1, <2>4
  <2>6. PICK u : u = [p \in Low(m - 1) |-> E(u, p)] BY <2>5
  <2>. DEFINE v == [p \in Low(m) |-> E(u, p)]
  <2>7. ASSUME NEW p \in Low(m) PROVE E(u, p) = E(v, p)
    <3>1. CASE p \notin M BY <3>1
    <3>2. CASE p \in M
      <4>1. r[f[p]] < r[p] /\ r[p] < m /\ f[p] \in 1..n BY <3>2
      <4>2. r[f[p]] \in Nat /\ r[p] \in Nat /\ m \in Nat BY <4>1, <2>2
      <4>3. f[p] \in Low(m - 1) /\ f[p] \in Low(m) BY <4>1, <4>2, SMTT(60)
      <4>4. u[f[p]] = v[f[p]] BY <2>6, <4>3
      <4>. QED BY <3>2, <4>4
    <3>. QED BY <3>1, <3>2
  <2>8. v = [p \in Low(m) |-> E(v, p)]
    <3>. HIDE DEF E, Low
    <3>1. \A p \in Low(m) : E(u, p) = E(v, p) BY <2>7
    <3>2. [p \in Low(m) |-> E(u, p)] = [p \in Low(m) |-> E(v, p)] BY <3>1
    <3>3. v = [p \in Low(m) |-> E(u, p)] OBVIOUS
    <3>. QED BY <3>2, <3>3
  <2>9. Good(m)
    <3>. HIDE DEF E, Low, v
    <3>. QED BY <2>8
  <2>. QED BY <2>2, <2>9
<1>2. Good(n + 1)
  <2>1. n + 1 \in 0 .. n + 1 OBVIOUS
  <2>. HIDE DEF Good
  <2>. QED BY <1>1, <2>1
<1>3. Low(n + 1) = DOMAIN h OBVIOUS
<1>. QED BY <1>2, <1>3 DEF ShiftOf

\* q holds the entries of h, each in one place: its entry at i stands at t[i].
Permutes(t, n) ==
    /\ t \in [1..n -> 1..n]
    /\ \A i, j \in 1..n : t[i] = t[j] => i = j
    /\ \A j \in 1..n : \E i \in 1..n : t[i] = j
Rearranged(q, h, n) ==
    \E t : Permutes(t, n) /\ q = [i \in 1..n |-> h[t[i]]]

\* A shift loses and doubles nothing, and leaves alone what stands behind its
\* start in the order of r.
LEMMA ShiftRearranges ==
    ASSUME NEW n \in Nat, NEW S, NEW h \in [1..n -> S], NEW node \in S,
           NEW M \in SUBSET (1..n), NEW f \in [M -> 1..n],
           NEW r \in [1..n -> 0..n], \A p \in M : r[f[p]] < r[p],
           NEW u, ShiftOf(u, M, f, h, node), NEW p \in 1..n
    PROVE  Rearranged(u[p], [h EXCEPT ![p] = node], n)
<1>. DEFINE At(k) == [h EXCEPT ![k] = node]
            By(k, t) == /\ Permutes(t, n)
                        /\ \A i \in 1..n : r[i] > r[k] => t[i] = i
                        /\ u[k] = [i \in 1..n |-> At(k)[t[i]]]
            Good(k) == \E t : By(k, t)
            Bad == {r[k] : k \in {k \in 1..n : ~Good(k)}}
<1>1. ASSUME NEW k \in 1..n, k \notin M PROVE Good(k)
  <2>. DEFINE t == [i \in 1..n |-> i]
  <2>1. u[k] = At(k) BY <1>1 DEF ShiftOf
  <2>2. At(k) = [i \in 1..n |-> At(k)[t[i]]] OBVIOUS
  <2>3. By(k, t) BY <2>1, <2>2 DEF Permutes
  <2>. QED BY <2>3
<1>2. ASSUME NEW k \in M, NEW s, By(f[k], s) PROVE Good(k)
  <2>. DEFINE q == f[k]
              t == [i \in 1..n |-> IF i = k THEN q ELSE IF s[i] = q THEN k ELSE s[i]]
  <2>1. /\ k \in 1..n /\ q \in 1..n /\ r[q] < r[k] /\ r[q] \in Nat /\ r[k] \in Nat
        /\ k # q
    OBVIOUS
  <2>2. /\ s \in [1..n -> 1..n]
        /\ \A i, j \in 1..n : s[i] = s[j] => i = j
        /\ \A j \in 1..n : \E i \in 1..n : s[i] = j
        /\ s[k] = k
    BY <1>2, <2>1 DEF Permutes
  <2>3. ASSUME NEW i \in 1..n, r[i] > r[k] PROVE s[i] = i /\ i # q /\ i # k
    <3>1. r[i] \in Nat /\ r[i] > r[q] BY <2>1, <2>3
    <3>2. \A j \in 1..n : r[j] > r[q] => s[j] = j BY <1>2
    <3>. QED BY <2>1, <2>3, <3>1, <3>2
  <2>. HIDE DEF q
  <2>4. t \in [1..n -> 1..n] BY <2>1, <2>2
  <2>5. ASSUME NEW i \in 1..n, NEW j \in 1..n, t[i] = t[j] PROVE i = j
    <3>1. \A l \in 1..n : l # k => s[l] # k BY <2>1, <2>2
    <3>3. /\ t[i] = IF i = k THEN q ELSE IF s[i] = q THEN k ELSE s[i]
          /\ t[j] = IF j = k THEN q ELSE IF s[j] = q THEN k ELSE s[j]
          /\ t[i] = t[j]
      BY <2>5
    <3>. HIDE DEF t
    <3>4. CASE i = k BY <3>4, <3>3, <2>1
    <3>5. CASE j = k BY <3>5, <3>3, <2>1
    <3>6. CASE i # k /\ j # k
      <4>1. s[i] = s[j] BY <3>6, <3>3, <3>1
      <4>. QED BY <4>1, <2>2
    <3>. QED BY <3>4, <3>5, <3>6
  <2>6. ASSUME NEW j \in 1..n PROVE \E i \in 1..n : t[i] = j
    <3>1. PICK i \in 1..n : s[i] = j BY <2>2
    <3>2. PICK m \in 1..n : s[m] = q BY <2>1, <2>2
    <3>3. CASE j = q BY <3>3, <2>1
    <3>4. CASE j = k
      <4>1. m # k BY <3>2, <2>1, <2>2
      <4>2. t[m] = k BY <3>2, <4>1
      <4>. QED BY <3>4, <4>2
    <3>5. CASE j # q /\ j # k
      <4>1. i # k BY <3>1, <3>5, <2>2
      <4>2. t[i] = j BY <3>1, <3>5, <4>1
      <4>. QED BY <4>2
    <3>. QED BY <3>3, <3>4, <3>5
  <2>7. Permutes(t, n) BY <2>4, <2>5, <2>6 DEF Permutes
  <2>8. \A i \in 1..n : r[i] > r[k] => t[i] = i BY <2>3, <2>1
  <2>9. u[k] = [i \in 1..n |-> At(k)[t[i]]]
    <3>1. u[k] = [u[q] EXCEPT ![k] = h[q]] BY <2>1 DEF ShiftOf, q
    <3>2. u[q] = [i \in 1..n |-> At(q)[s[i]]] BY <1>2 DEF q
    <3>3. u[k] = [i \in 1..n |-> IF i = k THEN h[q] ELSE At(q)[s[i]]] BY <3>1, <3>2
    <3>4. ASSUME NEW i \in 1..n
          PROVE  At(k)[t[i]] = IF i = k THEN h[q] ELSE At(q)[s[i]]
      <4>1. CASE i = k BY <4>1, <2>1
      <4>2. CASE i # k /\ s[i] = q BY <4>2, <2>1
      <4>3. CASE i # k /\ s[i] # q
        <5>1. s[i] # k BY <4>3, <2>1, <2>2
        <5>. QED BY <4>3, <5>1, <2>1, <2>2
      <4>. QED BY <4>1, <4>2, <4>3
    <3>. HIDE DEF t, At
    <3>. QED BY <3>3, <3>4
  <2>. HIDE DEF t, At
  <2>. QED BY <2>7, <2>8, <2>9
<1>3. Bad = {}
  <2>. SUFFICES ASSUME Bad # {} PROVE FALSE
    OBVIOUS
  <2>1. PICK m \in Bad : \A l \in Bad : m <= l
    <3>1. Bad \in SUBSET Nat OBVIOUS
    <3>. HIDE DEF Bad
    <3>. QED BY <3>1, Smallest
  <2>2. PICK k \in 1..n : m = r[k] /\ ~Good(k) OBVIOUS
  <2>. HIDE DEF Good
  <2>3. k \in M BY <1>1, <2>2
  <2>4. r[f[k]] < r[k] /\ f[k] \in 1..n /\ r[f[k]] \in Nat /\ r[k] \in Nat BY <2>3
  <2>5. r[f[k]] \notin Bad
    <3>. HIDE DEF Bad
    <3>. QED BY <2>1, <2>2, <2>4
  <2>6. Good(f[k]) BY <2>4, <2>5
  <2>. QED BY <1>2, <2>2, <2>3, <2>6 DEF Good
<1>4. Good(p)
  <2>. HIDE DEF Good
  <2>. QED BY <1>3
<1>. QED BY <1>4 DEF Rearranged

\* The places from which ShiftUp and ShiftDown go on, and where to.
UpMoves(h, next, node) ==
    {p \in DOMAIN h : p > 1 /\ Heap!Less(next, node, h[p \div 2])}
Up(M) == [p \in M |-> p \div 2]
DownMoves(h, next, node) ==
    {p \in DOMAIN h :
        /\ Heap!Child(h, next, p) \in DOMAIN h
        /\ Heap!Less(next, h[Heap!Child(h, next, p)], node)}
Down(M, h, next) == [p \in M |-> Heap!Child(h, next, p)]

\* Halving and doubling, as the heap goes up and down.
LEMMA HalfBelow ==
    ASSUME NEW p \in Nat, p > 1
    PROVE  p \div 2 \in Nat /\ 1 <= p \div 2 /\ p \div 2 < p
OBVIOUS

LEMMA ChildAbove ==
    ASSUME NEW S, NEW h \in Seq(S), NEW next, NEW p \in DOMAIN h,
           Heap!Child(h, next, p) \in DOMAIN h
    PROVE  Heap!Child(h, next, p) \in {2 * p, 2 * p + 1}
BY DEF Heap!Child

LEMMA UpIsShift ==
    ASSUME NEW S, NEW h \in Seq(S), NEW next, NEW node
    PROVE  LET M == UpMoves(h, next, node) IN
           /\ M \in SUBSET (DOMAIN h) /\ Up(M) \in [M -> DOMAIN h]
           /\ \A p \in M : Up(M)[p] = p \div 2 /\ p \div 2 < p /\ p > 1
           /\ \E u : /\ ShiftOf(u, M, Up(M), h, node)
                     /\ \A p \in DOMAIN h : Heap!ShiftUp(h, next, p, node) = u[p]
<1>. DEFINE M == UpMoves(h, next, node)
            f == Up(M)
            n == Len(h)
            r == [p \in 1..n |-> p]
            E(u, p) == IF p > 1 /\ Heap!Less(next, node, h[p \div 2])
                       THEN [u[p \div 2] EXCEPT ![p] = h[p \div 2]]
                       ELSE [h EXCEPT ![p] = node]
            c == CHOOSE u : u = [p \in 1..n |-> E(u, p)]
<1>1. n \in Nat /\ DOMAIN h = 1..n OBVIOUS
<1>2. M \in SUBSET (1..n) BY <1>1 DEF UpMoves
<1>3. \A p \in M : f[p] = p \div 2 /\ p \div 2 \in 1..n /\ p \div 2 < p /\ p > 1
  <2>. SUFFICES ASSUME NEW p \in M
                PROVE  f[p] = p \div 2 /\ p \div 2 \in 1..n /\ p \div 2 < p /\ p > 1
    OBVIOUS
  <2>1. p > 1 /\ p \in 1..n BY <1>1 DEF UpMoves
  <2>. QED BY <1>1, <2>1, HalfBelow DEF Up
<1>4. f \in [M -> 1..n] BY <1>3 DEF Up
<1>5. PICK u : ShiftOf(u, M, f, h, node)
  <2>1. r \in [1..n -> 0..n] /\ \A p \in M : r[f[p]] < r[p] BY <1>1, <1>2, <1>3
  <2>. HIDE DEF M, f, r, n
  <2>. QED BY <1>1, <1>2, <1>4, <2>1, ShiftExists
<1>6. \A v : ShiftOf(v, M, f, h, node) <=> v = [p \in 1..n |-> E(v, p)]
  <2>. SUFFICES ASSUME NEW v
                PROVE  ShiftOf(v, M, f, h, node) <=> v = [p \in 1..n |-> E(v, p)]
    OBVIOUS
  <2>1. \A p \in 1..n : E(v, p) = IF p \in M THEN [v[f[p]] EXCEPT ![p] = h[f[p]]]
                                  ELSE [h EXCEPT ![p] = node]
    BY <1>1, <1>3 DEF UpMoves
  <2>. HIDE DEF E, M, f, n
  <2>. QED BY <1>1, <2>1 DEF ShiftOf
<1>7. c = [p \in 1..n |-> E(c, p)]
  <2>. HIDE DEF E, n
  <2>. QED BY <1>5, <1>6
<1>8. \A p \in DOMAIN h : Heap!ShiftUp(h, next, p, node) = c[p] BY DEF Heap!ShiftUp
<1>9. ShiftOf(c, M, f, h, node)
  <2>. HIDE DEF E, c, M, f, n
  <2>. QED BY <1>6, <1>7
<1>. HIDE DEF c
<1>. QED BY <1>1, <1>2, <1>3, <1>4, <1>8, <1>9

LEMMA DownIsShift ==
    ASSUME NEW S, NEW h \in Seq(S), NEW next, NEW node
    PROVE  LET M == DownMoves(h, next, node)
               f == Down(M, h, next)
           IN
           /\ M \in SUBSET (DOMAIN h) /\ f \in [M -> DOMAIN h]
           /\ \A p \in M : f[p] = Heap!Child(h, next, p) /\ p < f[p]
           /\ \E u : /\ ShiftOf(u, M, f, h, node)
                     /\ \A p \in DOMAIN h : Heap!ShiftDown(h, next, p, node) = u[p]
<1>. DEFINE M == DownMoves(h, next, node)
            f == Down(M, h, next)
            n == Len(h)
            r == [p \in 1..n |-> n - p]
            E(u, p) == LET c == Heap!Child(h, next, p) IN
                       IF c \in 1..n /\ Heap!Less(next, h[c], node)
                       THEN [u[c] EXCEPT ![p] = h[c]]
                       ELSE [h EXCEPT ![p] = node]
            d == CHOOSE u : u = [p \in 1..n |-> E(u, p)]
<1>1. n \in Nat /\ DOMAIN h = 1..n OBVIOUS
<1>2. M \in SUBSET (1..n) BY <1>1 DEF DownMoves
<1>3. \A p \in M : f[p] = Heap!Child(h, next, p) /\ f[p] \in 1..n /\ p < f[p]
  <2>. SUFFICES ASSUME NEW p \in M
                PROVE  f[p] = Heap!Child(h, next, p) /\ f[p] \in 1..n /\ p < f[p]
    OBVIOUS
  <2>1. p \in 1..n /\ Heap!Child(h, next, p) \in 1..n BY <1>1 DEF DownMoves
  <2>2. Heap!Child(h, next, p) \in {2 * p, 2 * p + 1} BY <1>1, <2>1, ChildAbove
  <2>3. f[p] = Heap!Child(h, next, p) BY DEF Down
  <2>. QED BY <1>1, <2>1, <2>2, <2>3
<1>4. f \in [M -> 1..n]
  <2>1. \A p \in M : Heap!Child(h, next, p) \in 1..n BY <1>3
  <2>. QED BY <2>1 DEF Down
<1>5. PICK u : ShiftOf(u, M, f, h, node)
  <2>1. r \in [1..n -> 0..n] /\ \A p \in M : r[f[p]] < r[p]
    <3>1. r \in [1..n -> 0..n] BY <1>1
    <3>2. ASSUME NEW p \in M PROVE r[f[p]] < r[p]
      <4>1. p \in 1..n /\ f[p] \in 1..n /\ p < f[p] BY <1>2, <1>3
      <4>2. r[f[p]] = n - f[p] /\ r[p] = n - p BY <4>1
      <4>. QED BY <1>1, <4>1, <4>2
    <3>. QED BY <3>1, <3>2
  <2>. HIDE DEF M, f, r, n
  <2>. QED BY <1>1, <1>2, <1>4, <2>1, ShiftExists
<1>6. \A v : ShiftOf(v, M, f, h, node) <=> v = [p \in 1..n |-> E(v, p)]
  <2>. SUFFICES ASSUME NEW v
                PROVE  ShiftOf(v, M, f, h, node) <=> v = [p \in 1..n |-> E(v, p)]
    OBVIOUS
  <2>1. \A p \in 1..n : E(v, p) = IF p \in M THEN [v[f[p]] EXCEPT ![p] = h[f[p]]]
                                  ELSE [h EXCEPT ![p] = node]
    BY <1>1, <1>3 DEF DownMoves
  <2>. HIDE DEF E, M, f, n
  <2>. QED BY <1>1, <2>1 DEF ShiftOf
<1>7. d = [p \in 1..n |-> E(d, p)]
  <2>. HIDE DEF E, n
  <2>. QED BY <1>5, <1>6
<1>8. \A p \in DOMAIN h : Heap!ShiftDown(h, next, p, node) = d[p]
  BY DEF Heap!ShiftDown
<1>9. ShiftOf(d, M, f, h, node)
  <2>. HIDE DEF E, d, M, f, n
  <2>. QED BY <1>6, <1>7
<1>. HIDE DEF d
<1>. QED BY <1>1, <1>2, <1>3, <1>4, <1>8, <1>9

LEMMA UpRearranges ==
    ASSUME NEW S, NEW h \in Seq(S), NEW next, NEW node \in S, NEW p \in DOMAIN h
    PROVE  Rearranged(Heap!ShiftUp(h, next, p, node), [h EXCEPT ![p] = node], Len(h))
<1>. DEFINE M == UpMoves(h, next, node)
            f == Up(M)
            n == Len(h)
            r == [i \in 1..n |-> i]
<1>1. n \in Nat /\ DOMAIN h = 1..n /\ h \in [1..n -> S] OBVIOUS
<1>2. /\ M \in SUBSET (1..n) /\ f \in [M -> 1..n]
      /\ \A i \in M : f[i] = i \div 2 /\ i \div 2 < i
  BY <1>1, UpIsShift
<1>3. r \in [1..n -> 0..n] /\ \A i \in M : r[f[i]] < r[i] BY <1>1, <1>2
<1>4. PICK u : /\ ShiftOf(u, M, f, h, node)
               /\ \A i \in DOMAIN h : Heap!ShiftUp(h, next, i, node) = u[i]
  BY UpIsShift
<1>. HIDE DEF M, f, r, n
<1>5. Rearranged(u[p], [h EXCEPT ![p] = node], n)
  BY <1>1, <1>2, <1>3, <1>4, ShiftRearranges
<1>. QED BY <1>4, <1>5 DEF n

LEMMA DownRearranges ==
    ASSUME NEW S, NEW h \in Seq(S), NEW next, NEW node \in S, NEW p \in DOMAIN h
    PROVE  Rearranged(Heap!ShiftDown(h, next, p, node), [h EXCEPT ![p] = node], Len(h))
<1>. DEFINE M == DownMoves(h, next, node)
            f == Down(M, h, next)
            n == Len(h)
            r == [i \in 1..n |-> n - i]
<1>1. n \in Nat /\ DOMAIN h = 1..n /\ h \in [1..n -> S] OBVIOUS
<1>2. /\ M \in SUBSET (1..n) /\ f \in [M -> 1..n]
      /\ \A i \in M : f[i] \in 1..n /\ i \in 1..n /\ i < f[i]
  BY <1>1, DownIsShift
<1>3. r \in [1..n -> 0..n] BY <1>1
<1>4. ASSUME NEW i \in M PROVE r[f[i]] < r[i]
  <2>1. r[f[i]] = n - f[i] /\ r[i] = n - i BY <1>2
  <2>. QED BY <1>1, <1>2, <2>1
<1>5. PICK u : /\ ShiftOf(u, M, f, h, node)
               /\ \A i \in DOMAIN h : Heap!ShiftDown(h, next, i, node) = u[i]
  BY DownIsShift
<1>. HIDE DEF M, f, r, n
<1>6. Rearranged(u[p], [h EXCEPT ![p] = node], n)
  BY <1>1, <1>2, <1>3, <1>4, <1>5, ShiftRearranges
<1>. QED BY <1>5, <1>6 DEF n

\* What is not less than the root is shifted to a place below it.
LEMMA UpKeepsRoot ==
    ASSUME NEW S, NEW h \in Seq(S), NEW next, NEW node \in S,
           NEW p \in DOMAIN h, p > 1, ~Heap!Less(next, node, h[1])
    PROVE  Heap!ShiftUp(h, next, p, node)[1] = h[1]
<1>. DEFINE M == UpMoves(h, next, node)
            f == Up(M)
            Bad == {i \in DOMAIN h : i > 1 /\ Heap!ShiftUp(h, next, i, node)[1] # h[1]}
<1>1. Len(h) \in Nat /\ DOMAIN h = 1 .. Len(h) OBVIOUS
<1>2. /\ M \in SUBSET (DOMAIN h) /\ f \in [M -> DOMAIN h]
      /\ \A i \in M : f[i] = i \div 2 /\ i \div 2 < i /\ i > 1
  BY UpIsShift
<1>3. PICK u : /\ ShiftOf(u, M, f, h, node)
               /\ \A i \in DOMAIN h : Heap!ShiftUp(h, next, i, node) = u[i]
  BY UpIsShift
<1>4. Bad = {}
  <2>. SUFFICES ASSUME Bad # {} PROVE FALSE
    OBVIOUS
  <2>1. PICK k \in Bad : \A i \in Bad : k <= i
    <3>1. Bad \in SUBSET Nat BY <1>1
    <3>. HIDE DEF Bad
    <3>. QED BY <3>1, Smallest
  <2>2. k \in 1 .. Len(h) /\ k > 1 /\ u[k][1] # h[1] BY <1>1, <1>3
  <2>3. CASE k \notin M
    <3>1. u[k] = [h EXCEPT ![k] = node] BY <1>1, <1>3, <2>2, <2>3 DEF ShiftOf
    <3>. QED BY <1>1, <2>2, <3>1
  <2>4. CASE k \in M
    <3>1. f[k] = k \div 2 /\ k \div 2 < k /\ k \div 2 \in DOMAIN h BY <1>2, <2>4
    <3>2. u[k] = [u[k \div 2] EXCEPT ![k] = h[k \div 2]]
      BY <1>1, <1>3, <2>2, <2>4, <3>1 DEF ShiftOf
    <3>3. k \div 2 # 1 BY <2>4 DEF UpMoves
    <3>4. k \div 2 > 1 /\ ~(k <= k \div 2) BY <1>1, <3>1, <3>3
    <3>5. k \div 2 \notin Bad BY <2>1, <3>4
    <3>6. u[k \div 2][1] = h[1] BY <1>3, <3>1, <3>4, <3>5
    <3>7. u[k][1] = u[k \div 2][1] BY <2>2, <3>2
    <3>. QED BY <2>2, <3>6, <3>7
  <2>. QED BY <2>3, <2>4
<1>. QED BY <1>4

\* The times along the tree of h, below the entry at lo.
Ordered(h, next, lo) ==
    \A i \in 2 .. Len(h) : i \div 2 >= lo => next[h[i \div 2]] <= next[h[i]]

\* ShiftUp restores the order that a new last entry disturbs: nothing before its
\* place grows, and the path to it stays in order.  With lo = 2 the root is
\* left out, once its time was changed in place.
LEMMA UpOrders ==
    ASSUME NEW h \in Seq(Timers), NEW next \in [Timers -> Nat], dead = {},
           NEW node \in Timers, NEW lo \in {1, 2}, h # <<>>,
           \A i \in 2 .. Len(h) - 1 : i \div 2 >= lo => next[h[i \div 2]] <= next[h[i]],
           lo = 2 => next[h[1]] <= next[node]
    PROVE  Ordered(Heap!ShiftUp(h, next, Len(h), node), next, lo)
<1>. DEFINE n == Len(h)
            M == UpMoves(h, next, node)
            f == Up(M)
<1>1. /\ n \in Nat \ {0} /\ DOMAIN h = 1..n /\ h \in [1..n -> Timers]
      /\ \A i \in 1..n : next[h[i]] \in Nat
      /\ next[node] \in Nat
  OBVIOUS
<1>2. /\ M \in SUBSET (1..n) /\ f \in [M -> 1..n]
      /\ \A i \in M : f[i] = i \div 2 /\ i \div 2 < i /\ i > 1
  BY <1>1, UpIsShift
<1>3. PICK u : /\ ShiftOf(u, M, f, h, node)
               /\ \A i \in DOMAIN h : Heap!ShiftUp(h, next, i, node) = u[i]
  BY UpIsShift
<1>4. \A i \in 1..n : i \in M <=> i > 1 /\ next[node] < next[h[i \div 2]]
  BY <1>1 DEF UpMoves, Heap!Less
\* node has come to p, or the parent of p has and node is less than that.
<1>. DEFINE Good(p) ==
       LET g == u[p] IN
       /\ g \in [1..n -> Timers]
       /\ \A i \in 1..n : i > p => g[i] = h[i]
       /\ \A i \in 1..n : i < p => next[g[i]] <= next[h[i]]
       /\ \A i \in 2..n : i <= p /\ i \div 2 >= lo => next[g[i \div 2]] <= next[g[i]]
       /\ \/ g[p] = node
          \/ p \in M /\ g[p] = h[p \div 2]
     Bad == {p \in 1..n : p >= lo /\ ~Good(p)}
<1>5. ASSUME NEW p \in 1..n, p \notin M, p >= lo PROVE Good(p)
  <2>1. u[p] = [h EXCEPT ![p] = node] BY <1>1, <1>3, <1>5 DEF ShiftOf
  <2>. DEFINE g == u[p]
  <2>2. /\ g \in [1..n -> Timers] /\ g[p] = node
        /\ \A i \in 1..n : i # p => g[i] = h[i]
    BY <1>1, <2>1
  <2>. HIDE DEF g
  <2>3. ASSUME NEW i \in 2..n, i <= p, i \div 2 >= lo
        PROVE  next[g[i \div 2]] <= next[g[i]]
    <3>1. i \div 2 \in 1..n /\ i \div 2 < i BY <1>1, HalfBelow
    <3>2. CASE i = p
      <4>1. ~(next[node] < next[h[p \div 2]]) BY <1>4, <1>5, <3>2
      <4>. QED BY <1>1, <2>2, <3>1, <3>2, <4>1
    <3>3. CASE i < p
      <4>1. i \in 2 .. n - 1 BY <1>1, <3>3
      <4>2. g[i] = h[i] /\ g[i \div 2] = h[i \div 2] BY <1>1, <2>2, <3>1, <3>3
      <4>. QED BY <2>3, <4>1, <4>2
    <3>. QED BY <1>1, <2>3, <3>2, <3>3
  <2>4. \A i \in 1..n : i < p => next[g[i]] <= next[h[i]] BY <1>1, <2>2
  <2>. QED BY <2>2, <2>3, <2>4 DEF g
<1>6. ASSUME NEW p \in M
      PROVE  p \in 1..n /\ p \div 2 \in 1..n /\ p \div 2 < p /\ p > 1 /\ p \div 2 >= lo
  <2>1. p \in 1..n /\ p \div 2 \in 1..n /\ p \div 2 < p /\ p > 1 BY <1>1, <1>2
  <2>2. next[node] < next[h[p \div 2]] BY <1>4, <2>1
  <2>3. p \div 2 = 1 => lo = 1 BY <1>1, <2>1, <2>2
  <2>. QED BY <1>1, <2>1, <2>3
<1>7. ASSUME NEW p \in M, Good(p \div 2) PROVE Good(p)
  <2>. DEFINE q == p \div 2
              e == u[q]
              g == u[p]
  <2>1. /\ p \in 1..n /\ q \in 1..n /\ q < p /\ p > 1 /\ q >= lo
        /\ next[node] < next[h[q]]
    BY <1>4, <1>6
  <2>2. g = [e EXCEPT ![p] = h[q]] BY <1>1, <1>2, <1>3, <2>1 DEF ShiftOf
  <2>3. /\ e \in [1..n -> Timers]
        /\ \A i \in 1..n : i > q => e[i] = h[i]
        /\ \A i \in 1..n : i < q => next[e[i]] <= next[h[i]]
        /\ \A i \in 2..n : i <= q /\ i \div 2 >= lo => next[e[i \div 2]] <= next[e[i]]
        /\ e[q] = node \/ (q \in M /\ e[q] = h[q \div 2])
    BY <1>7
  <2>4. /\ g \in [1..n -> Timers] /\ g[p] = h[q]
        /\ \A i \in 1..n : i # p => g[i] = e[i]
    BY <1>1, <2>1, <2>2, <2>3
  <2>. HIDE DEF g, e, q
  \* What has come to q is no later than what stood there.
  <2>5. next[e[q]] <= next[h[q]]
    <3>1. CASE e[q] = node BY <1>1, <2>1, <3>1
    <3>2. CASE q \in M /\ e[q] = h[q \div 2]
      <4>1. q \in 2 .. n - 1 /\ q \div 2 >= lo BY <1>1, <1>6, <2>1, <3>2
      <4>. QED BY <3>2, <4>1
    <3>. QED BY <2>3, <3>1, <3>2
  <2>6. ASSUME NEW i \in 1..n, i < p PROVE next[g[i]] <= next[h[i]]
    <3>1. CASE i < q BY <2>1, <2>3, <2>4, <2>6, <3>1
    <3>2. CASE i = q BY <2>1, <2>4, <2>5, <3>2
    <3>3. CASE i > q BY <1>1, <2>3, <2>4, <2>6, <3>3
    <3>. QED BY <2>1, <3>1, <3>2, <3>3
  <2>7. ASSUME NEW i \in 2..n, i <= p, i \div 2 >= lo
        PROVE  next[g[i \div 2]] <= next[g[i]]
    <3>1. i \div 2 \in 1..n /\ i \div 2 < i BY <1>1, HalfBelow
    <3>2. g[i \div 2] \in Timers /\ g[i] \in Timers BY <1>1, <2>4, <3>1, SMTT(60)
    <3>3. CASE i = p
      <4>1. g[i \div 2] = e[q] /\ g[i] = h[q] BY <2>1, <2>4, <3>1, <3>3 DEF q
      <4>. QED BY <2>5, <4>1
    <3>4. CASE i <= q
      <4>1. g[i \div 2] = e[i \div 2] /\ g[i] = e[i] BY <2>1, <2>4, <3>1, <3>4, SMTT(60)
      <4>. QED BY <2>3, <2>7, <3>4, <4>1
    <3>5. CASE q < i /\ i < p
      <4>1. g[i] = h[i] BY <2>3, <2>4, <3>5
      <4>2. next[g[i \div 2]] <= next[h[i \div 2]] BY <2>1, <2>6, <3>1, <3>5
      <4>3. next[h[i \div 2]] <= next[h[i]]
        <5>1. i \in 2 .. n - 1 BY <2>1, <3>5
        <5>. QED BY <2>7, <5>1
      <4>4. next[g[i \div 2]] \in Nat /\ next[h[i \div 2]] \in Nat /\ next[h[i]] \in Nat
        BY <1>1, <3>1, <3>2
      <4>. QED BY <4>1, <4>2, <4>3, <4>4
    <3>. QED BY <2>1, <2>7, <3>3, <3>4, <3>5
  <2>8. \A i \in 1..n : i > p => g[i] = h[i] BY <2>1, <2>3, <2>4
  <2>9. p \in M /\ g[p] = h[p \div 2] BY <2>4 DEF q
  <2>. QED BY <2>4, <2>6, <2>7, <2>8, <2>9 DEF g
<1>8. Bad = {}
  <2>. SUFFICES ASSUME Bad # {} PROVE FALSE
    OBVIOUS
  <2>1. PICK k \in Bad : \A i \in Bad : k <= i
    <3>1. Bad \in SUBSET Nat BY <1>1
    <3>. HIDE DEF Bad
    <3>. QED BY <3>1, Smallest
  <2>2. k \in 1..n /\ k >= lo /\ ~Good(k) OBVIOUS
  <2>. HIDE DEF Good
  <2>3. k \in M BY <1>5, <2>2
  <2>4. k \div 2 \in 1..n /\ k \div 2 >= lo /\ ~(k <= k \div 2) BY <1>6, <2>3
  <2>5. Good(k \div 2)
    <3>1. k \div 2 \notin Bad
      <4>. HIDE DEF Bad
      <4>. QED BY <2>1, <2>4
    <3>. QED BY <2>4, <3>1
  <2>. QED BY <1>7, <2>2, <2>3, <2>5
<1>9. CASE n >= lo
  <2>1. Good(n)
    <3>1. n \in 1..n BY <1>1
    <3>. HIDE DEF Good
    <3>. QED BY <1>8, <1>9, <3>1
  <2>2. Heap!ShiftUp(h, next, n, node) = u[n] BY <1>1, <1>3
  <2>3. u[n] \in [1..n -> Timers] BY <2>1
  <2>4. Len(u[n]) = n BY <1>1, <2>3
  <2>5. ASSUME NEW i \in 2..n, i \div 2 >= lo
        PROVE  next[u[n][i \div 2]] <= next[u[n][i]]
    <3>1. i <= n BY <1>1
    <3>. QED BY <2>1, <2>5, <3>1
  <2>6. Ordered(u[n], next, lo)
    <3>. HIDE DEF n, Good, Bad, M, f
    <3>. QED BY <2>4, <2>5 DEF Ordered
  <2>. HIDE DEF Good, Bad, M, f
  <2>. QED BY <2>2, <2>6
<1>10. CASE ~(n >= lo)
  <2>1. n = 1 BY <1>1, <1>10
  <2>2. Rearranged(Heap!ShiftUp(h, next, Len(h), node),
                   [h EXCEPT ![Len(h)] = node], Len(h))
    <3>1. Len(h) \in DOMAIN h OBVIOUS
    <3>. HIDE DEF Good, Bad, M, f, n
    <3>. QED BY <3>1, UpRearranges
  <2>3. Len(Heap!ShiftUp(h, next, n, node)) = 1 BY <2>1, <2>2 DEF Rearranged
  <2>. QED BY <2>3 DEF Ordered
<1>. QED BY <1>9, <1>10

\* Child gives the earlier one of the children.
LEMMA ChildLeast ==
    ASSUME NEW h \in Seq(Timers), NEW next \in [Timers -> Nat], dead = {},
           NEW i \in 2 .. Len(h)
    PROVE  LET c == Heap!Child(h, next, i \div 2) IN
           /\ c \in 1 .. Len(h) /\ c \div 2 = i \div 2
           /\ next[h[c]] <= next[h[i]]
<1>. DEFINE p == i \div 2
            c == Heap!Child(h, next, p)
            n == Len(h)
<1>1. n \in Nat /\ DOMAIN h = 1..n /\ \A k \in 1..n : h[k] \in Timers OBVIOUS
<1>2. p \in Nat /\ 1 <= p /\ i \in {2 * p, 2 * p + 1} /\ i <= n BY <1>1
<1>3. (2 * p) \div 2 = p /\ (2 * p + 1) \div 2 = p BY <1>2
<1>. DEFINE Least == c \in 1..n /\ c \div 2 = p /\ next[h[c]] <= next[h[i]]
<1>4. ASSUME 2 * p = n PROVE Least
  <2>1. c = 2 * p BY <1>2, <1>4 DEF Heap!Child
  <2>2. i = 2 * p BY <1>2, <1>4
  <2>3. next[h[i]] \in Nat BY <1>1
  <2>. HIDE DEF c
  <2>. QED BY <1>1, <1>2, <1>3, <2>1, <2>2, <2>3
<1>5. ASSUME 2 * p < n PROVE Least
  <2>1. 2 * p \in 1..n /\ 2 * p + 1 \in 1..n BY <1>1, <1>2, <1>5
  <2>2. next[h[2 * p]] \in Nat /\ next[h[2 * p + 1]] \in Nat BY <1>1, <2>1
  <2>3. c = IF next[h[2 * p]] < next[h[2 * p + 1]] THEN 2 * p ELSE 2 * p + 1
    BY <1>1, <1>2, <1>5 DEF Heap!Child, Heap!Less
  <2>. HIDE DEF c, p
  <2>4. c \in {2 * p, 2 * p + 1} BY <2>3
  <2>5. next[h[c]] <= next[h[2 * p]] /\ next[h[c]] <= next[h[2 * p + 1]]
    BY <2>2, <2>3, SMTT(60)
  <2>. QED BY <1>2, <1>3, <2>1, <2>4, <2>5
<1>6. Least
  <2>1. 2 * p = n \/ 2 * p < n
    <3>. HIDE DEF p, n
    <3>. QED BY <1>1, <1>2
  <2>. HIDE DEF Least
  <2>. QED BY <1>4, <1>5, <2>1
<1>. QED BY <1>6

\* ShiftDown puts an entry in order below the root, whatever it is.
LEMMA DownOrders ==
    ASSUME NEW h \in Seq(Timers), NEW next \in [Timers -> Nat], dead = {},
           NEW node \in Timers, h # <<>>, Ordered(h, next, 2)
    PROVE  Ordered(Heap!ShiftDown(h, next, 1, node), next, 1)
<1>. DEFINE n == Len(h)
            M == DownMoves(h, next, node)
            f == Down(M, h, next)
<1>1. /\ n \in Nat \ {0} /\ DOMAIN h = 1..n /\ h \in [1..n -> Timers]
      /\ \A i \in 1..n : next[h[i]] \in Nat
      /\ next[node] \in Nat
  OBVIOUS
<1>2. /\ M \in SUBSET (1..n) /\ f \in [M -> 1..n]
      /\ \A i \in M : f[i] = Heap!Child(h, next, i) /\ i < f[i]
  BY <1>1, DownIsShift
<1>3. PICK u : /\ ShiftOf(u, M, f, h, node)
               /\ \A i \in DOMAIN h : Heap!ShiftDown(h, next, i, node) = u[i]
  BY DownIsShift
<1>4. ASSUME NEW p \in M
      PROVE  /\ p \in 1..n /\ f[p] \in 2..n /\ p < f[p]
             /\ f[p] \in {2 * p, 2 * p + 1} /\ f[p] \div 2 = p
             /\ next[h[f[p]]] < next[node]
  <2>1. p \in 1..n /\ f[p] \in 1..n /\ f[p] = Heap!Child(h, next, p) /\ p < f[p]
    BY <1>2
  <2>2. f[p] \in {2 * p, 2 * p + 1} BY <1>1, <2>1, ChildAbove
  <2>3. next[h[f[p]]] < next[node] BY <2>1 DEF DownMoves, Heap!Less
  <2>. QED BY <1>1, <2>1, <2>2, <2>3, SMTT(60)
<1>5. ASSUME NEW i \in 2..n, i \div 2 \notin M PROVE next[node] <= next[h[i]]
  <2>. DEFINE c == Heap!Child(h, next, i \div 2)
  <2>1. c \in 1..n /\ next[h[c]] <= next[h[i]] BY ChildLeast
  <2>2. i \div 2 \in 1..n /\ i \in 1..n BY <1>1, HalfBelow
  <2>3. ~(next[h[c]] < next[node]) BY <1>1, <1>5, <2>1, <2>2 DEF DownMoves, Heap!Less
  <2>. HIDE DEF c
  <2>. QED BY <1>1, <2>1, <2>2, <2>3
<1>6. ASSUME NEW i \in 2..n, i \div 2 \in M PROVE next[h[f[i \div 2]]] <= next[h[i]]
  BY <1>2, <1>6, ChildLeast
<1>7. ASSUME NEW i \in 2..n, i \div 2 >= 2 PROVE next[h[i \div 2]] <= next[h[i]]
  BY <1>7 DEF Ordered
\* node has come to p, or the earlier child of p has and is less than node.
<1>. DEFINE Good(p) ==
       LET g == u[p] IN
       /\ g \in [1..n -> Timers]
       /\ \A i \in 1..n : i < 2 * p /\ i # p => g[i] = h[i]
       /\ \A i \in 1..n : i # p => next[h[i]] <= next[g[i]]
       /\ \A i \in 2..n : i \div 2 >= p => next[g[i \div 2]] <= next[g[i]]
       /\ \/ g[p] = node
          \/ p \in M /\ g[p] = h[f[p]]
     Bad == {n - p : p \in {p \in 1..n : ~Good(p)}}
<1>8. ASSUME NEW p \in 1..n, p \notin M PROVE Good(p)
  <2>1. u[p] = [h EXCEPT ![p] = node] BY <1>1, <1>3, <1>8 DEF ShiftOf
  <2>. DEFINE g == u[p]
  <2>2. /\ g \in [1..n -> Timers] /\ g[p] = node
        /\ \A i \in 1..n : i # p => g[i] = h[i]
    BY <1>1, <2>1
  <2>. HIDE DEF g
  <2>3. ASSUME NEW i \in 2..n, i \div 2 >= p
        PROVE  next[g[i \div 2]] <= next[g[i]]
    <3>1. i \in 1..n /\ i \div 2 \in 1..n /\ i \div 2 < i BY <1>1, HalfBelow
    <3>2. i # p /\ g[i] = h[i] BY <2>2, <2>3, <3>1
    <3>3. CASE i \div 2 = p BY <1>5, <1>8, <2>2, <3>2, <3>3
    <3>4. CASE i \div 2 # p
      <4>1. i \div 2 >= 2 BY <2>3, <3>1, <3>4
      <4>2. g[i \div 2] = h[i \div 2] BY <2>2, <3>1, <3>4
      <4>. QED BY <1>7, <3>2, <4>1, <4>2
    <3>. QED BY <3>3, <3>4
  <2>4. \A i \in 1..n : i # p => next[h[i]] <= next[g[i]] BY <1>1, <2>2
  <2>. QED BY <2>2, <2>3, <2>4 DEF g
<1>9. ASSUME NEW p \in M, Good(f[p]) PROVE Good(p)
  <2>. DEFINE c == f[p]
              e == u[c]
              g == u[p]
  <2>1. /\ p \in 1..n /\ c \in 2..n /\ c \in 1..n /\ p < c
        /\ c \in {2 * p, 2 * p + 1} /\ c \div 2 = p
        /\ next[h[c]] < next[node]
    BY <1>1, <1>4
  <2>2. g = [e EXCEPT ![p] = h[c]] BY <1>1, <1>2, <1>3, <2>1 DEF ShiftOf
  <2>3. /\ e \in [1..n -> Timers]
        /\ \A i \in 1..n : i < 2 * c /\ i # c => e[i] = h[i]
        /\ \A i \in 1..n : i # c => next[h[i]] <= next[e[i]]
        /\ \A i \in 2..n : i \div 2 >= c => next[e[i \div 2]] <= next[e[i]]
        /\ e[c] = node \/ (c \in M /\ e[c] = h[f[c]])
    BY <1>9
  <2>4. /\ g \in [1..n -> Timers] /\ g[p] = h[c]
        /\ \A i \in 1..n : i # p => g[i] = e[i]
    BY <1>1, <2>1, <2>2, <2>3, SMTT(60)
  <2>5. \A i \in 2..n : i \div 2 = p => next[h[c]] <= next[h[i]] BY <1>6
  <2>6. g[p] = h[f[p]] BY <2>4
  <2>. HIDE DEF g, e, c
  \* What has come to c is no earlier than what stood there.
  <2>7. next[h[c]] <= next[e[c]]
    <3>1. CASE e[c] = node BY <1>1, <2>1, <3>1
    <3>2. CASE c \in M /\ e[c] = h[f[c]]
      <4>1. f[c] \in 2..n /\ f[c] \div 2 = c BY <1>4, <3>2
      <4>2. c >= 2 BY <1>1, <2>1
      <4>. QED BY <1>7, <3>2, <4>1, <4>2
    <3>. QED BY <2>3, <3>1, <3>2
  <2>8. ASSUME NEW i \in 1..n, i # p PROVE next[h[i]] <= next[g[i]]
    <3>1. g[i] = e[i] BY <2>4, <2>8
    <3>. QED BY <2>3, <2>7, <3>1
  <2>9. ASSUME NEW i \in 2..n, i \div 2 >= p
        PROVE  next[g[i \div 2]] <= next[g[i]]
    <3>1. /\ i \in 1..n /\ i \div 2 \in 1..n /\ i \div 2 < i /\ i # p
          /\ g[i] = e[i] /\ next[h[i]] <= next[g[i]]
      <4>1. i \in 1..n /\ i \div 2 \in 1..n /\ i \div 2 < i BY <1>1, HalfBelow
      <4>2. i # p BY <2>1, <2>9, <4>1
      <4>. QED BY <2>4, <2>8, <4>1, <4>2
    <3>2. /\ next[g[i]] \in Nat /\ next[h[i]] \in Nat /\ next[h[c]] \in Nat
          /\ next[h[i \div 2]] \in Nat
      BY <1>1, <2>1, <2>4, <3>1
    <3>3. CASE i \div 2 = p
      <4>1. next[g[i \div 2]] = next[h[c]] /\ next[h[c]] <= next[h[i]]
        BY <2>4, <2>5, <3>3
      <4>. QED BY <3>1, <3>2, <4>1, SMTT(60)
    <3>4. CASE i \div 2 >= c
      <4>1. i \div 2 # p BY <2>1, <3>1, <3>4
      <4>2. g[i \div 2] = e[i \div 2] BY <2>4, <3>1, <4>1
      <4>. QED BY <2>3, <3>1, <3>4, <4>2
    <3>5. CASE i \div 2 # p /\ i \div 2 < c
      <4>1. i \div 2 >= 2 BY <2>1, <2>9, <3>1, <3>5
      <4>2. i \div 2 < 2 * c /\ i \div 2 # c BY <2>1, <3>1, <3>5
      <4>3. g[i \div 2] = h[i \div 2] BY <2>3, <2>4, <3>1, <3>5, <4>2
      <4>4. next[h[i \div 2]] <= next[h[i]] BY <1>7, <4>1
      <4>. QED BY <3>1, <3>2, <4>3, <4>4, SMTT(60)
    <3>. QED BY <2>1, <3>1, <3>3, <3>4, <3>5
  <2>10. ASSUME NEW i \in 1..n, i < 2 * p, i # p PROVE g[i] = h[i]
    <3>1. i # c /\ i < 2 * c BY <2>1, <2>10
    <3>. QED BY <2>3, <2>4, <2>10, <3>1
  <2>. QED BY <2>4, <2>6, <2>8, <2>9, <2>10 DEF g
<1>10. Bad = {}
  <2>. SUFFICES ASSUME Bad # {} PROVE FALSE
    OBVIOUS
  <2>1. PICK m \in Bad : \A l \in Bad : m <= l
    <3>1. Bad \in SUBSET Nat BY <1>1
    <3>. HIDE DEF Bad
    <3>. QED BY <3>1, Smallest
  <2>2. PICK k \in 1..n : m = n - k /\ ~Good(k) OBVIOUS
  <2>. HIDE DEF Good
  <2>3. k \in M BY <1>8, <2>2
  <2>4. f[k] \in 1..n /\ ~(m <= n - f[k]) BY <1>1, <1>4, <2>2, <2>3
  <2>5. Good(f[k])
    <3>1. n - f[k] \notin Bad
      <4>. HIDE DEF Bad
      <4>. QED BY <2>1, <2>4
    <3>. QED BY <2>4, <3>1
  <2>. QED BY <1>9, <2>2, <2>3, <2>5
<1>11. Good(1) /\ 1 \in 1..n
  <2>1. 1 \in 1..n BY <1>1
  <2>. HIDE DEF Good
  <2>. QED BY <1>10, <2>1
<1>12. Heap!ShiftDown(h, next, 1, node) = u[1] BY <1>1, <1>3, <1>11
<1>13. u[1] \in [1..n -> Timers] BY <1>11
<1>14. Len(u[1]) = n BY <1>1, <1>13
<1>15. \A i \in 2..n : i \div 2 >= 1 => next[u[1][i \div 2]] <= next[u[1][i]]
  BY <1>11
<1>16. Ordered(u[1], next, 1)
  <2>. HIDE DEF n, Good, Bad, M, f
  <2>. QED BY <1>14, <1>15 DEF Ordered
<1>. HIDE DEF Good, Bad, M, f
<1>. QED BY <1>12, <1>16

\* The root of an ordered heap is due first.
LEMMA RootFirst ==
    ASSUME NEW h \in Seq(Timers), NEW next \in [Timers -> Nat],
           Ordered(h, next, 1), NEW i \in DOMAIN h
    PROVE  next[h[1]] <= next[h[i]]
<1>. DEFINE Bad == {k \in DOMAIN h : ~(next[h[1]] <= next[h[k]])}
<1>1. /\ Len(h) \in Nat /\ DOMAIN h = 1 .. Len(h)
      /\ \A k \in DOMAIN h : next[h[k]] \in Nat
  OBVIOUS
<1>. SUFFICES ASSUME Bad # {} PROVE FALSE
  OBVIOUS
<1>2. PICK k \in Bad : \A l \in Bad : k <= l
  <2>1. Bad \in SUBSET Nat BY <1>1
  <2>. HIDE DEF Bad
  <2>. QED BY <2>1, Smallest
<1>3. k \in 1 .. Len(h) /\ ~(next[h[1]] <= next[h[k]]) BY <1>1
<1>4. 1 \in DOMAIN h BY <1>1, <1>3
<1>5. k > 1 BY <1>1, <1>3, <1>4
<1>6. k \div 2 \in DOMAIN h /\ k \div 2 >= 1 /\ ~(k <= k \div 2)
  BY <1>1, <1>3, <1>5, HalfBelow
<1>7. next[h[1]] <= next[h[k \div 2]] BY <1>2, <1>6
<1>8. next[h[k \div 2]] <= next[h[k]] BY <1>1, <1>3, <1>5, <1>6 DEF Ordered
<1>. QED BY <1>1, <1>3, <1>4, <1>6, <1>7, <1>8

\* q holds the entries of h and x, or those of h but for the first.
Pushed(q, h, x) ==
    \E t : Permutes(t, Len(q)) /\ \A i \in DOMAIN q : q[i] = Append(h, x)[t[i]]
Popped(q, h) ==
    \E t \in [DOMAIN q -> 2 .. Len(h)] :
        /\ \A i, j \in DOMAIN q : t[i] = t[j] => i = j
        /\ \A j \in 2 .. Len(h) : \E i \in DOMAIN q : t[i] = j
        /\ \A i \in DOMAIN q : q[i] = h[t[i]]

\* Push adds its entry, Pop takes the first away, and neither touches the rest.
LEMMA PushPlaces ==
    ASSUME NEW S, NEW h \in Seq(S), NEW next, NEW x \in S,
           NEW q, q = Heap!Push(h, next, x)
    PROVE  /\ q \in Seq(S) /\ Len(q) = Len(h) + 1
           /\ Pushed(q, h, x)
           /\ h # <<>> /\ ~Heap!Less(next, x, h[1]) => q[1] = h[1]
<1>. DEFINE a == Append(h, x)
            n == Len(h) + 1
<1>1. a \in Seq(S) /\ Len(a) = n /\ n \in Nat /\ DOMAIN a = 1..n OBVIOUS
<1>2. a[n] = x /\ (h # <<>> => n > 1 /\ a[1] = h[1]) OBVIOUS
<1>3. q = Heap!ShiftUp(a, next, n, x) BY DEF Heap!Push
<1>. HIDE DEF a, n
<1>4. n \in DOMAIN a BY <1>1 DEF n
<1>5. [a EXCEPT ![n] = x] = a BY <1>1, <1>2, <1>4
<1>6. Rearranged(q, a, n) BY <1>1, <1>3, <1>4, <1>5, UpRearranges
<1>7. PICK t : Permutes(t, n) /\ q = [i \in 1..n |-> a[t[i]]] BY <1>6 DEF Rearranged
<1>8. \A i \in 1..n : t[i] \in 1..n BY <1>7 DEF Permutes
<1>9. \A i \in 1..n : a[t[i]] \in S BY <1>1, <1>8
<1>10. q \in Seq(S) /\ Len(q) = n /\ DOMAIN q = 1..n BY <1>1, <1>7, <1>9
<1>11. h # <<>> /\ ~Heap!Less(next, x, h[1]) => q[1] = h[1]
  BY <1>1, <1>2, <1>3, <1>4, UpKeepsRoot
<1>12. \A i \in DOMAIN q : q[i] = a[t[i]] BY <1>7, <1>10
<1>13. Pushed(q, h, x)
  <2>1. Permutes(t, Len(q)) BY <1>7, <1>10
  <2>2. \A i \in DOMAIN q : q[i] = Append(h, x)[t[i]] BY <1>12 DEF a
  <2>. QED BY <2>1, <2>2 DEF Pushed
<1>. QED BY <1>10, <1>11, <1>13 DEF n

LEMMA PopPlaces ==
    ASSUME NEW S, NEW h \in Seq(S), NEW next, h # <<>>,
           NEW q, q = Heap!Pop(h, next)
    PROVE  q \in Seq(S) /\ Len(q) = Len(h) - 1 /\ Popped(q, h)
<1>. DEFINE n == Len(h) - 1
            g == [SubSeq(h, 1, n) EXCEPT ![1] = h[n + 1]]
<1>1. /\ Len(h) \in Nat \ {0} /\ n \in Nat /\ n + 1 = Len(h)
      /\ \A i \in 1 .. n + 1 : h[i] \in S
  OBVIOUS
<1>2. CASE n = 0
  <2>1. q = <<>> BY <1>2 DEF Heap!Pop
  <2>2. DOMAIN q = {} /\ q \in Seq(S) /\ Len(q) = Len(h) - 1 BY <1>2, <2>1
  <2>3. 2 .. Len(h) = {}
    <3>. HIDE DEF n, g
    <3>1. Len(h) = 1 BY <1>1, <1>2
    <3>. QED BY <3>1
  <2>. DEFINE t == [i \in {} |-> 2]
  <2>4. t \in [{} -> {}] OBVIOUS
  <2>. HIDE DEF t
  <2>5. Popped(q, h) BY <2>2, <2>3, <2>4 DEF Popped
  <2>. QED BY <2>2, <2>5
<1>3. CASE n > 0
  <2>1. q = Heap!ShiftDown(g, next, 1, h[n + 1]) BY <1>3 DEF Heap!Pop
  <2>2. PICK b : b = SubSeq(h, 1, n) OBVIOUS
  <2>3. /\ g \in [1..n -> S] /\ g \in Seq(S) /\ Len(g) = n /\ 1 \in DOMAIN g
        /\ g[1] = h[n + 1]
        /\ \A i \in 2..n : g[i] = h[i]
    <3>1. b \in Seq(S) /\ Len(b) = n /\ \A i \in 1..n : b[i] = h[i]
      <4>1. n <= Len(h) BY <1>1
      <4>. HIDE DEF n
      <4>2. Len(b) = n BY <1>1, <1>3, <2>2, <4>1, SubSeqProperties
      <4>3. b \in Seq(S) BY <1>1, <1>3, <2>2, <4>1, SubSeqProperties
      <4>. QED BY <1>1, <1>3, <2>2, <4>1, <4>2, <4>3, SubSeqProperties
    <3>2. g = [b EXCEPT ![1] = h[n + 1]] BY <2>2
    <3>. HIDE DEF g, n
    <3>3. DOMAIN b = 1..n /\ 1 \in 1..n /\ h[n + 1] \in S BY <1>1, <1>3, <3>1
    <3>4. g \in Seq(S) /\ DOMAIN g = 1..n BY <3>1, <3>2, <3>3
    <3>5. g[1] = h[n + 1] /\ \A i \in 2..n : g[i] = h[i] BY <3>1, <3>2, <3>3
    <3>6. Len(g) = n BY <1>1, <3>4
    <3>7. g \in [1..n -> S] BY <3>4, <3>6
    <3>. QED BY <3>3, <3>4, <3>5, <3>6, <3>7
  <2>. HIDE DEF g, n
  <2>4. [g EXCEPT ![1] = h[n + 1]] = g BY <2>3
  <2>5. Rearranged(q, g, n) BY <1>1, <2>1, <2>3, <2>4, DownRearranges
  <2>6. PICK p : Permutes(p, n) /\ q = [i \in 1..n |-> g[p[i]]] BY <2>5 DEF Rearranged
  <2>. DEFINE t == [i \in 1..n |-> IF p[i] = 1 THEN n + 1 ELSE p[i]]
  <2>7. /\ \A i \in 1..n : p[i] \in 1..n
        /\ \A i, j \in 1..n : p[i] = p[j] => i = j
        /\ \A j \in 1..n : \E i \in 1..n : p[i] = j
    BY <2>6 DEF Permutes
  <2>8. \A i \in 1..n : g[p[i]] \in S BY <2>3, <2>7
  <2>9. q \in Seq(S) /\ Len(q) = n /\ DOMAIN q = 1..n BY <1>1, <2>6, <2>8
  <2>10. t \in [1..n -> 2 .. n + 1]
    <3>1. \A i \in 1..n : (IF p[i] = 1 THEN n + 1 ELSE p[i]) \in 2 .. n + 1
      <4>. SUFFICES ASSUME NEW i \in 1..n
                    PROVE  (IF p[i] = 1 THEN n + 1 ELSE p[i]) \in 2 .. n + 1
        OBVIOUS
      <4>1. p[i] \in 1..n BY <2>7
      <4>. QED BY <1>1, <1>3, <4>1
    <3>. QED BY <3>1
  <2>11. ASSUME NEW i \in 1..n, NEW j \in 1..n, t[i] = t[j] PROVE i = j
    <3>1. p[i] \in 1..n /\ p[j] \in 1..n BY <2>7
    <3>2. p[i] = p[j] BY <1>1, <2>11, <3>1
    <3>. QED BY <2>7, <3>2
  <2>12. ASSUME NEW j \in 2 .. n + 1 PROVE \E i \in 1..n : t[i] = j
    <3>1. CASE j = n + 1
      <4>1. PICK i \in 1..n : p[i] = 1 BY <1>1, <1>3, <2>7
      <4>. QED BY <3>1, <4>1
    <3>2. CASE j # n + 1
      <4>1. PICK i \in 1..n : p[i] = j BY <1>1, <2>7, <3>2
      <4>2. p[i] # 1 BY <4>1
      <4>. QED BY <4>1, <4>2
    <3>. QED BY <3>1, <3>2
  <2>13. ASSUME NEW i \in 1..n PROVE q[i] = h[t[i]]
    <3>1. q[i] = g[p[i]] /\ p[i] \in 1..n BY <2>6, <2>7
    <3>2. CASE p[i] = 1 BY <2>3, <3>1, <3>2
    <3>3. CASE p[i] # 1
      <4>1. p[i] \in 2..n BY <1>1, <3>1, <3>3
      <4>. QED BY <2>3, <3>1, <3>3, <4>1
    <3>. QED BY <3>2, <3>3
  <2>. HIDE DEF t
  <2>14. t \in [DOMAIN q -> 2 .. Len(h)] BY <1>1, <2>9, <2>10
  <2>15. Len(q) = Len(h) - 1 BY <2>9 DEF n
  <2>16. \A j \in 2 .. Len(h) : \E i \in DOMAIN q : t[i] = j BY <1>1, <2>9, <2>12
  <2>17. \A i, j \in DOMAIN q : t[i] = t[j] => i = j BY <2>9, <2>11
  <2>18. \A i \in DOMAIN q : q[i] = h[t[i]] BY <2>9, <2>13
  <2>19. Popped(q, h) BY <2>14, <2>16, <2>17, <2>18 DEF Popped
  <2>. QED BY <2>9, <2>15, <2>19
<1>. HIDE DEF n, g
<1>. QED BY <1>1, <1>2, <1>3

LEMMA PushNew ==
    ASSUME NEW S, NEW h \in Seq(S), NEW next, NEW x \in S,
           Distinct(h), ~In(h, x), NEW q, q = Heap!Push(h, next, x)
    PROVE  q \in Seq(S) /\ Distinct(q) /\ \A y : In(q, y) <=> y = x \/ In(h, y)
<1>. DEFINE a == Append(h, x)
<1>1. q \in Seq(S) /\ Len(q) = Len(h) + 1 /\ Pushed(q, h, x) BY PushPlaces
<1>2. DOMAIN q = 1 .. Len(q) /\ DOMAIN a = DOMAIN q BY <1>1
<1>3. PICK t : Permutes(t, Len(q)) /\ \A i \in DOMAIN q : q[i] = a[t[i]]
  BY <1>1 DEF Pushed
<1>4. Distinct(a) /\ \A y : In(a, y) <=> y = x \/ In(h, y) BY AppendPlaces
<1>. HIDE DEF a
<1>5. /\ \A i \in DOMAIN q : t[i] \in DOMAIN q
      /\ \A i, j \in DOMAIN q : t[i] = t[j] => i = j
      /\ \A j \in DOMAIN q : \E i \in DOMAIN q : t[i] = j
  BY <1>2, <1>3 DEF Permutes
<1>6. Distinct(q)
  <2>. SUFFICES ASSUME NEW i \in DOMAIN q, NEW j \in DOMAIN q, q[i] = q[j]
                PROVE  i = j
    BY DEF Distinct
  <2>1. t[i] \in DOMAIN a /\ t[j] \in DOMAIN a /\ a[t[i]] = a[t[j]]
    BY <1>2, <1>3, <1>5
  <2>2. t[i] = t[j] BY <1>4, <2>1 DEF Distinct
  <2>. QED BY <1>5, <2>2
<1>7. ASSUME NEW y, In(q, y) PROVE In(a, y) BY <1>2, <1>3, <1>5, <1>7 DEF In
<1>8. ASSUME NEW y, In(a, y) PROVE In(q, y)
  <2>1. PICK j \in DOMAIN q : a[j] = y BY <1>2, <1>8 DEF In
  <2>2. PICK i \in DOMAIN q : t[i] = j BY <1>5
  <2>. QED BY <1>3, <2>1, <2>2 DEF In
<1>. QED BY <1>1, <1>4, <1>6, <1>7, <1>8

LEMMA PopFront ==
    ASSUME NEW S, NEW h \in Seq(S), NEW next, h # <<>>, Distinct(h),
           NEW q, q = Heap!Pop(h, next)
    PROVE  q \in Seq(S) /\ Distinct(q) /\ \A y : In(q, y) <=> y # h[1] /\ In(h, y)
<1>1. q \in Seq(S) /\ Popped(q, h) BY PopPlaces
<1>2. DOMAIN h = 1 .. Len(h) /\ 1 \in DOMAIN h /\ Len(h) \in Nat OBVIOUS
<1>3. PICK t \in [DOMAIN q -> 2 .. Len(h)] :
          /\ \A i, j \in DOMAIN q : t[i] = t[j] => i = j
          /\ \A j \in 2 .. Len(h) : \E i \in DOMAIN q : t[i] = j
          /\ \A i \in DOMAIN q : q[i] = h[t[i]]
  BY <1>1 DEF Popped
<1>4. \A i \in DOMAIN q : t[i] \in DOMAIN h /\ t[i] # 1 BY <1>2, <1>3
<1>5. Distinct(q) BY <1>3, <1>4 DEF Distinct
<1>6. ASSUME NEW y, In(q, y) PROVE y # h[1] /\ In(h, y)
  BY <1>2, <1>3, <1>4, <1>6 DEF In, Distinct
<1>7. ASSUME NEW y, y # h[1], In(h, y) PROVE In(q, y)
  <2>1. PICK j \in DOMAIN h : h[j] = y BY <1>7 DEF In
  <2>2. j \in 2 .. Len(h) BY <1>2, <1>7, <2>1
  <2>. QED BY <1>3, <2>1, <2>2 DEF In
<1>. QED BY <1>1, <1>5, <1>6, <1>7

\* The root pushed again and popped: one of the two entries is left.
LEMMA RepushRoot ==
    ASSUME NEW S, NEW h \in Seq(S), NEW next, h # <<>>, Distinct(h),
           next[h[1]] \in Nat,
           NEW g, g = Heap!Push(h, next, h[1]), NEW q, q = Heap!Pop(g, next)
    PROVE  q \in Seq(S) /\ Distinct(q) /\ \A y : In(q, y) <=> In(h, y)
<1>. DEFINE n == Len(h)
            a == Append(h, h[1])
<1>1. n \in Nat \ {0} /\ DOMAIN h = 1..n /\ 1 \in DOMAIN h /\ h[1] \in S OBVIOUS
<1>2. a[n + 1] = h[1] /\ \A i \in 1..n : a[i] = h[i] OBVIOUS
<1>3. g = Heap!Push(h, next, h[1]) /\ q = Heap!Pop(g, next) OBVIOUS
<1>4. g \in Seq(S) /\ Len(g) = n + 1 /\ g[1] = h[1] /\ Pushed(g, h, h[1])
  <2>1. ~Heap!Less(next, h[1], h[1]) BY DEF Heap!Less
  <2>. QED BY <1>1, <1>3, <2>1, PushPlaces
<1>5. g # <<>> /\ DOMAIN g = 1 .. n + 1 BY <1>1, <1>4
<1>6. q \in Seq(S) /\ Popped(q, g) BY <1>3, <1>4, <1>5, PopPlaces
<1>. HIDE DEF n, a
<1>7. PICK t : Permutes(t, n + 1) /\ \A i \in 1 .. n + 1 : g[i] = a[t[i]]
  BY <1>4, <1>5 DEF Pushed, a
<1>8. /\ \A i \in 1 .. n + 1 : t[i] \in 1 .. n + 1
      /\ \A i, j \in 1 .. n + 1 : t[i] = t[j] => i = j
      /\ \A j \in 1 .. n + 1 : \E i \in 1 .. n + 1 : t[i] = j
  BY <1>7 DEF Permutes
<1>9. PICK s \in [DOMAIN q -> 2 .. Len(g)] :
          /\ \A i, j \in DOMAIN q : s[i] = s[j] => i = j
          /\ \A j \in 2 .. Len(g) : \E i \in DOMAIN q : s[i] = j
          /\ \A i \in DOMAIN q : q[i] = g[s[i]]
  BY <1>6 DEF Popped
<1>10. 1 \in 1 .. n + 1 /\ n + 1 \in 1 .. n + 1 /\ n + 1 # 1 /\ n + 1 \notin 1..n
  BY <1>1
\* The root of g is the entry of h[1] at 1 or the one at n + 1.
<1>11. t[1] \in {1, n + 1}
  <2>1. t[1] \in 1 .. n + 1 /\ a[t[1]] = h[1] BY <1>4, <1>7, <1>8, <1>10
  <2>2. CASE t[1] \in 1..n BY <1>1, <1>2, <2>1, <2>2 DEF Distinct
  <2>. QED BY <1>1, <2>1, <2>2
<1>12. ASSUME NEW i \in DOMAIN q
       PROVE  /\ s[i] \in 1 .. n + 1 /\ t[s[i]] \in 1 .. n + 1 /\ t[s[i]] # t[1]
              /\ q[i] = a[t[s[i]]]
  <2>1. s[i] \in 2 .. Len(g) BY <1>9
  <2>2. s[i] \in 1 .. n + 1 /\ s[i] # 1 BY <1>1, <1>4, <2>1
  <2>3. q[i] = a[t[s[i]]] BY <1>7, <1>9, <2>2
  <2>. QED BY <1>8, <1>10, <2>2, <2>3
\* Where the entry at i stood in h.
<1>. DEFINE w(i) == IF t[s[i]] = n + 1 THEN 1 ELSE t[s[i]]
<1>13. ASSUME NEW i \in DOMAIN q PROVE w(i) \in 1..n /\ q[i] = h[w(i)]
  <2>1. t[s[i]] \in 1 .. n + 1 /\ q[i] = a[t[s[i]]] BY <1>12
  <2>2. CASE t[s[i]] = n + 1 BY <1>1, <1>2, <2>1, <2>2
  <2>3. CASE t[s[i]] # n + 1
    <3>1. t[s[i]] \in 1..n BY <1>1, <2>1, <2>3
    <3>. QED BY <1>2, <2>1, <2>3, <3>1
  <2>. QED BY <2>2, <2>3
<1>14. ASSUME NEW i \in DOMAIN q, NEW j \in DOMAIN q, w(i) = w(j) PROVE i = j
  <2>1. t[s[i]] # t[1] /\ t[s[j]] # t[1] BY <1>12
  <2>2. t[s[i]] = t[s[j]] BY <1>11, <1>14, <2>1
  <2>3. s[i] = s[j] BY <1>8, <1>12, <2>2
  <2>. QED BY <1>9, <2>3
<1>15. ASSUME NEW k \in 1..n PROVE \E i \in DOMAIN q : w(i) = k
  <2>. DEFINE j == IF k = t[1] THEN n + 1 ELSE k
  <2>1. j \in 1 .. n + 1 /\ j # t[1] /\ (IF j = n + 1 THEN 1 ELSE j) = k
    <3>1. k \in 1 .. n + 1 /\ k # n + 1 BY <1>1
    <3>. QED BY <1>10, <1>11, <3>1
  <2>. HIDE DEF j
  <2>2. PICK l \in 1 .. n + 1 : t[l] = j BY <1>8, <2>1
  <2>3. l \in 2 .. Len(g) BY <1>1, <1>4, <2>1, <2>2
  <2>4. PICK i \in DOMAIN q : s[i] = l BY <1>9, <2>3
  <2>. QED BY <2>1, <2>2, <2>4
<1>. HIDE DEF w
<1>16. Distinct(q) BY <1>1, <1>13, <1>14 DEF Distinct
<1>17. ASSUME NEW y, In(q, y) PROVE In(h, y) BY <1>1, <1>13, <1>17 DEF In
<1>18. ASSUME NEW y, In(h, y) PROVE In(q, y)
  <2>1. PICK k \in 1..n : h[k] = y BY <1>1, <1>18 DEF In
  <2>2. PICK i \in DOMAIN q : w(i) = k BY <1>15
  <2>. QED BY <1>13, <2>1, <2>2 DEF In
<1>. QED BY <1>6, <1>16, <1>17, <1>18

\* Push and Pop keep the heap in order; what Pop needs is the order below the
\* root, which is what is left when the time of the root was changed.
LEMMA PushOrdered ==
    ASSUME NEW h \in Seq(Timers), NEW next \in [Timers -> Nat], dead = {},
           NEW x \in Timers, NEW lo \in {1, 2}, Ordered(h, next, lo),
           lo = 2 => h # <<>> /\ next[h[1]] <= next[x],
           NEW q, q = Heap!Push(h, next, x)
    PROVE  Ordered(q, next, lo)
<1>. DEFINE a == Append(h, x)
            n == Len(a)
<1>1. /\ a \in Seq(Timers) /\ n = Len(h) + 1 /\ Len(h) \in Nat /\ a # <<>>
      /\ \A i \in 1 .. Len(h) : a[i] = h[i]
  OBVIOUS
<1>2. q = Heap!ShiftUp(a, next, n, x) BY <1>1 DEF Heap!Push
<1>3. lo = 2 => next[a[1]] <= next[x] OBVIOUS
<1>. HIDE DEF a
<1>4. ASSUME NEW i \in 2 .. n - 1, i \div 2 >= lo
      PROVE  next[a[i \div 2]] <= next[a[i]]
  <2>1. i \in 1 .. Len(h) /\ i \in 2 .. Len(h) BY <1>1
  <2>2. i \div 2 \in 1 .. Len(h) BY <1>1, <2>1, HalfBelow
  <2>3. next[h[i \div 2]] <= next[h[i]] BY <1>4, <2>1 DEF Ordered
  <2>. QED BY <1>1, <2>1, <2>2, <2>3
<1>. QED BY <1>1, <1>2, <1>3, <1>4, UpOrders

LEMMA PopOrdered ==
    ASSUME NEW h \in Seq(Timers), NEW next \in [Timers -> Nat], dead = {},
           h # <<>>, Ordered(h, next, 2), NEW q, q = Heap!Pop(h, next)
    PROVE  Ordered(q, next, 1)
<1>. DEFINE n == Len(h) - 1
            g == [SubSeq(h, 1, n) EXCEPT ![1] = h[n + 1]]
<1>1. /\ Len(h) \in Nat \ {0} /\ n \in Nat /\ n + 1 = Len(h)
      /\ \A i \in 1 .. n + 1 : h[i] \in Timers
  OBVIOUS
<1>2. CASE n = 0
  <2>1. q = <<>> BY <1>2 DEF Heap!Pop
  <2>2. Len(q) = 0 BY <2>1
  <2>. QED BY <2>2 DEF Ordered
<1>3. CASE n > 0
  <2>1. q = Heap!ShiftDown(g, next, 1, h[n + 1]) BY <1>3 DEF Heap!Pop
  <2>2. PICK b : b = SubSeq(h, 1, n) OBVIOUS
  <2>3. g \in Seq(Timers) /\ Len(g) = n /\ g # <<>> /\ \A i \in 2..n : g[i] = h[i]
    <3>1. b \in Seq(Timers) /\ Len(b) = n /\ \A i \in 1..n : b[i] = h[i]
      <4>1. n <= Len(h) BY <1>1
      <4>. HIDE DEF n
      <4>2. Len(b) = n BY <1>1, <1>3, <2>2, <4>1, SubSeqProperties
      <4>3. b \in Seq(Timers) BY <1>1, <1>3, <2>2, <4>1, SubSeqProperties
      <4>. QED BY <1>1, <1>3, <2>2, <4>1, <4>2, <4>3, SubSeqProperties
    <3>2. g = [b EXCEPT ![1] = h[n + 1]] BY <2>2
    <3>. HIDE DEF g, n
    <3>3. DOMAIN b = 1..n /\ 1 \in 1..n /\ h[n + 1] \in Timers BY <1>1, <1>3, <3>1
    <3>4. g \in Seq(Timers) /\ DOMAIN g = 1..n BY <3>1, <3>2, <3>3
    <3>5. \A i \in 2..n : g[i] = h[i] BY <3>1, <3>2, <3>3, SMTT(60)
    <3>6. Len(g) = n BY <1>1, <3>4
    <3>7. g # <<>> BY <1>3, <3>6
    <3>. QED BY <3>4, <3>5, <3>6, <3>7
  <2>. HIDE DEF g, n
  <2>4. Ordered(g, next, 2)
    <3>. SUFFICES ASSUME NEW i \in 2 .. Len(g), i \div 2 >= 2
                  PROVE  next[g[i \div 2]] <= next[g[i]]
      BY DEF Ordered
    <3>1. i \in 2..n /\ i \div 2 \in 2..n /\ i \in 2 .. Len(h)
      BY <1>1, <2>3, HalfBelow
    <3>2. next[h[i \div 2]] <= next[h[i]] BY <3>1 DEF Ordered
    <3>. QED BY <2>3, <3>1, <3>2
  <2>5. h[n + 1] \in Timers BY <1>1
  <2>. QED BY <2>1, <2>3, <2>4, <2>5, DownOrders
<1>. QED BY <1>1, <1>2, <1>3

\* Rearm: the time of the root goes up, it is pushed again and popped.
LEMMA RepushOrdered ==
    ASSUME NEW h \in Seq(Timers), NEW next \in [Timers -> Nat], dead = {},
           h # <<>>, Distinct(h), Ordered(h, next, 1),
           NEW v \in Nat, NEW next2, next2 = [next EXCEPT ![h[1]] = v],
           NEW q, q = Heap!Pop(Heap!Push(h, next2, h[1]), next2)
    PROVE  Ordered(q, next2, 1)
<1>1. /\ Len(h) \in Nat \ {0} /\ DOMAIN h = 1 .. Len(h) /\ h[1] \in Timers
      /\ \A i \in 1 .. Len(h) : h[i] \in Timers
  OBVIOUS
<1>2. next2 \in [Timers -> Nat] /\ \A t \in Timers \ {h[1]} : next2[t] = next[t]
  BY <1>1
<1>3. Ordered(h, next2, 2)
  <2>. SUFFICES ASSUME NEW i \in 2 .. Len(h), i \div 2 >= 2
                PROVE  next2[h[i \div 2]] <= next2[h[i]]
    BY DEF Ordered
  <2>1. /\ i \in 1 .. Len(h) /\ i \div 2 \in 1 .. Len(h) /\ i # 1 /\ i \div 2 # 1
        /\ 1 \in 1 .. Len(h) /\ i \div 2 >= 1
    BY <1>1, HalfBelow
  <2>2. next[h[i \div 2]] <= next[h[i]] BY <2>1 DEF Ordered
  <2>3. h[i] # h[1] /\ h[i \div 2] # h[1] BY <1>1, <2>1 DEF Distinct
  <2>. QED BY <1>1, <1>2, <2>1, <2>2, <2>3
<1>4. PICK g : g = Heap!Push(h, next2, h[1]) OBVIOUS
<1>5. next2[h[1]] \in Nat BY <1>1, <1>2
<1>6. next2[h[1]] <= next2[h[1]] BY <1>5
<1>7. Ordered(g, next2, 2) BY <1>1, <1>2, <1>3, <1>4, <1>6, PushOrdered, ZenonT(60)
<1>8. g \in Seq(Timers) /\ Len(g) = Len(h) + 1 BY <1>1, <1>4, PushPlaces
<1>9. g # <<>> BY <1>1, <1>8
<1>. QED BY <1>2, <1>4, <1>7, <1>8, <1>9, PopOrdered

----------------------------------------------------------------------------
(* The heap of one centre.                                                 *)

\* No entry stands twice, and no timer dies or runs out of its entry while it
\* is in m_timerMap.
EntryInv ==
    /\ Heap!TypeOK
    /\ Distinct(heap)
    /\ dead \cap timerMap = {}
    /\ \A t \in timerMap \ spent : In(heap, t)

\* The heap is in order until a timer dies; none comes back to life.
OrderInv == dead = {} => Ordered(heap, nextTime, 1)

HeapInv == EntryInv /\ OrderInv

LEMMA HeapInit == Heap!Init => HeapInv
<1>. SUFFICES ASSUME Heap!Init PROVE HeapInv
  OBVIOUS
<1>1. Heap!TypeOK BY HeapAssumption DEF Heap!HeapConstants, Heap!Init, Heap!TypeOK
<1>2. heap = <<>> /\ timerMap = {} BY DEF Heap!Init
<1>3. EntryInv BY <1>1, <1>2 DEF EntryInv, Distinct
<1>4. OrderInv
  <2>1. Len(heap) = 0 BY <1>2
  <2>. QED BY <2>1 DEF OrderInv, Ordered
<1>. QED BY <1>3, <1>4 DEF HeapInv

LEMMA AddStep ==
    ASSUME HeapInv, NEW t \in Timers, Heap!AddTimer(t)
    PROVE  HeapInv'
<1>. USE DEF HeapInv
<1>1. /\ Heap!TypeOK /\ Distinct(heap) /\ heap \in Seq(Timers)
      /\ nextTime \in [Timers -> Nat] /\ now \in Nat
  BY HeapAssumption DEF EntryInv, Heap!TypeOK, Heap!HeapConstants
<1>2. ~In(heap, t) /\ t \notin timerMap \cup dead \cup spent
  BY DEF Heap!AddTimer, In
<1>3. /\ nextTime' = [nextTime EXCEPT ![t] = now + Timeout[t]]
      /\ now + Timeout[t] \in Nat
  BY <1>1, HeapAssumption DEF Heap!AddTimer, Heap!Start, Heap!HeapConstants
<1>4. nextTime' \in [Timers -> Nat] /\ \A s \in Timers \ {t} : nextTime'[s] = nextTime[s]
  BY <1>1, <1>3
<1>5. heap' = Heap!Push(heap, nextTime', t) BY DEF Heap!AddTimer
<1>6. /\ heap' \in Seq(Timers) /\ Distinct(heap')
      /\ \A s : In(heap', s) <=> s = t \/ In(heap, s)
  BY <1>1, <1>2, <1>5, PushNew
<1>7. Heap!TypeOK'
  BY <1>1, <1>4, <1>6 DEF Heap!TypeOK, Heap!AddTimer, Heap!clockVars
<1>8. EntryInv'
  BY <1>2, <1>6, <1>7 DEF EntryInv, Heap!AddTimer
<1>9. ASSUME dead' = {} PROVE Ordered(heap', nextTime', 1)
  <2>1. dead = {} /\ Ordered(heap, nextTime, 1)
    BY <1>9 DEF OrderInv, Heap!AddTimer
  <2>2. /\ Len(heap) \in Nat /\ DOMAIN heap = 1 .. Len(heap)
        /\ \A i \in DOMAIN heap : heap[i] \in Timers \ {t}
    BY <1>1, <1>2 DEF In
  <2>3. Ordered(heap, nextTime', 1)
    <3>. SUFFICES ASSUME NEW i \in 2 .. Len(heap), i \div 2 >= 1
                  PROVE  nextTime'[heap[i \div 2]] <= nextTime'[heap[i]]
      BY DEF Ordered
    <3>1. i \in DOMAIN heap /\ i \div 2 \in DOMAIN heap BY <2>2, HalfBelow
    <3>2. nextTime[heap[i \div 2]] <= nextTime[heap[i]] BY <2>1 DEF Ordered
    <3>. QED BY <1>4, <2>2, <3>1, <3>2
  <2>. QED BY <1>1, <1>4, <1>5, <2>1, <2>3, PushOrdered
<1>. QED BY <1>8, <1>9 DEF OrderInv

LEMMA DelStep ==
    ASSUME HeapInv, NEW t \in Timers, Heap!DelTimer(t)
    PROVE  HeapInv'
<1>1. /\ heap' = heap /\ spent' = spent /\ nextTime' = nextTime
      /\ timerMap' = timerMap \ {t} /\ dead \subseteq dead' /\ dead' \subseteq dead \cup {t}
  BY DEF Heap!DelTimer
<1>2. Heap!TypeOK'
  BY DEF HeapInv, EntryInv, Heap!TypeOK, Heap!DelTimer, Heap!clockVars
<1>3. EntryInv' BY <1>1, <1>2 DEF HeapInv, EntryInv
<1>4. OrderInv' BY <1>1 DEF HeapInv, OrderInv
<1>. QED BY <1>3, <1>4 DEF HeapInv

LEMMA PopDeadStep ==
    ASSUME HeapInv, Heap!PopDead
    PROVE  HeapInv'
<1>1. heap \in Seq(Timers) /\ Distinct(heap) /\ heap # <<>> /\ heap[1] \in dead
  BY DEF HeapInv, EntryInv, Heap!TypeOK, Heap!PopDead, Heap!InLaunch
<1>2. heap' = Heap!Pop(heap, nextTime) BY DEF Heap!PopDead
<1>3. /\ heap' \in Seq(Timers) /\ Distinct(heap')
      /\ \A s : In(heap', s) <=> s # heap[1] /\ In(heap, s)
  BY <1>1, <1>2, PopFront
<1>4. Heap!TypeOK'
  BY <1>3 DEF HeapInv, EntryInv, Heap!TypeOK, Heap!PopDead, Heap!clockVars
<1>5. EntryInv' BY <1>1, <1>3, <1>4 DEF HeapInv, EntryInv, Heap!PopDead
<1>6. OrderInv' BY <1>1 DEF OrderInv, Heap!PopDead
<1>. QED BY <1>5, <1>6 DEF HeapInv

LEMMA FireLoopStep ==
    ASSUME HeapInv, NEW t \in Timers, Heap!FireLoop(t)
    PROVE  HeapInv'
<1>1. /\ heap \in Seq(Timers) /\ Distinct(heap) /\ heap # <<>> /\ t = heap[1]
      /\ nextTime \in [Timers -> Nat] /\ now \in Nat
  BY HeapAssumption DEF HeapInv, EntryInv, Heap!TypeOK, Heap!FireLoop,
       Heap!InLaunch, Heap!HeapConstants
<1>. DEFINE v == now + Timeout[t]
<1>2. v \in Nat BY <1>1, HeapAssumption DEF Heap!HeapConstants
<1>3. /\ nextTime' = [nextTime EXCEPT ![t] = v]
      /\ heap' = Heap!Pop(Heap!Push(heap, nextTime', t), nextTime')
  BY DEF Heap!FireLoop, Heap!Rearm
<1>. HIDE DEF v
<1>4. nextTime' \in [Timers -> Nat] BY <1>1, <1>2, <1>3
<1>5. /\ heap' \in Seq(Timers) /\ Distinct(heap')
      /\ \A s : In(heap', s) <=> In(heap, s)
  <2>1. nextTime'[t] \in Nat BY <1>4
  <2>2. nextTime'[heap[1]] \in Nat BY <1>1, <2>1
  <2>3. PICK g : g = Heap!Push(heap, nextTime', heap[1]) OBVIOUS
  <2>4. heap' = Heap!Pop(g, nextTime') BY <1>1, <1>3, <2>3
  <2>. QED BY <1>1, <2>2, <2>3, <2>4, RepushRoot
<1>6. fired \in Seq(Timers) /\ fired' \in Seq(Timers)
  BY DEF HeapInv, EntryInv, Heap!TypeOK, Heap!FireLoop
<1>7. Heap!TypeOK'
  BY <1>4, <1>5, <1>6
  DEF HeapInv, EntryInv, Heap!TypeOK, Heap!FireLoop, Heap!clockVars
<1>8. EntryInv' BY <1>5, <1>7 DEF HeapInv, EntryInv, Heap!FireLoop
<1>9. ASSUME dead' = {} PROVE Ordered(heap', nextTime', 1)
  <2>1. dead = {} /\ Ordered(heap, nextTime, 1)
    BY <1>9 DEF HeapInv, OrderInv, Heap!FireLoop
  <2>. QED BY <1>1, <1>2, <1>3, <2>1, RepushOrdered
<1>. QED BY <1>8, <1>9 DEF HeapInv, OrderInv

LEMMA FireOnceStep ==
    ASSUME HeapInv, NEW t \in Timers, Heap!FireOnce(t)
    PROVE  HeapInv'
<1>1. /\ heap \in Seq(Timers) /\ Distinct(heap) /\ heap # <<>> /\ t = heap[1]
      /\ nextTime \in [Timers -> Nat]
  BY DEF HeapInv, EntryInv, Heap!TypeOK, Heap!FireOnce, Heap!InLaunch
<1>2. /\ heap' = Heap!Pop(heap, nextTime) /\ nextTime' = nextTime
      /\ spent' = spent \cup {t}
      /\ dead \subseteq dead' /\ timerMap' \subseteq timerMap
      /\ \A s \in dead' : s \in dead \/ (s = t /\ s \notin timerMap')
  BY DEF Heap!FireOnce
<1>3. /\ heap' \in Seq(Timers) /\ Distinct(heap')
      /\ \A s : In(heap', s) <=> s # heap[1] /\ In(heap, s)
  BY <1>1, <1>2, PopFront
<1>4. fired' \in Seq(Timers)
  <2>1. fired \in Seq(Timers) BY DEF HeapInv, EntryInv, Heap!TypeOK
  <2>2. fired' = fired \/ fired' = Append(fired, t) BY DEF Heap!FireOnce
  <2>. QED BY <2>1, <2>2
<1>5. Heap!TypeOK'
  BY <1>3, <1>4 DEF HeapInv, EntryInv, Heap!TypeOK, Heap!FireOnce, Heap!clockVars
<1>6. EntryInv' BY <1>1, <1>2, <1>3, <1>5 DEF HeapInv, EntryInv
<1>7. ASSUME dead' = {} PROVE Ordered(heap', nextTime', 1)
  <2>1. dead = {} BY <1>2, <1>7
  <2>2. Ordered(heap, nextTime, 2)
    <3>1. Ordered(heap, nextTime, 1) BY <2>1 DEF HeapInv, OrderInv
    <3>2. Len(heap) \in Nat BY <1>1
    <3>. QED BY <3>1, <3>2 DEF Ordered
  <2>. QED BY <1>1, <1>2, <2>1, <2>2, PopOrdered
<1>. QED BY <1>6, <1>7 DEF HeapInv, OrderInv

LEMMA HeapStep ==
    ASSUME HeapInv, [Heap!Next]_Heap!vars
    PROVE  HeapInv'
<1>. DEFINE kept == <<heap, timerMap, dead, nextTime, spent>>
<1>1. ASSUME UNCHANGED kept, Heap!TypeOK' PROVE HeapInv'
  BY <1>1 DEF HeapInv, EntryInv, OrderInv, Ordered, Distinct, In
<1>2. ASSUME NEW t \in Timers, Heap!Suspend(t) \/ Heap!Resume(t) PROVE HeapInv'
  <2>1. UNCHANGED kept BY <1>2 DEF Heap!Suspend, Heap!Resume
  <2>2. Heap!TypeOK'
    BY <1>2 DEF HeapInv, EntryInv, Heap!TypeOK, Heap!Suspend, Heap!Resume,
         Heap!clockVars
  <2>. QED BY <1>1, <2>1, <2>2
<1>3. ASSUME Heap!Tick PROVE HeapInv'
  <2>1. UNCHANGED kept BY <1>3 DEF Heap!Tick
  <2>2. now' \in 0..MaxTime /\ last' \in 0..now'
    BY <1>3, HeapAssumption
    DEF HeapInv, EntryInv, Heap!TypeOK, Heap!Tick, Heap!HeapConstants
  <2>3. Heap!TypeOK' BY <1>3, <2>2 DEF HeapInv, EntryInv, Heap!TypeOK, Heap!Tick
  <2>. QED BY <1>1, <2>1, <2>3
<1>4. ASSUME Heap!LaunchBegin \/ Heap!LaunchEnd PROVE HeapInv'
  <2>1. UNCHANGED kept BY <1>4 DEF Heap!LaunchBegin, Heap!LaunchEnd
  <2>2. now \in 0..MaxTime /\ last' \in 0..now
    BY <1>4, HeapAssumption
    DEF HeapInv, EntryInv, Heap!TypeOK, Heap!LaunchBegin, Heap!LaunchEnd,
        Heap!HeapConstants
  <2>3. fired' \in Seq(Timers)
    <3>1. fired \in Seq(Timers) BY DEF HeapInv, EntryInv, Heap!TypeOK
    <3>2. fired' = fired \/ fired' = <<>>
      BY <1>4 DEF Heap!LaunchBegin, Heap!LaunchEnd
    <3>3. <<>> \in Seq(Timers) OBVIOUS
    <3>. QED BY <3>1, <3>2, <3>3
  <2>4. Heap!TypeOK'
    BY <1>4, <2>2, <2>3
    DEF HeapInv, EntryInv, Heap!TypeOK, Heap!LaunchBegin, Heap!LaunchEnd
  <2>. QED BY <1>1, <2>1, <2>4
<1>5. CASE UNCHANGED Heap!vars
  <2>1. UNCHANGED kept BY <1>5 DEF Heap!vars
  <2>2. Heap!TypeOK'
    BY <1>5 DEF HeapInv, EntryInv, Heap!TypeOK, Heap!vars, Heap!clockVars
  <2>. QED BY <1>1, <2>1, <2>2
<1>. HIDE DEF kept
<1>. QED
  BY <1>2, <1>3, <1>4, <1>5, AddStep, DelStep, PopDeadStep, FireLoopStep,
     FireOnceStep DEF Heap!Next

LEMMA HeapInvariant == Heap!Spec => []HeapInv
<1>1. Heap!Init => HeapInv BY HeapInit
<1>2. HeapInv /\ [Heap!Next]_Heap!vars => HeapInv' BY HeapStep
<1>. QED BY <1>1, <1>2, PTL DEF Heap!Spec

\* MinHeap loses and doubles no entry, whatever comes, is cancelled, is
\* suspended and runs out, and also once dead entries are in the heap.
THEOREM HeapKeepsEntries == Heap!Spec => []EntryKept
<1>1. HeapInv => EntryKept
  <2>. SUFFICES ASSUME HeapInv, NEW t \in timerMap \ spent
                PROVE  \E i \in DOMAIN heap : \A j \in DOMAIN heap : heap[j] = t <=> j = i
    BY DEF EntryKept, Heap!EntryKept, HeapInv, EntryInv, Heap!TypeOK
  <2>1. In(heap, t) /\ Distinct(heap) BY DEF HeapInv, EntryInv
  <2>. QED BY <2>1 DEF In, Distinct
<1>. QED BY <1>1, HeapInvariant, PTL

\* The front of the heap is due before every other entry.
LEMMA FrontFirst ==
    ASSUME HeapInv, dead = {}, NEW u \in Heap!Live
    PROVE  /\ heap # <<>> /\ heap[1] \in Timers /\ u \in Timers
           /\ nextTime[heap[1]] <= nextTime[u]
<1>1. heap \in Seq(Timers) /\ nextTime \in [Timers -> Nat] /\ Ordered(heap, nextTime, 1)
  BY DEF HeapInv, EntryInv, Heap!TypeOK, OrderInv
<1>2. PICK i \in DOMAIN heap : u = heap[i] BY DEF Heap!Live, Heap!Entries
<1>3. heap # <<>> /\ heap[1] \in Timers /\ heap[i] \in Timers BY <1>1
<1>. QED BY <1>1, <1>2, <1>3, RootFirst

\* Until a timer dies, Launch takes the timers in the order in which they are
\* due and leaves none behind that was due when it began.
THEOREM LaunchKeepsOrder == Heap!Spec => LaunchInOrder
<1>1. ASSUME HeapInv, [Heap!Next]_Heap!vars PROVE [Heap!TakenInOrder]_Heap!vars
  <2>. SUFFICES ASSUME ~UNCHANGED Heap!vars, dead = {}, NEW u \in Heap!Live
                PROVE  /\ fired' # fired /\ fired' # <<>> =>
                              nextTime[fired'[Len(fired')]] <= nextTime[u]
                       /\ Heap!LaunchEnd => nextTime[u] > last
    BY DEF Heap!TakenInOrder
  <2>1. /\ heap # <<>> /\ heap[1] \in Timers /\ u \in Timers
        /\ nextTime[heap[1]] <= nextTime[u]
        /\ Head(heap) = heap[1] /\ fired \in Seq(Timers)
    BY <1>1, FrontFirst DEF HeapInv, EntryInv, Heap!TypeOK
  <2>2. ASSUME fired' # fired, fired' # <<>>
        PROVE  nextTime[fired'[Len(fired')]] <= nextTime[u]
    <3>1. fired' = Append(fired, heap[1])
      BY <1>1, <2>1, <2>2 DEF Heap!Next, Heap!vars, Heap!AddTimer, Heap!DelTimer,
         Heap!Suspend, Heap!Resume, Heap!FireLoop, Heap!FireOnce, Heap!Tick,
         Heap!LaunchBegin, Heap!PopDead, Heap!LaunchEnd
    <3>2. fired'[Len(fired')] = heap[1] BY <2>1, <3>1
    <3>. QED BY <2>1, <3>2
  <2>3. ASSUME Heap!LaunchEnd PROVE nextTime[u] > last
    <3>1. last < nextTime[heap[1]] BY <2>1, <2>3 DEF Heap!LaunchEnd, Heap!Pending
    <3>2. /\ nextTime[heap[1]] \in Nat /\ nextTime[u] \in Nat /\ last \in Int
      BY <1>1, <2>1, HeapAssumption
      DEF HeapInv, EntryInv, Heap!TypeOK, Heap!HeapConstants
    <3>. QED BY <2>1, <3>1, <3>2
  <2>. QED BY <2>2, <2>3
<1>2. HeapInv /\ [Heap!Next]_Heap!vars => [Heap!TakenInOrder]_Heap!vars BY <1>1
<1>. QED BY <1>2, HeapInvariant, PTL DEF Heap!Spec, LaunchInOrder, Heap!LaunchInOrder

\* No entry is overdue by more than an int holds.
NotLongOverdue == \A u \in Heap!Entries : now - nextTime[u] <= IntMax + 1

LEMMA AsInt ==
    ASSUME NEW x \in Int
    PROVE  /\ Heap!ToInt(x) \in Int
           /\ x >= -(IntMax + 1) => Heap!NotNegative(Heap!ToInt(x)) <= Heap!NotNegative(x)
           /\ x \in 1..IntMax => Heap!ToInt(x) = x
<1>. DEFINE P == 2 * (IntMax + 1)
            m == x % P
<1>1. IntMax \in Nat /\ P \in Nat \ {0} BY HeapAssumption DEF Heap!HeapConstants
<1>2. Heap!ToInt(x) = IF m > IntMax THEN m - P ELSE m BY DEF Heap!ToInt, Heap!Ints
<1>3. m \in 0 .. P - 1 BY <1>1
<1>4. x \in 0 .. P - 1 => m = x BY <1>1
<1>5. x >= 0 => m <= x BY <1>1, <1>3, <1>4
<1>6. x \in -P .. -1 => m = x + P BY <1>1
<1>. HIDE DEF m
<1>7. x >= -(IntMax + 1) => Heap!NotNegative(Heap!ToInt(x)) <= Heap!NotNegative(x)
  BY <1>1, <1>2, <1>3, <1>5, <1>6 DEF Heap!NotNegative
<1>. QED BY <1>1, <1>2, <1>3, <1>4, <1>7

\* The loop sleeps past no live timer until one dies, and does not spin, as long
\* as no timer is overdue by more than an int holds.  The time to one that is
\* comes out of the conversion as a time to come.
THEOREM LoopWakes == Heap!Spec => [](NotLongOverdue => TimeoutRight)
<1>1. ASSUME HeapInv, NotLongOverdue PROVE TimeoutRight
  <2>. DEFINE d == nextTime[heap[1]] - now
  <2>1. /\ heap \in Seq(Timers) /\ nextTime \in [Timers -> Nat] /\ now \in Nat
        /\ IntMax \in Nat
    BY <1>1, HeapAssumption DEF HeapInv, EntryInv, Heap!TypeOK, Heap!HeapConstants
  <2>2. ASSUME heap # <<>>
        PROVE  /\ heap[1] \in Timers /\ heap[1] \in Heap!Entries /\ Head(heap) = heap[1]
               /\ d \in Int /\ d >= -(IntMax + 1)
    <3>1. heap[1] \in Timers /\ 1 \in DOMAIN heap /\ Head(heap) = heap[1]
      BY <2>1, <2>2
    <3>2. heap[1] \in Heap!Entries BY <3>1 DEF Heap!Entries
    <3>3. nextTime[heap[1]] \in Nat BY <2>1, <3>1
    <3>4. now - nextTime[heap[1]] <= IntMax + 1 BY <1>1, <3>2 DEF NotLongOverdue
    <3>. QED BY <2>1, <3>1, <3>2, <3>3, <3>4
  <2>3. ASSUME heap # <<>>, heap[1] \notin dead
        PROVE  Heap!GetNextTimeout = Heap!NotNegative(Heap!ToInt(d))
    BY <2>2, <2>3 DEF Heap!GetNextTimeout
  <2>4. ASSUME dead = {}, NEW u \in Heap!Live PROVE Heap!AwakeFor(u)
    <3>1. /\ heap # <<>> /\ heap[1] \in Timers /\ u \in Timers
          /\ nextTime[heap[1]] <= nextTime[u]
      BY <1>1, <2>4, FrontFirst
    <3>2. Heap!GetNextTimeout = Heap!NotNegative(Heap!ToInt(d)) BY <2>3, <2>4, <3>1
    <3>3. /\ Heap!ToInt(d) \in Int /\ d \in Int
          /\ Heap!NotNegative(Heap!ToInt(d)) <= Heap!NotNegative(d)
      BY <2>2, <3>1, AsInt
    <3>4. nextTime[heap[1]] \in Nat /\ nextTime[u] \in Nat BY <2>1, <3>1
    <3>5. d <= nextTime[u] - now /\ nextTime[u] - now \in Int BY <2>1, <3>1, <3>4
    <3>. HIDE DEF d
    <3>. QED BY <3>2, <3>3, <3>5 DEF Heap!AwakeFor, Heap!NotNegative
  <2>5. ASSUME Heap!GetNextTimeout = 0 PROVE Heap!Ready
    <3>1. heap # <<>> BY <2>5 DEF Heap!GetNextTimeout
    <3>2. CASE heap[1] \in dead BY <2>2, <3>1, <3>2 DEF Heap!Ready
    <3>3. CASE heap[1] \notin dead
      <4>1. Heap!NotNegative(Heap!ToInt(d)) = 0 BY <2>3, <2>5, <3>1, <3>3
      <4>2. d \in Int /\ Heap!ToInt(d) \in Int /\ (d \in 1..IntMax => Heap!ToInt(d) = d)
        BY <2>2, <3>1, AsInt
      <4>3. d <= 0 \/ d > IntMax
        <5>. HIDE DEF d
        <5>. QED BY <2>1, <4>1, <4>2 DEF Heap!NotNegative
      <4>4. nextTime[heap[1]] \in Nat BY <2>1, <2>2, <3>1
      <4>5. CASE d <= 0
        <5>1. nextTime[heap[1]] <= now BY <2>1, <4>4, <4>5
        <5>. QED BY <2>2, <3>1, <5>1 DEF Heap!Ready
      <4>6. CASE d > IntMax BY <2>2, <3>1, <4>6 DEF Heap!Ready
      <4>. QED BY <4>3, <4>5, <4>6
    <3>. QED BY <3>2, <3>3
  <2>. QED BY <2>4, <2>5 DEF TimeoutRight, Heap!TimeoutRight
<1>2. HeapInv => (NotLongOverdue => TimeoutRight) BY <1>1
<1>. QED BY <1>2, HeapInvariant, PTL

----------------------------------------------------------------------------
(* The log.                                                                *)

\* A later time is not of an earlier day.
LEMMA DaysPass ==
    ASSUME NEW a \in Nat, NEW b \in Nat, a <= b, NEW d \in Nat \ {0}
    PROVE  a \div d \in Nat /\ b \div d \in Nat /\ a \div d <= b \div d
<1>. DEFINE x == a \div d
            y == b \div d
<1>1. x \in Nat /\ a = (x * d) + (a % d) /\ a % d \in 0 .. d - 1 OBVIOUS
<1>2. y \in Nat /\ b = (y * d) + (b % d) /\ b % d \in 0 .. d - 1 OBVIOUS
<1>. HIDE DEF x, y
<1>3. ASSUME y < x PROVE FALSE
  <2>1. PICK k \in Nat : x = y + 1 + k
    <3>1. x - y - 1 \in Nat /\ x = y + 1 + (x - y - 1) BY <1>1, <1>2, <1>3
    <3>. QED BY <3>1
  <2>2. x * d = (y * d) + d + (k * d) BY <1>2, <2>1
  <2>3. k * d \in Nat /\ x * d \in Nat /\ y * d \in Nat BY <1>1, <1>2, <2>1
  <2>. QED BY <1>1, <1>2, <2>2, <2>3
<1>4. x <= y BY <1>1, <1>2, <1>3
<1>. QED BY <1>1, <1>2, <1>4 DEF x, y

\* No call has read a time to come, and the open file is of the day of its last
\* line or a later one and as long as m_curSize says.
LogInv ==
    /\ Log!TypeOK
    /\ clock \in 1..LastTick
    /\ \A w \in Writers : stamp[w] # None => stamp[w] \in 0..clock
    /\ file # None => /\ curSize = fileSize[file]
                      /\ openedAt \div Day >= lastSecond \div Day
    /\ LogFilesRight

LEMMA LogInit == Log!Init => LogInv
<1>. SUFFICES ASSUME Log!Init PROVE LogInv
  OBVIOUS
<1>. USE LogAssumption DEF Log!LogConstants
<1>1. Log!TypeOK /\ clock \in 1..LastTick /\ file = None /\ line = None
      /\ \A w \in Writers : stamp[w] = None
  BY DEF Log!Init, Log!TypeOK
<1>2. Log!FileBounded
  <2>. DEFINE most == CHOOSE l \in Lengths : \A k \in Lengths : k <= l
  <2>1. most \in Nat OBVIOUS
  <2>. HIDE DEF most
  <2>2. \A n \in Log!Names : fileSize[n] < MaxSize + most BY <2>1 DEF Log!Init
  <2>. QED BY <2>2 DEF Log!FileBounded, most
<1>. QED BY <1>1, <1>2 DEF LogInv, LogFilesRight, Log!NoLineInOlderFile

LEMMA LogStep ==
    ASSUME LogInv, [Log!Next]_Log!vars
    PROVE  LogInv'
<1>. USE LogAssumption DEF Log!LogConstants
<1>. DEFINE most == CHOOSE l \in Lengths : \A k \in Lengths : k <= l
<1>0. most \in Nat /\ \A k \in Lengths : k <= most OBVIOUS
<1>. HIDE DEF most
<1>1. /\ isInit \in BOOLEAN \cup {None} /\ clock \in 1..LastTick /\ curSize \in Nat
      /\ fillNum \in Nat /\ lastSecond \in Nat /\ openedAt \in Nat
      /\ stamp \in [Writers -> Nat \cup {None}]
      /\ file \in Log!Names \cup {None} /\ fileSize \in [Log!Names -> Nat]
  BY DEF LogInv, Log!TypeOK
<1>2. /\ \A w \in Writers : stamp[w] # None => stamp[w] \in 0..clock
      /\ file # None => /\ curSize = fileSize[file]
                        /\ openedAt \div Day >= lastSecond \div Day
      /\ line # None => line.openedAt \div Day >= line.at \div Day
      /\ \A n \in Log!Names : fileSize[n] < MaxSize + most
  BY DEF LogInv, LogFilesRight, Log!NoLineInOlderFile, Log!FileBounded, most
\* What a step has to keep.
<1>3. ASSUME Log!TypeOK', clock' \in 1..LastTick,
             \A w \in Writers : stamp'[w] # None => stamp'[w] \in 0..clock',
             file' # None => /\ curSize' = fileSize'[file']
                             /\ openedAt' \div Day >= lastSecond' \div Day,
             line' # None => line'.openedAt \div Day >= line'.at \div Day,
             \A n \in Log!Names : fileSize'[n] < MaxSize + most
      PROVE  LogInv'
  BY <1>3 DEF LogInv, LogFilesRight, Log!NoLineInOlderFile, Log!FileBounded, most
<1>4. CASE Log!InitLogger \/ Log!Tick \/ UNCHANGED Log!vars
  <2>1. /\ UNCHANGED <<stamp, file, curSize, fillNum, lastSecond, fileSize,
                       openedAt, line>>
        /\ clock' \in clock .. LastTick /\ isInit' \in BOOLEAN \cup {None}
    BY <1>1, <1>4 DEF Log!InitLogger, Log!Tick, Log!vars
  <2>2. Log!TypeOK' BY <1>1, <2>1 DEF Log!TypeOK
  <2>. QED BY <1>1, <1>2, <1>3, <2>1, <2>2
<1>5. ASSUME NEW w \in Writers, Log!Begin(w) PROVE LogInv'
  <2>1. /\ stamp' = [stamp EXCEPT ![w] = clock]
        /\ UNCHANGED <<isInit, clock, file, curSize, fillNum, lastSecond, fileSize,
                       openedAt, line>>
    BY <1>5 DEF Log!Begin
  <2>2. Log!TypeOK' BY <1>1, <2>1 DEF Log!TypeOK
  <2>3. \A v \in Writers : stamp'[v] # None => stamp'[v] \in 0..clock
    BY <1>1, <1>2, <2>1
  <2>. QED BY <1>1, <1>2, <1>3, <2>1, <2>2, <2>3
<1>6. ASSUME NEW w \in Writers, Log!OpenFails(w) PROVE LogInv'
  <2>1. /\ stamp' = [stamp EXCEPT ![w] = None] /\ file' = None
        /\ UNCHANGED <<isInit, clock, lastSecond, fileSize, openedAt, line>>
    BY <1>6 DEF Log!OpenFails
  <2>2. PICK n \in Log!Start(w) .. MaxFiles :
            /\ fillNum' = n
            /\ curSize' = IF n = Log!Start(w) THEN curSize
                          ELSE fileSize[<<Log!Local(clock), n - 1>>]
    BY <1>6 DEF Log!OpenFails
  <2>3. Log!Start(w) \in Nat BY <1>1 DEF Log!Start
  <2>4. Log!Local(clock) \in 0 .. Log!Local(LastTick)
    BY <1>1, DaysPass DEF Log!Local
  <2>5. curSize' \in Nat /\ fillNum' \in Nat
    <3>1. CASE n = Log!Start(w) BY <1>1, <2>2, <2>3, <3>1
    <3>2. CASE n # Log!Start(w)
      <4>1. n - 1 \in 0..MaxFiles BY <2>2, <2>3, <3>2
      <4>2. <<Log!Local(clock), n - 1>> \in Log!Names BY <2>4, <4>1 DEF Log!Names
      <4>. QED BY <1>1, <2>2, <2>3, <3>2, <4>2
    <3>. QED BY <3>1, <3>2
  <2>6. Log!TypeOK' BY <1>1, <2>1, <2>5 DEF Log!TypeOK
  <2>7. \A v \in Writers : stamp'[v] # None => stamp'[v] \in 0..clock
    BY <1>1, <1>2, <2>1
  <2>. QED BY <1>1, <1>2, <1>3, <2>1, <2>6, <2>7
\* What WriteOn and WriteNew have in common: a file with room gets a line that
\* is not of a later day than the file.
<1>7. ASSUME NEW w \in Writers, NEW len \in Lengths, NEW f \in Log!Names, stamp[w] # None,
             fileSize[f] < MaxSize, file' = f, fillNum' \in Nat,
             fileSize' = [fileSize EXCEPT ![f] = @ + len], curSize' = fileSize'[f],
             openedAt' \in Nat, openedAt' \div Day >= stamp[w] \div Day,
             lastSecond' = stamp[w],
             line' = [at |-> stamp[w], openedAt |-> openedAt', file |-> f],
             stamp' = [stamp EXCEPT ![w] = None],
             UNCHANGED <<isInit, clock>>
      PROVE  LogInv'
  <2>1. stamp[w] \in Nat /\ len \in Nat BY <1>1, <1>7
  <2>2. fileSize' \in [Log!Names -> Nat] BY <1>1, <1>7, <2>1
  <2>3. Log!TypeOK' BY <1>1, <1>7, <2>1, <2>2 DEF Log!TypeOK
  <2>4. \A v \in Writers : stamp'[v] # None => stamp'[v] \in 0..clock
    BY <1>1, <1>2, <1>7
  <2>5. \A n \in Log!Names : fileSize'[n] < MaxSize + most
    <3>. SUFFICES ASSUME NEW n \in Log!Names PROVE fileSize'[n] < MaxSize + most
      OBVIOUS
    <3>1. CASE n = f
      <4>1. fileSize'[f] = fileSize[f] + len /\ fileSize[f] \in Nat BY <1>1, <1>7
      <4>. QED BY <1>0, <1>7, <2>1, <3>1, <4>1
    <3>2. CASE n # f BY <1>1, <1>2, <1>7, <3>2
    <3>. QED BY <3>1, <3>2
  <2>6. line'.openedAt \div Day >= line'.at \div Day BY <1>7
  <2>. QED BY <1>1, <1>3, <1>7, <2>3, <2>4, <2>5, <2>6
<1>8. ASSUME NEW w \in Writers, NEW len \in Lengths, Log!WriteOn(w, len) PROVE LogInv'
  <2>1. /\ file \in Log!Names /\ curSize = fileSize[file] /\ stamp[w] # None
        /\ openedAt \div Day >= stamp[w] \div Day
    BY <1>1, <1>2, <1>8 DEF Log!WriteOn, Log!OtherDay
  <2>2. len \in Nat OBVIOUS
  <2>3. curSize' = fileSize'[file] BY <1>1, <1>8, <2>1, <2>2 DEF Log!WriteOn
  <2>. QED BY <1>1, <1>7, <1>8, <2>1, <2>3 DEF Log!WriteOn
<1>9. ASSUME NEW w \in Writers, NEW len \in Lengths, Log!WriteNew(w, len) PROVE LogInv'
  <2>1. PICK n \in Log!FilesFrom(Log!Start(w)) :
            file' = <<Log!Local(clock), n>> /\ fillNum' = n
    BY <1>9 DEF Log!WriteNew
  <2>2. n \in 0..MaxFiles /\ fileSize[<<Log!Local(clock), n>>] < MaxSize
    BY <1>1, <2>1 DEF Log!FilesFrom, Log!HasRoom, Log!Start
  <2>3. Log!Local(clock) \in 0 .. Log!Local(LastTick)
    BY <1>1, DaysPass DEF Log!Local
  <2>4. file' \in Log!Names BY <2>1, <2>2, <2>3 DEF Log!Names
  <2>5. stamp[w] \in 0..clock BY <1>2, <1>9 DEF Log!WriteNew
  <2>6. clock \div Day >= stamp[w] \div Day BY <1>1, <2>5, DaysPass
  <2>7. PICK f \in Log!Names : f = file' BY <2>4
  <2>8. /\ stamp[w] # None /\ file' = f /\ fileSize[f] < MaxSize /\ fillNum' \in Nat
        /\ fileSize' = [fileSize EXCEPT ![f] = @ + len] /\ curSize' = fileSize'[f]
        /\ openedAt' = clock /\ lastSecond' = stamp[w]
        /\ line' = [at |-> stamp[w], openedAt |-> openedAt', file |-> f]
        /\ stamp' = [stamp EXCEPT ![w] = None]
        /\ UNCHANGED <<isInit, clock>>
    BY <1>9, <2>1, <2>2, <2>7 DEF Log!WriteNew
  <2>9. openedAt' \in Nat /\ openedAt' \div Day >= stamp[w] \div Day
    BY <1>1, <2>6, <2>8
  <2>. QED BY <1>7, <2>8, <2>9
<1>. QED BY <1>4, <1>5, <1>6, <1>8, <1>9 DEF Log!Next

\* Whatever order the threads come in, no line goes into a file of an earlier
\* day, and no file grows by more than a line beyond MAX_SIZE.
THEOREM LogStaysRight == Log!Spec => []LogFilesRight
<1>1. Log!Init => LogInv BY LogInit
<1>2. LogInv /\ [Log!Next]_Log!vars => LogInv' BY LogStep
<1>3. LogInv => LogFilesRight BY DEF LogInv
<1>. QED BY <1>1, <1>2, <1>3, PTL DEF Log!Spec

----------------------------------------------------------------------------
(* The scene.                                                              *)

\* A location up to the left edge of grid k lies in k or before it.
LEMMA GridsByCeil ==
    ASSUME NEW x \in Nat
    PROVE  /\ Scene!IdxOf(x) \in Nat
           /\ \A k \in Nat : Scene!IdxOf(x) <= k <=> x <= k * Len0
<1>. DEFINE q == (x + Len0 - 1) \div Len0
            r == (x + Len0 - 1) % Len0
<1>1. Len0 \in Nat \ {0} BY SceneAssumption DEF Scene!SceneConstants
<1>2. q \in Nat /\ r \in 0 .. Len0 - 1 /\ x + Len0 - 1 = (q * Len0) + r BY <1>1
<1>. HIDE DEF q, r
<1>3. ASSUME NEW k \in Nat PROVE q <= k <=> x <= k * Len0
  <2>1. k * Len0 \in Nat /\ q * Len0 \in Nat BY <1>1, <1>2
  <2>2. ASSUME q <= k PROVE x <= k * Len0
    <3>1. PICK d \in Nat : k = q + d
      <4>1. k - q \in Nat /\ k = q + (k - q) BY <1>2, <2>2
      <4>. QED BY <4>1
    <3>2. k * Len0 = (q * Len0) + (d * Len0) BY <1>1, <1>2, <3>1
    <3>3. d * Len0 \in Nat BY <1>1, <3>1
    <3>. QED BY <1>1, <1>2, <2>1, <3>2, <3>3
  <2>3. ASSUME k < q PROVE ~(x <= k * Len0)
    <3>1. PICK d \in Nat : q = k + 1 + d
      <4>1. q - k - 1 \in Nat /\ q = k + 1 + (q - k - 1) BY <1>2, <2>3
      <4>. QED BY <4>1
    <3>2. q * Len0 = (k * Len0) + Len0 + (d * Len0) BY <1>1, <3>1
    <3>3. d * Len0 \in Nat BY <1>1, <3>1
    <3>. QED BY <1>1, <1>2, <2>1, <3>2, <3>3
  <2>. QED BY <1>2, <2>2, <2>3
<1>. QED BY <1>2, <1>3 DEF Scene!IdxOf, q

\* What a location leads out of.
Fits(p) == Scene!CheckPos(p) /\ Scene!Inside(p) /\ Scene!AroundInside(p)

LEMMA PiecesExist == Scene!PX \in Nat \ {0} /\ Scene!PZ \in Nat \ {0}
<1>1. ASSUME NEW size \in Nat PROVE Scene!PiecesOf(size) \in Nat \ {0}
  <2>1. size \div Len0 \in Nat BY SceneAssumption DEF Scene!SceneConstants
  <2>. QED BY <2>1 DEF Scene!PiecesOf
<1>. QED BY <1>1, SceneAssumption DEF Scene!PX, Scene!PZ, Scene!SceneConstants

LEMMA OutsPastLast ==
    ASSUME NEW p \in Locations, Scene!CheckPos(p)
    PROVE  Fits(p) <=> /\ p[1] <= (Scene!PX - 1) * Len0
                       /\ p[2] <= (Scene!PZ - 1) * Len0
<1>1. p[1] \in Nat /\ p[2] \in Nat BY DEF Scene!CheckPos
<1>2. Scene!PX - 1 \in Nat /\ Scene!PZ - 1 \in Nat BY PiecesExist
<1>3. /\ Scene!IdxOf(p[1]) \in Nat /\ Scene!IdxOf(p[2]) \in Nat
      /\ Scene!IdxOf(p[1]) <= Scene!PX - 1 <=> p[1] <= (Scene!PX - 1) * Len0
      /\ Scene!IdxOf(p[2]) <= Scene!PZ - 1 <=> p[2] <= (Scene!PZ - 1) * Len0
  BY <1>1, <1>2, GridsByCeil
<1>4. Scene!Inside(p) <=> /\ Scene!IdxOf(p[1]) <= Scene!PX - 1
                          /\ Scene!IdxOf(p[2]) <= Scene!PZ - 1
  BY <1>2, <1>3 DEF Scene!Inside, Scene!GridOf, Scene!Grids
<1>5. Scene!Inside(p) => Scene!AroundInside(p)
  <2>. SUFFICES ASSUME Scene!Inside(p), NEW g \in Scene!FindAroundGrids(p)
                PROVE  g \in Scene!Grids
    BY DEF Scene!AroundInside
  <2>1. /\ g \in (Scene!IdxOf(p[1]) - 1 .. Scene!IdxOf(p[1]))
                     \X (Scene!IdxOf(p[2]) - 1 .. Scene!IdxOf(p[2]))
        /\ g[1] \in 0 .. Scene!PX - 1 /\ g[2] \in 0 .. Scene!PZ
    BY DEF Scene!FindAroundGrids, Scene!Span
  <2>2. g[2] \in 0 .. Scene!PZ - 1 BY <1>2, <1>3, <1>4, <2>1
  <2>. QED BY <2>1, <2>2 DEF Scene!Grids
<1>. QED BY <1>3, <1>4, <1>5 DEF Fits

\* Who stands somewhere stands where nothing leads out.
SceneInv ==
    /\ Scene!TypeOK
    /\ \A e \in Entities : Scene!Standing(e) => Fits(loc[e])
    /\ Scene!KnowsWhoIsAround /\ Scene!StandsWhereItIs
    /\ ub # None => /\ ub \in Locations
                    /\ Scene!CheckPos(ub) /\ ~Fits(ub)

LEMMA SceneInit == Scene!Init => SceneInv
<1>. SUFFICES ASSUME Scene!Init PROVE SceneInv
  OBVIOUS
<1>1. \E p \in Locations : Scene!CheckPos(p)
  BY SceneAssumption DEF Scene!SceneConstants, Scene!CheckPos
<1>2. loc \in [Entities -> Locations] BY <1>1 DEF Scene!Init
<1>3. Scene!TypeOK BY <1>2 DEF Scene!Init, Scene!TypeOK
<1>4. \A e \in Entities : ~Scene!Standing(e) BY DEF Scene!Init, Scene!Standing
<1>5. Scene!StandsWhereItIs BY DEF Scene!Init, Scene!StandsWhereItIs
<1>. QED BY <1>3, <1>4, <1>5 DEF SceneInv, Scene!KnowsWhoIsAround, Scene!Init

\* o, who is used as meant and stands, is among those in the grids gs of the
\* scene exactly if its grid is one of them.
LEMMA SeenInGrids ==
    ASSUME SceneInv, NEW o \in Entities \ misused, Scene!Standing(o),
           NEW ents, \A g \in Scene!Grids : o \in ents[g] <=> o \in entities[g],
           NEW gs \in SUBSET Scene!Grids
    PROVE  o \in Scene!In(ents, gs) <=> Scene!GridOf(loc[o]) \in gs
<1>1. PICK h \in Scene!Grids : o \in entities[h] BY DEF Scene!Standing
<1>2. \A g \in Scene!Grids : o \in entities[g] => g = Scene!GridOf(loc[o])
  BY DEF SceneInv, Scene!StandsWhereItIs
<1>. QED BY <1>1, <1>2 DEF Scene!In

\* What is kept of those that a step of e0 does not touch.
LEMMA OthersKept ==
    ASSUME SceneInv, misused = {}, NEW e0 \in Entities, Scene!TypeOK', ub' = ub,
           misused' \subseteq {e0},
           \A e \in Entities \ {e0} : loc'[e] = loc[e],
           \A e \in Entities \ {e0}, g \in Scene!Grids :
               e \in entities'[g] <=> e \in entities[g],
           \A o \in Entities \ {e0}, e \in Entities \ {e0} :
               /\ e \in knows'[o] <=> e \in knows[o]
               /\ e \in fresh'[o] => e \in fresh[o],
           \* and of e0 itself:
           Scene!Standing(e0)' => Fits(loc'[e0]),
           e0 \notin misused' => \A g \in Scene!Grids :
               e0 \in entities'[g] => g = Scene!GridOf(loc'[e0]),
           e0 \notin misused' => \A e \in Entities \ {e0} :
               /\ e \in fresh'[e0] /\ Scene!Standing(e0)' =>
                     (e \in knows'[e0] <=> /\ Scene!Standing(e)
                                           /\ Scene!GridOf(loc'[e0])
                                                \in Scene!FindAroundGrids(loc[e]))
               /\ e0 \in fresh'[e] /\ Scene!Standing(e) =>
                     (e0 \in knows'[e] <=> /\ Scene!Standing(e0)'
                                           /\ Scene!GridOf(loc[e])
                                                \in Scene!FindAroundGrids(loc'[e0]))
    PROVE  SceneInv'
<1>1. \A e \in Entities \ {e0} : Scene!Standing(e)' <=> Scene!Standing(e)
  BY DEF Scene!Standing
<1>2. \A e \in Entities : Scene!Standing(e)' => Fits(loc'[e])
  BY <1>1 DEF SceneInv
<1>3. Scene!StandsWhereItIs'
  BY DEF SceneInv, Scene!StandsWhereItIs
<1>4. Scene!KnowsWhoIsAround'
  <2>. SUFFICES ASSUME NEW o \in Entities, NEW e \in Entities, o # e, e \in fresh'[o],
                       {o, e} \cap misused' = {}, Scene!Standing(o)'
                PROVE  e \in knows'[o] <=>
                           /\ Scene!Standing(e)'
                           /\ Scene!GridOf(loc'[o]) \in Scene!FindAroundGrids(loc'[e])
    BY DEF Scene!KnowsWhoIsAround
  <2>1. CASE o # e0 /\ e # e0
    <3>1. /\ e \in fresh[o] /\ Scene!Standing(o) /\ {o, e} \cap misused = {}
          /\ loc'[o] = loc[o] /\ loc'[e] = loc[e]
          /\ Scene!Standing(e)' <=> Scene!Standing(e)
          /\ e \in knows'[o] <=> e \in knows[o]
      BY <1>1, <2>1
    <3>2. e \in knows[o] <=>
              Scene!Standing(e) /\ Scene!GridOf(loc[o]) \in Scene!FindAroundGrids(loc[e])
      BY <3>1 DEF SceneInv, Scene!KnowsWhoIsAround
    <3>. QED BY <3>1, <3>2
  <2>2. CASE o = e0
    <3>1. e # e0 /\ e0 \notin misused' /\ loc'[e] = loc[e] BY <2>2
    <3>. QED BY <1>1, <2>2, <3>1
  <2>3. CASE e = e0
    <3>1. o # e0 /\ e0 \notin misused' /\ loc'[o] = loc[o] BY <2>3
    <3>. QED BY <1>1, <2>3, <3>1
  <2>. QED BY <2>1, <2>2, <2>3
<1>. QED BY <1>2, <1>3, <1>4 DEF SceneInv

LEMMA EnterStep ==
    ASSUME SceneInv, misused = {}, NEW e0 \in Entities, NEW p \in Locations,
           Scene!Enter(e0, p)
    PROVE  SceneInv'
<1>. DEFINE G == Scene!GridOf(p)
            A == Scene!FindAroundGrids(p)
<1>1. Fits(p) /\ G \in Scene!Grids /\ A \in SUBSET Scene!Grids
  BY DEF Scene!Enter, Fits, Scene!Inside, Scene!AroundInside
<1>2. /\ loc \in [Entities -> Locations] /\ entities \in [Scene!Grids -> SUBSET Entities]
      /\ knows \in [Entities -> SUBSET Entities] /\ fresh \in [Entities -> SUBSET Entities]
      /\ ub \in Locations \cup {None}
  BY DEF SceneInv, Scene!TypeOK
<1>3. /\ loc' = [loc EXCEPT ![e0] = p] /\ ub' = ub
      /\ entities' = [entities EXCEPT ![G] = @ \cup {e0}]
      /\ misused' = IF Scene!Standing(e0) THEN misused \cup {e0} ELSE misused
      /\ knows' = [o \in Entities |-> IF o \in Scene!In(entities', A)
                                      THEN knows[o] \cup {e0} ELSE knows[o]]
      /\ fresh' = [o \in Entities |-> IF o = e0 THEN {}
                                      ELSE IF e0 \notin knows[o]
                                      THEN fresh[o] \cup {e0} ELSE fresh[o]]
  BY DEF Scene!Enter, Scene!Freshen
<1>. HIDE DEF G, A
<1>4. Scene!TypeOK'
  <2>1. entities' \in [Scene!Grids -> SUBSET Entities] BY <1>1, <1>2, <1>3
  <2>2. /\ knows' \in [Entities -> SUBSET Entities]
        /\ fresh' \in [Entities -> SUBSET Entities]
    BY <1>2, <1>3
  <2>. QED BY <1>2, <1>3, <2>1, <2>2 DEF Scene!TypeOK
<1>5. /\ \A e \in Entities \ {e0} : loc'[e] = loc[e]
      /\ \A e \in Entities \ {e0}, g \in Scene!Grids :
             e \in entities'[g] <=> e \in entities[g]
      /\ \A o \in Entities \ {e0}, e \in Entities \ {e0} :
             /\ e \in knows'[o] <=> e \in knows[o]
             /\ e \in fresh'[o] => e \in fresh[o]
      /\ loc'[e0] = p /\ misused' \subseteq {e0}
  BY <1>1, <1>2, <1>3
<1>6. Scene!Standing(e0)'
  BY <1>1, <1>2, <1>3 DEF Scene!Standing
<1>7. ASSUME e0 \notin misused' PROVE ~Scene!Standing(e0)
  BY <1>3, <1>7
<1>8. ASSUME e0 \notin misused', NEW g \in Scene!Grids, e0 \in entities'[g]
      PROVE  g = Scene!GridOf(loc'[e0])
  BY <1>1, <1>2, <1>3, <1>5, <1>7, <1>8 DEF Scene!Standing, G
<1>9. ASSUME e0 \notin misused', NEW e \in Entities \ {e0}, e0 \in fresh'[e],
             Scene!Standing(e)
      PROVE  e0 \in knows'[e] <=> Scene!GridOf(loc[e]) \in A
  <2>1. e \in Scene!In(entities', A) <=> Scene!GridOf(loc[e]) \in A
    BY <1>1, <1>5, <1>9, SeenInGrids
  <2>2. e0 \notin knows[e]
    <3>1. CASE e0 \in fresh[e]
      BY <1>7, <1>9, <3>1 DEF SceneInv, Scene!KnowsWhoIsAround
    <3>2. CASE e0 \notin fresh[e] BY <1>3, <1>9, <3>2
    <3>. QED BY <3>1, <3>2
  <2>. QED BY <1>3, <2>1, <2>2
<1>10. fresh'[e0] = {} BY <1>3
<1>11. Scene!FindAroundGrids(loc'[e0]) = A /\ Fits(loc'[e0]) /\ ub' = ub
  BY <1>1, <1>3, <1>5 DEF A
<1>12. \A g \in Scene!Grids :
          e0 \notin misused' /\ e0 \in entities'[g] => g = Scene!GridOf(loc'[e0])
  BY <1>8
<1>13. ASSUME e0 \notin misused', NEW e \in Entities \ {e0}, e0 \in fresh'[e],
              Scene!Standing(e)
       PROVE  e0 \in knows'[e] <=> /\ Scene!Standing(e0)'
                                   /\ Scene!GridOf(loc[e])
                                        \in Scene!FindAroundGrids(loc'[e0])
  BY <1>6, <1>9, <1>11, <1>13
<1>. QED BY <1>4, <1>5, <1>10, <1>11, <1>12, <1>13, OthersKept

LEMMA LeaveStep ==
    ASSUME SceneInv, misused = {}, NEW e0 \in Entities, Scene!Leave(e0)
    PROVE  SceneInv'
<1>. DEFINE G == Scene!GridOf(loc[e0])
            A == Scene!FindAroundGrids(loc[e0])
<1>1. /\ loc \in [Entities -> Locations] /\ entities \in [Scene!Grids -> SUBSET Entities]
      /\ knows \in [Entities -> SUBSET Entities] /\ fresh \in [Entities -> SUBSET Entities]
      /\ ub \in Locations \cup {None}
  BY DEF SceneInv, Scene!TypeOK
<1>2. /\ loc' = loc /\ ub' = ub /\ misused' = misused
      /\ entities' = [entities EXCEPT ![G] = @ \ {e0}]
      /\ knows' = [o \in Entities |-> IF o \in Scene!In(entities', A)
                                      THEN knows[o] \ {e0} ELSE knows[o]]
      /\ fresh' = [o \in Entities |-> IF o = e0 THEN {} ELSE fresh[o]]
  BY DEF Scene!Leave, Scene!Freshen
<1>3. Scene!Standing(e0) => A \in SUBSET Scene!Grids
  BY DEF SceneInv, Fits, Scene!AroundInside
<1>4. \A g \in Scene!Grids : e0 \in entities[g] => g = G
  BY DEF SceneInv, Scene!StandsWhereItIs
<1>. HIDE DEF G, A
<1>5. Scene!TypeOK'
  <2>1. entities' \in [Scene!Grids -> SUBSET Entities] BY <1>1, <1>2
  <2>2. /\ knows' \in [Entities -> SUBSET Entities]
        /\ fresh' \in [Entities -> SUBSET Entities]
    BY <1>1, <1>2
  <2>. QED BY <1>1, <1>2, <2>1, <2>2 DEF SceneInv, Scene!TypeOK
<1>6. /\ \A e \in Entities \ {e0}, g \in Scene!Grids :
             e \in entities'[g] <=> e \in entities[g]
      /\ \A o \in Entities \ {e0}, e \in Entities \ {e0} :
             /\ e \in knows'[o] <=> e \in knows[o]
             /\ e \in fresh'[o] => e \in fresh[o]
  BY <1>1, <1>2
<1>7. ~Scene!Standing(e0)' BY <1>1, <1>2, <1>4 DEF Scene!Standing
<1>8. ASSUME NEW e \in Entities \ {e0}, e0 \in fresh'[e], Scene!Standing(e)
      PROVE  e0 \notin knows'[e]
  <2>1. e0 \in fresh[e] BY <1>2, <1>8
  <2>2. e0 \in knows[e] => Scene!Standing(e0) /\ Scene!GridOf(loc[e]) \in A
    BY <1>8, <2>1 DEF SceneInv, Scene!KnowsWhoIsAround, A
  <2>3. CASE ~Scene!Standing(e0) BY <1>2, <2>2, <2>3
  <2>4. CASE Scene!Standing(e0)
    <3>1. e \in Scene!In(entities', A) <=> Scene!GridOf(loc[e]) \in A
      BY <1>3, <1>6, <1>8, <2>4, SeenInGrids
    <3>. QED BY <1>2, <2>2, <3>1
  <2>. QED BY <2>3, <2>4
<1>9. \A g \in Scene!Grids : e0 \notin entities'[g] BY <1>7 DEF Scene!Standing
<1>10. fresh'[e0] = {} BY <1>2
<1>. QED BY <1>2, <1>5, <1>6, <1>7, <1>8, <1>9, <1>10, OthersKept

LEMMA MoveStep ==
    ASSUME SceneInv, misused = {}, NEW e0 \in Entities, NEW p \in Locations,
           Scene!Move(e0, p)
    PROVE  SceneInv'
<1>. DEFINE old == Scene!FindAroundGrids(loc[e0])
            new == Scene!FindAroundGrids(p)
            from == Scene!GridOf(loc[e0])
            to == Scene!GridOf(p)
<1>1. Fits(p) /\ to \in Scene!Grids /\ new \in SUBSET Scene!Grids
  BY DEF Scene!Move, Fits, Scene!Inside, Scene!AroundInside
<1>2. /\ loc \in [Entities -> Locations] /\ entities \in [Scene!Grids -> SUBSET Entities]
      /\ knows \in [Entities -> SUBSET Entities] /\ fresh \in [Entities -> SUBSET Entities]
      /\ ub \in Locations \cup {None}
  BY DEF SceneInv, Scene!TypeOK
<1>3. /\ loc' = [loc EXCEPT ![e0] = p] /\ ub' = ub
      /\ misused' = IF Scene!Standing(e0) THEN misused ELSE misused \cup {e0}
      /\ from = to => UNCHANGED <<entities, knows, fresh>>
      /\ from # to =>
            /\ entities' = [entities EXCEPT ![from] = @ \ {e0}, ![to] = @ \cup {e0}]
            /\ knows' = [o \in Entities |->
                   LET left == IF o \in Scene!In(entities', Scene!LeaveSet(old, new))
                               THEN knows[o] \ {e0} ELSE knows[o]
                   IN  IF o \in Scene!In(entities', Scene!EnterSet(old, new))
                       THEN left \cup {e0} ELSE left]
            /\ fresh' = [o \in Entities |-> IF o = e0 THEN {} ELSE fresh[o]]
  BY DEF Scene!Move, Scene!StepTo, Scene!Freshen
<1>4. Scene!Standing(e0) => Fits(loc[e0]) /\ old \in SUBSET Scene!Grids
  BY DEF SceneInv, Fits, Scene!AroundInside
<1>5. \A g \in Scene!Grids : e0 \in entities[g] => g = from
  BY DEF SceneInv, Scene!StandsWhereItIs
<1>6. from = to /\ Scene!Standing(e0) => old = new
  BY <1>1, <1>4 DEF Fits, Scene!GridOf, Scene!FindAroundGrids
<1>. HIDE DEF old, new, from, to
<1>7. loc'[e0] = p /\ misused' \subseteq {e0} /\ \A e \in Entities \ {e0} : loc'[e] = loc[e]
  BY <1>2, <1>3
<1>8. CASE from = to
  <2>1. UNCHANGED <<entities, knows, fresh, ub>> BY <1>3, <1>8
  <2>2. Scene!TypeOK' BY <1>2, <1>3, <1>7, <2>1 DEF Scene!TypeOK
  <2>3. Scene!Standing(e0)' <=> Scene!Standing(e0) BY <2>1 DEF Scene!Standing
  <2>4. ASSUME e0 \notin misused' PROVE Scene!Standing(e0) /\ old = new
    BY <1>3, <1>6, <1>8, <2>4
  <2>5. \A g \in Scene!Grids : e0 \in entities'[g] => g = Scene!GridOf(loc'[e0])
    BY <1>5, <1>7, <1>8, <2>1 DEF to
  <2>6. ASSUME e0 \notin misused', NEW e \in Entities \ {e0}, e \in fresh'[e0]
        PROVE  e \in knows'[e0] <=> /\ Scene!Standing(e)
                                    /\ Scene!GridOf(loc'[e0])
                                         \in Scene!FindAroundGrids(loc[e])
    <3>1. e \in knows[e0] <=> /\ Scene!Standing(e)
                              /\ from \in Scene!FindAroundGrids(loc[e])
      BY <2>1, <2>4, <2>6 DEF SceneInv, Scene!KnowsWhoIsAround, from
    <3>. QED BY <1>7, <1>8, <2>1, <3>1 DEF to
  <2>7. ASSUME e0 \notin misused', NEW e \in Entities \ {e0}, e0 \in fresh'[e],
               Scene!Standing(e)
        PROVE  e0 \in knows'[e] <=> Scene!GridOf(loc[e]) \in new
    BY <2>1, <2>4, <2>7 DEF SceneInv, Scene!KnowsWhoIsAround, old
  <2>. QED BY <1>1, <1>7, <2>1, <2>2, <2>3, <2>4, <2>5, <2>6, <2>7, OthersKept DEF new
<1>9. CASE from # to
  <2>1. /\ entities' = [entities EXCEPT ![from] = @ \ {e0}, ![to] = @ \cup {e0}]
        /\ fresh' = [o \in Entities |-> IF o = e0 THEN {} ELSE fresh[o]]
    BY <1>3, <1>9
  <2>2. knows' = [o \in Entities |->
                   LET left == IF o \in Scene!In(entities', old \ new)
                               THEN knows[o] \ {e0} ELSE knows[o]
                   IN  IF o \in Scene!In(entities', new \ old)
                       THEN left \cup {e0} ELSE left]
    BY <1>3, <1>9 DEF Scene!LeaveSet, Scene!EnterSet
  <2>3. /\ entities' \in [Scene!Grids -> SUBSET Entities]
        /\ \A g \in Scene!Grids : e0 \in entities'[g] <=>
               g = to \/ (e0 \in entities[g] /\ g # from)
        /\ \A e \in Entities \ {e0}, g \in Scene!Grids :
               e \in entities'[g] <=> e \in entities[g]
    BY <1>1, <1>2, <1>9, <2>1
  <2>4. Scene!TypeOK'
    <3>1. /\ knows' \in [Entities -> SUBSET Entities]
          /\ fresh' \in [Entities -> SUBSET Entities]
      BY <1>2, <2>1, <2>2
    <3>. QED BY <1>2, <1>3, <1>7, <2>3, <3>1 DEF Scene!TypeOK
  <2>5. \A o \in Entities \ {e0}, e \in Entities \ {e0} :
            /\ e \in knows'[o] <=> e \in knows[o]
            /\ e \in fresh'[o] => e \in fresh[o]
    BY <2>1, <2>2
  <2>6. Scene!Standing(e0)' BY <1>1, <2>3 DEF Scene!Standing
  <2>7. \A g \in Scene!Grids : e0 \in entities'[g] => g = Scene!GridOf(loc'[e0])
    BY <1>5, <1>7, <2>3 DEF to
  <2>8. ASSUME e0 \notin misused', NEW e \in Entities \ {e0}, e0 \in fresh'[e],
               Scene!Standing(e)
        PROVE  e0 \in knows'[e] <=> Scene!GridOf(loc[e]) \in new
    <3>1. Scene!Standing(e0) BY <1>3, <2>8
    <3>2. e0 \in knows[e] <=> Scene!GridOf(loc[e]) \in old
      BY <2>1, <2>8, <3>1 DEF SceneInv, Scene!KnowsWhoIsAround, old
    <3>3. old \ new \in SUBSET Scene!Grids /\ new \ old \in SUBSET Scene!Grids
      BY <1>1, <1>4, <3>1
    <3>4. /\ e \in Scene!In(entities', old \ new) <=> Scene!GridOf(loc[e]) \in old \ new
          /\ e \in Scene!In(entities', new \ old) <=> Scene!GridOf(loc[e]) \in new \ old
      BY <2>3, <2>8, <3>3, SeenInGrids
    <3>. QED BY <2>2, <3>2, <3>4
  <2>9. fresh'[e0] = {} BY <2>1
  <2>. QED BY <1>1, <1>3, <1>7, <2>3, <2>4, <2>5, <2>6, <2>7, <2>8, <2>9, OthersKept DEF new
<1>. QED BY <1>8, <1>9

LEMMA SceneStep ==
    ASSUME SceneInv, [Scene!Next]_Scene!vars
    PROVE  SceneInv'
<1>1. CASE UNCHANGED Scene!vars
  BY <1>1 DEF Scene!vars, SceneInv, Scene!TypeOK, Scene!Standing,
     Scene!KnowsWhoIsAround, Scene!StandsWhereItIs
<1>2. ASSUME NEW p \in Locations, Scene!LeadsOut(p) PROVE SceneInv'
  <2>1. ub' = p /\ UNCHANGED <<loc, entities, knows, fresh, misused>>
    BY <1>2 DEF Scene!LeadsOut, Scene!Out
  <2>2. Scene!CheckPos(p) /\ ~Fits(p) BY <1>2 DEF Scene!LeadsOut, Fits
  <2>3. Scene!TypeOK' BY <2>1 DEF SceneInv, Scene!TypeOK
  <2>. QED BY <2>1, <2>2, <2>3
       DEF SceneInv, Scene!Standing, Scene!KnowsWhoIsAround, Scene!StandsWhereItIs
<1>. QED BY <1>1, <1>2, EnterStep, LeaveStep, MoveStep DEF Scene!Next

\* However the entities enter, move and leave, one that stands knows of those
\* that came since exactly if its grid is among those FindAroundGrids gives;
\* each stands in the grid of its location; and a valid location leads out of
\* m_grids only if it lies past the start of the last grid.
THEOREM SceneKnows == Scene!Spec => []KnowsWhoIsAround
<1>1. Scene!Init => SceneInv BY SceneInit
<1>2. SceneInv /\ [Scene!Next]_Scene!vars => SceneInv' BY SceneStep
<1>3. ASSUME SceneInv PROVE KnowsWhoIsAround
  <2>1. ub # None => \/ ub[1] > (Scene!PX - 1) * Len0
                     \/ ub[2] > (Scene!PZ - 1) * Len0
    <3>. SUFFICES ASSUME ub # None
                  PROVE  \/ ub[1] > (Scene!PX - 1) * Len0
                         \/ ub[2] > (Scene!PZ - 1) * Len0
      OBVIOUS
    <3>1. ub \in Locations /\ Scene!CheckPos(ub) /\ ~Fits(ub) BY <1>3 DEF SceneInv
    <3>2. ~(/\ ub[1] <= (Scene!PX - 1) * Len0 /\ ub[2] <= (Scene!PZ - 1) * Len0)
      BY <3>1, OutsPastLast
    <3>3. /\ ub[1] \in Int /\ ub[2] \in Int
          /\ (Scene!PX - 1) * Len0 \in Int /\ (Scene!PZ - 1) * Len0 \in Int
      BY <3>1, PiecesExist, SceneAssumption DEF Scene!SceneConstants
    <3>. QED BY <3>2, <3>3
  <2>2. ASSUME NEW e \in Entities, Scene!Standing(e)
        PROVE  /\ loc[e][1] <= (Scene!PX - 1) * Len0
               /\ loc[e][2] <= (Scene!PZ - 1) * Len0
    <3>1. loc[e] \in Locations /\ Scene!CheckPos(loc[e]) /\ Fits(loc[e])
      BY <1>3, <2>2 DEF SceneInv, Scene!TypeOK, Fits
    <3>. QED BY <3>1, OutsPastLast
  <2>3. Scene!OutPastLastGrid BY <2>1, <2>2 DEF Scene!OutPastLastGrid
  <2>. QED BY <1>3, <2>3 DEF SceneInv, KnowsWhoIsAround
<1>4. SceneInv => KnowsWhoIsAround BY <1>3
<1>. QED BY <1>1, <1>2, <1>4, PTL DEF Scene!Spec

----------------------------------------------------------------------------
(* The map of the mine sweeper, for any size and any mines drawn.          *)

\* A function that calls itself at f[x] for the x of M exists if every call
\* lowers a rank r.
CallsItself(u, D, M, f, v) == u = [x \in D |-> IF x \in M THEN u[f[x]] ELSE v[x]]

LEMMA CallsEnd ==
    ASSUME NEW D, NEW M \in SUBSET D, NEW f \in [M -> D], NEW v,
           NEW r \in [D -> Nat], \A x \in M : r[f[x]] < r[x]
    PROVE  \E u : CallsItself(u, D, M, f, v)
<1>. DEFINE E(u, x) == IF x \in M THEN u[f[x]] ELSE v[x]
            Low(m) == {x \in D : r[x] < m}
            Fixed(u, m) == u = [x \in Low(m) |-> E(u, x)]
            Good(m) == \E u : Fixed(u, m)
            Bad == {m \in Nat : ~Good(m)}
<1>1. Bad = {}
  <2>. SUFFICES ASSUME Bad # {} PROVE FALSE
    OBVIOUS
  <2>1. PICK m \in Bad : \A k \in Bad : m <= k
    <3>1. Bad \in SUBSET Nat OBVIOUS
    <3>. HIDE DEF Bad
    <3>. QED BY <3>1, Smallest
  <2>2. m \in Nat /\ ~Good(m) OBVIOUS
  <2>3. m # 0
    <3>1. Low(0) = {} OBVIOUS
    <3>. DEFINE z == [x \in {} |-> 0]
    <3>. HIDE DEF E
    <3>2. z = [x \in Low(0) |-> E(z, x)] BY <3>1
    <3>. HIDE DEF z
    <3>3. Good(0) BY <3>2
    <3>. QED BY <2>2, <3>3
  <2>4. m - 1 \in Nat /\ ~(m <= m - 1) BY <2>2, <2>3
  <2>5. Good(m - 1) BY <2>1, <2>4
  <2>6. PICK u : u = [x \in Low(m - 1) |-> E(u, x)] BY <2>5
  <2>. DEFINE w == [x \in Low(m) |-> E(u, x)]
  <2>7. ASSUME NEW x \in Low(m) PROVE E(u, x) = E(w, x)
    <3>1. CASE x \notin M BY <3>1
    <3>2. CASE x \in M
      <4>1. r[f[x]] < r[x] /\ r[x] < m /\ f[x] \in D BY <3>2
      <4>2. r[f[x]] \in Nat /\ r[x] \in Nat /\ m \in Nat BY <4>1, <2>2
      <4>3. f[x] \in Low(m - 1) /\ f[x] \in Low(m) BY <4>1, <4>2
      <4>4. u[f[x]] = w[f[x]] BY <2>6, <4>3
      <4>. QED BY <3>2, <4>4
    <3>. QED BY <3>1, <3>2
  <2>8. w = [x \in Low(m) |-> E(w, x)]
    <3>. HIDE DEF E, Low
    <3>1. \A x \in Low(m) : E(u, x) = E(w, x) BY <2>7
    <3>2. [x \in Low(m) |-> E(u, x)] = [x \in Low(m) |-> E(w, x)] BY <3>1
    <3>3. w = [x \in Low(m) |-> E(u, x)] OBVIOUS
    <3>. QED BY <3>2, <3>3
  <2>9. Good(m)
    <3>. HIDE DEF E, Low, w
    <3>. QED BY <2>8
  <2>. QED BY <2>2, <2>9
<1>2. \A m \in Nat : \E u : Fixed(u, m)
  <2>. HIDE DEF Fixed
  <2>. QED BY <1>1
<1>. DEFINE a == [m \in Nat |-> CHOOSE u : Fixed(u, m)]
<1>3. ASSUME NEW m \in Nat PROVE Fixed(a[m], m)
  <2>1. \E u : Fixed(u, m) BY <1>2
  <2>. HIDE DEF Fixed
  <2>. QED BY <2>1
\* What a says of x is the same for every m above the rank of x.
<1>. HIDE DEF E, Low
<1>4. \A m \in Nat : \A x \in Low(m) : a[m][x] = E(a[m], x)
  <2>. HIDE DEF a
  <2>. QED BY <1>3
<1>. DEFINE Differ(k) == \E m, n \in Nat : \E x \in Low(m) \cap Low(n) :
                             r[x] = k /\ a[m][x] # a[n][x]
            Odd == {k \in Nat : Differ(k)}
<1>5. Odd = {}
  <2>. SUFFICES ASSUME Odd # {} PROVE FALSE
    OBVIOUS
  <2>1. PICK k \in Odd : \A j \in Odd : k <= j
    <3>1. Odd \in SUBSET Nat OBVIOUS
    <3>. HIDE DEF Odd
    <3>. QED BY <3>1, Smallest
  <2>. HIDE DEF a
  <2>2. PICK m \in Nat, n \in Nat : \E x \in Low(m) \cap Low(n) :
            r[x] = k /\ a[m][x] # a[n][x]
    BY <2>1
  <2>3. PICK x \in Low(m) \cap Low(n) : r[x] = k /\ a[m][x] # a[n][x] BY <2>2
  <2>4. a[m][x] = E(a[m], x) /\ a[n][x] = E(a[n], x) BY <1>4, <2>3
  <2>5. x \in M BY <2>3, <2>4 DEF E
  <2>6. a[m][f[x]] # a[n][f[x]] BY <2>3, <2>4, <2>5 DEF E
  <2>7. f[x] \in D /\ r[f[x]] \in Nat /\ r[f[x]] < k BY <2>3, <2>5
  <2>8. f[x] \in Low(m) \cap Low(n)
    <3>1. r[x] < m /\ r[x] < n /\ r[x] \in Nat BY <2>3 DEF Low
    <3>. QED BY <2>3, <2>7, <3>1 DEF Low
  <2>9. r[f[x]] \in Odd BY <2>6, <2>7, <2>8
  <2>. QED BY <2>1, <2>7, <2>9
<1>6. \A m, n \in Nat : \A x \in Low(m) \cap Low(n) : a[m][x] = a[n][x]
  <2>1. \A x \in D : r[x] \in Nat OBVIOUS
  <2>2. \A m \in Nat : Low(m) \subseteq D BY DEF Low
  <2>. HIDE DEF a
  <2>. QED BY <1>5, <2>1, <2>2
<1>. DEFINE u == [x \in D |-> a[r[x] + 1][x]]
<1>7. ASSUME NEW x \in D PROVE u[x] = IF x \in M THEN u[f[x]] ELSE v[x]
  <2>1. r[x] \in Nat /\ r[x] + 1 \in Nat /\ x \in Low(r[x] + 1) BY DEF Low
  <2>. HIDE DEF a
  <2>2. u[x] = E(a[r[x] + 1], x) BY <1>4, <2>1
  <2>3. CASE x \notin M BY <2>2, <2>3 DEF E
  <2>4. CASE x \in M
    <3>1. f[x] \in D /\ r[f[x]] \in Nat /\ r[f[x]] < r[x] BY <2>4
    <3>2. f[x] \in Low(r[x] + 1) \cap Low(r[f[x]] + 1)
      <4>1. r[f[x]] < r[x] + 1 /\ r[f[x]] < r[f[x]] + 1 BY <2>1, <3>1
      <4>. QED BY <3>1, <4>1 DEF Low
    <3>3. a[r[x] + 1][f[x]] = a[r[f[x]] + 1][f[x]] BY <1>6, <2>1, <3>1, <3>2
    <3>. QED BY <2>2, <2>4, <3>1, <3>3 DEF E
  <2>. QED BY <2>3, <2>4
<1>8. CallsItself(u, D, M, f, v)
  <2>1. DOMAIN u = D /\ u = [x \in D |-> u[x]] OBVIOUS
  <2>. HIDE DEF u
  <2>. QED BY <1>7, <2>1 DEF CallsItself
<1>. QED BY <1>8

----------------------------------------------------------------------------
\* The Cardinality that the module of the mine sweeper sees is Cardinality.
LEMMA SameCardinality == \A S : Sweeper!Cardinality(S) = Cardinality(S)
BY Zenon DEF Sweeper!Cardinality, Cardinality

LEMMA PointsCounted ==
    /\ IsFiniteSet(Sweeper!Points)
    /\ Cardinality(Sweeper!Points) = Sweeper!Cells
    /\ Sweeper!Cells \in Nat
<1>1. MaxX \in Nat /\ MaxY \in Nat BY SweeperAssumption DEF Sweeper!SweeperConstants
<1>2. IsFiniteSet(0 .. MaxX - 1) /\ Cardinality(0 .. MaxX - 1) = MaxX
  BY <1>1, FS_Interval
<1>3. IsFiniteSet(0 .. MaxY - 1) /\ Cardinality(0 .. MaxY - 1) = MaxY
  BY <1>1, FS_Interval
<1>4. MaxX * MaxY \in Nat BY <1>1
<1>5. /\ IsFiniteSet(Sweeper!Points)
      /\ Cardinality(Sweeper!Points) = MaxX * MaxY
  <2>. DEFINE X == 0 .. MaxX - 1
              Y == 0 .. MaxY - 1
  <2>1. IsFiniteSet(X) /\ IsFiniteSet(Y) BY <1>2, <1>3
  <2>2. Sweeper!Points = X \X Y BY DEF Sweeper!Points
  <2>3. Cardinality(X) = MaxX /\ Cardinality(Y) = MaxY BY <1>2, <1>3
  <2>. HIDE DEF X, Y
  <2>4. IsFiniteSet(X \X Y) /\ Cardinality(X \X Y) = Cardinality(X) * Cardinality(Y)
    BY <2>1, FS_Product
  <2>. QED BY <2>2, <2>3, <2>4
<1>. QED BY <1>4, <1>5 DEF Sweeper!Cells

LEMMA AroundInPoints ==
    ASSUME NEW p \in Sweeper!Points
    PROVE  /\ Sweeper!Around(p) \in SUBSET Sweeper!Points
           /\ \A q \in Sweeper!Around(p) : p \in Sweeper!Around(q)
<1>1. MaxX \in Nat /\ MaxY \in Nat BY SweeperAssumption DEF Sweeper!SweeperConstants
<1>2. p[1] \in 0 .. MaxX - 1 /\ p[2] \in 0 .. MaxY - 1 /\ p = <<p[1], p[2]>>
  BY DEF Sweeper!Points
<1>3. ASSUME NEW q \in Sweeper!Around(p)
      PROVE  q \in Sweeper!Points /\ p \in Sweeper!Around(q)
  <2>1. /\ q = <<q[1], q[2]>> /\ q # p
        /\ q[1] \in p[1] - 1 .. p[1] + 1 /\ q[2] \in p[2] - 1 .. p[2] + 1
        /\ q[1] > p[1] => q[1] <= MaxX - 1
        /\ q[1] < p[1] => q[1] >= 0
        /\ q[2] > p[2] => q[2] <= MaxY - 1
        /\ q[2] < p[2] => q[2] >= 0
    BY <1>3 DEF Sweeper!Around
  <2>2. q[1] \in 0 .. MaxX - 1 /\ q[2] \in 0 .. MaxY - 1 BY <1>1, <1>2, <2>1
  <2>3. q \in Sweeper!Points BY <2>1, <2>2 DEF Sweeper!Points
  <2>4. /\ p[1] \in q[1] - 1 .. q[1] + 1 /\ p[2] \in q[2] - 1 .. q[2] + 1
        /\ p[1] > q[1] => p[1] <= MaxX - 1
        /\ p[1] < q[1] => p[1] >= 0
        /\ p[2] > q[2] => p[2] <= MaxY - 1
        /\ p[2] < q[2] => p[2] >= 0
    BY <1>2, <2>1, <2>2
  <2>5. p \in (q[1] - 1 .. q[1] + 1) \X (q[2] - 1 .. q[2] + 1) BY <1>2, <2>4
  <2>. QED BY <2>1, <2>3, <2>4, <2>5 DEF Sweeper!Around
<1>. QED BY <1>3

LEMMA SetAsSeq ==
    ASSUME NEW S, IsFiniteSet(S)
    PROVE  /\ Sweeper!SetToSeq(S) \in Seq(S)
           /\ Len(Sweeper!SetToSeq(S)) = Cardinality(S)
           /\ \A t \in S : In(Sweeper!SetToSeq(S), t)
<1>. DEFINE n == Cardinality(S)
            q == Sweeper!SetToSeq(S)
<1>1. n \in Nat /\ ExistsBijection(1 .. n, S) BY FS_CardinalityType
<1>2. PICK b : b \in Bijection(1 .. n, S) BY <1>1 DEF ExistsBijection
<1>3. b \in [1 .. n -> S] /\ \A i, j \in 1 .. n : b[i] = b[j] => i = j
  BY <1>2 DEF Bijection, Injection, IsInjective
<1>4. b \in [1 .. n -> S] /\ Sweeper!IsInjective(b) BY <1>3 DEF Sweeper!IsInjective
<1>5. q \in [1 .. n -> S] /\ Sweeper!IsInjective(q)
  <2>1. \E f \in [1 .. n -> S] : Sweeper!IsInjective(f) BY <1>4
  <2>2. q = CHOOSE f \in [1 .. n -> S] : Sweeper!IsInjective(f)
    BY SameCardinality DEF Sweeper!SetToSeq
  <2>. HIDE DEF n, q
  <2>. QED BY <2>1, <2>2
<1>. HIDE DEF q
<1>6. q \in Injection(1 .. n, S)
  BY <1>5 DEF Injection, IsInjective, Sweeper!IsInjective
<1>7. Cardinality(1 .. n) = n BY <1>1, FS_Interval
<1>8. q \in Surjection(1 .. n, S) BY <1>6, <1>7, FS_Injection
<1>9. \A t \in S : \E i \in 1 .. n : q[i] = t BY <1>8 DEF Surjection
<1>10. q \in Seq(S) /\ Len(q) = n
  <2>. HIDE DEF n
  <2>. QED BY <1>1, <1>5, SeqDef
<1>11. \A t \in S : In(q, t) BY <1>5, <1>9 DEF In
<1>. QED BY <1>10, <1>11 DEF q

----------------------------------------------------------------------------
Calls == Seq(Sweeper!Points) \X SUBSET Sweeper!Points
Rank(s) == (Sweeper!Cells + 1) * Cardinality(Sweeper!Points \ s[2]) + Len(s[1])

LEMMA RankIsNat == \A s \in Calls : Rank(s) \in Nat
<1>. SUFFICES ASSUME NEW s \in Calls PROVE Rank(s) \in Nat
  OBVIOUS
<1>1. s[1] \in Seq(Sweeper!Points) BY DEF Calls
<1>2. Len(s[1]) \in Nat BY <1>1
<1>3. Cardinality(Sweeper!Points \ s[2]) \in Nat /\ Sweeper!Cells \in Nat
  BY PointsCounted, FS_Difference, FS_CardinalityType
<1>. QED BY <1>2, <1>3 DEF Rank

\* Whatever is to be opened beside an open point without number is called.
Fair(s) ==
    \A q \in s[2] :
        /\ Sweeper!Opens(q)
        /\ content[q] = 0 =>
               \A n \in Sweeper!Around(q) :
                   Sweeper!Opens(n) => n \in s[2] \/ In(s[1], n)

\* The calls of a point and what they leave behind.
Step(q, c) ==
    (IF content[q] = 0 THEN Sweeper!SetToSeq(Sweeper!Around(q)) ELSE <<>>) \o c

LEMMA CallsBehind ==
    ASSUME NEW q \in Sweeper!Points, NEW c \in Seq(Sweeper!Points)
    PROVE  /\ Step(q, c) \in Seq(Sweeper!Points)
           /\ Len(Step(q, c)) \in Nat
           /\ Len(Step(q, c)) <= Sweeper!Cells + Len(c)
           /\ \A t : In(c, t) => In(Step(q, c), t)
           /\ content[q] = 0 => \A t \in Sweeper!Around(q) : In(Step(q, c), t)
<1>. DEFINE P == Sweeper!Points
            A == Sweeper!Around(q)
<1>1. A \in SUBSET P BY AroundInPoints
<1>2. IsFiniteSet(A) /\ Cardinality(A) <= Sweeper!Cells
  BY <1>1, PointsCounted, FS_Subset
<1>3. /\ Sweeper!SetToSeq(A) \in Seq(A)
      /\ Len(Sweeper!SetToSeq(A)) = Cardinality(A)
      /\ \A t \in A : In(Sweeper!SetToSeq(A), t)
  BY <1>2, SetAsSeq
<1>. HIDE DEF P, A
<1>4. Sweeper!SetToSeq(A) \in Seq(P) BY <1>1, <1>3, SeqMonotonic
<1>5. Len(c) \in Nat /\ Sweeper!Cells \in Nat /\ Cardinality(A) \in Nat
  BY <1>2, PointsCounted, FS_CardinalityType
<1>6. CASE content[q] = 0
  <2>1. c \in Seq(P) BY DEF P
  <2>2. /\ Sweeper!SetToSeq(A) \o c \in Seq(P)
        /\ Len(Sweeper!SetToSeq(A) \o c) = Len(Sweeper!SetToSeq(A)) + Len(c)
        /\ \A t : In(Sweeper!SetToSeq(A) \o c, t)
                      <=> In(Sweeper!SetToSeq(A), t) \/ In(c, t)
    BY <1>4, <2>1, ConcatPlaces
  <2>3. Step(q, c) = Sweeper!SetToSeq(A) \o c BY <1>6 DEF Step, A
  <2>. QED BY <1>2, <1>3, <1>5, <2>2, <2>3 DEF P, A
<1>7. CASE content[q] # 0
  <2>1. Step(q, c) = c BY <1>7 DEF Step
  <2>. QED BY <1>5, <1>7, <2>1
<1>. QED BY <1>6, <1>7

LEMMA CallStep ==
    ASSUME NEW s \in Calls, s[1] # <<>>
    PROVE  /\ Sweeper!Called(s) \in Calls
           /\ Rank(Sweeper!Called(s)) \in Nat /\ Rank(s) \in Nat
           /\ Rank(Sweeper!Called(s)) < Rank(s)
           /\ s[2] \subseteq Sweeper!Called(s)[2]
           /\ \A t : In(s[1], t) /\ Sweeper!Opens(t) =>
                  t \in Sweeper!Called(s)[2] \/ In(Sweeper!Called(s)[1], t)
           /\ Fair(s) => Fair(Sweeper!Called(s))
<1>. DEFINE P == Sweeper!Points
            q == Head(s[1])
            c == Tail(s[1])
            K == Sweeper!Cells
            k == Cardinality(P \ s[2])
<1>1. s[1] \in Seq(P) /\ s[2] \in SUBSET P BY DEF Calls
<1>2. /\ q \in P /\ c \in Seq(P) /\ Len(c) \in Nat /\ Len(s[1]) = Len(c) + 1
  BY <1>1
<1>3. \A t : In(s[1], t) <=> t = q \/ In(c, t) BY <1>1, HeadOrTail
<1>4. IsFiniteSet(P \ s[2]) /\ k \in Nat /\ K \in Nat
  BY PointsCounted, FS_Difference, FS_CardinalityType
<1>5. CASE Sweeper!Opens(q) /\ q \notin s[2]
  <2>1. Sweeper!Called(s) = <<Step(q, c), s[2] \cup {q}>>
    BY <1>5 DEF Sweeper!Called, Step
  <2>2. /\ Step(q, c) \in Seq(P) /\ Len(Step(q, c)) \in Nat
        /\ Len(Step(q, c)) <= K + Len(c)
        /\ \A t : In(c, t) => In(Step(q, c), t)
        /\ content[q] = 0 => \A t \in Sweeper!Around(q) : In(Step(q, c), t)
    BY <1>2, CallsBehind
  <2>3. Cardinality(P \ (s[2] \cup {q})) = k - 1 /\ k - 1 \in Nat
    <3>1. P \ (s[2] \cup {q}) = (P \ s[2]) \ {q} OBVIOUS
    <3>2. q \in P \ s[2] BY <1>2, <1>5
    <3>3. IsFiniteSet((P \ s[2]) \ {q}) /\ Cardinality((P \ s[2]) \ {q}) = k - 1
      BY <1>4, <3>2, FS_RemoveElement
    <3>. QED BY <3>1, <3>3, FS_CardinalityType
  <2>4. Sweeper!Called(s) \in Calls BY <1>1, <1>2, <2>1, <2>2 DEF Calls
  <2>5. /\ Rank(Sweeper!Called(s)) = (K + 1) * (k - 1) + Len(Step(q, c))
        /\ Rank(s) = (K + 1) * k + Len(c) + 1
    BY <1>2, <1>4, <2>1, <2>3 DEF Rank
  <2>6. (K + 1) * (k - 1) = (K + 1) * k - (K + 1) /\ (K + 1) * k \in Nat
        /\ (K + 1) * (k - 1) \in Nat
    <3>. HIDE DEF K, k
    <3>. QED BY <1>4, <2>3
  <2>7. /\ Rank(Sweeper!Called(s)) \in Nat /\ Rank(s) \in Nat
        /\ Rank(Sweeper!Called(s)) < Rank(s)
    <3>. HIDE DEF K, k, q, c
    <3>. QED BY <1>2, <1>4, <2>2, <2>5, <2>6
  <2>8. ASSUME Fair(s) PROVE Fair(Sweeper!Called(s))
    <3>. HIDE DEF K, k, q, c
    <3>1. ASSUME NEW x \in s[2] \cup {q}
          PROVE  /\ Sweeper!Opens(x)
                 /\ content[x] = 0 =>
                        \A n \in Sweeper!Around(x) :
                            Sweeper!Opens(n) => n \in s[2] \cup {q} \/ In(Step(q, c), n)
      <4>1. CASE x = q BY <1>5, <2>2, <4>1
      <4>2. CASE x \in s[2] BY <1>3, <2>2, <2>8, <4>2 DEF Fair
      <4>. QED BY <4>1, <4>2
    <3>. QED BY <2>1, <3>1 DEF Fair
  <2>9. \A t : In(s[1], t) => t \in s[2] \cup {q} \/ In(Step(q, c), t)
    BY <1>3, <2>2
  <2>. QED BY <2>1, <2>4, <2>7, <2>8, <2>9
<1>6. CASE ~(Sweeper!Opens(q) /\ q \notin s[2])
  <2>1. Sweeper!Called(s) = <<c, s[2]>> BY <1>6 DEF Sweeper!Called
  <2>2. Sweeper!Called(s) \in Calls
    <3>. HIDE DEF c
    <3>. QED BY <1>1, <1>2, <2>1 DEF Calls
  <2>3. /\ Rank(Sweeper!Called(s)) = (K + 1) * k + Len(c)
        /\ Rank(s) = (K + 1) * k + Len(c) + 1
    BY <1>2, <1>4, <2>1 DEF Rank
  <2>4. (K + 1) * k \in Nat
    <3>. HIDE DEF K, k
    <3>. QED BY <1>4
  <2>5. /\ Rank(Sweeper!Called(s)) \in Nat /\ Rank(s) \in Nat
        /\ Rank(Sweeper!Called(s)) < Rank(s)
    <3>. HIDE DEF K, k, q, c
    <3>. QED BY <1>2, <2>3, <2>4
  <2>6. \A t : In(s[1], t) /\ Sweeper!Opens(t) => t \in s[2] \/ In(c, t)
    BY <1>3, <1>6
  <2>7. ASSUME Fair(s) PROVE Fair(Sweeper!Called(s))
    <3>. HIDE DEF K, k, q, c
    <3>. QED BY <2>1, <2>6, <2>7 DEF Fair
  <2>. QED BY <2>1, <2>2, <2>5, <2>6, <2>7
<1>. QED BY <1>5, <1>6

\* D is open around each of its points without number, and holds what the calls
\* of s are to open.
Flooded(s, D) ==
    /\ D \in SUBSET Sweeper!Points /\ s[2] \subseteq D
    /\ \A q \in D :
           /\ Sweeper!Opens(q)
           /\ content[q] = 0 =>
                  \A n \in Sweeper!Around(q) : Sweeper!Opens(n) => n \in D
    /\ \A t : In(s[1], t) /\ Sweeper!Opens(t) => t \in D

LEMMA CallsFlood ==
    ASSUME NEW u, \A s \in Calls :
               u[s] = IF s[1] = <<>> THEN s[2] ELSE u[Sweeper!Called(s)]
    PROVE  \A s \in Calls : Fair(s) => Flooded(s, u[s])
<1>. DEFINE Wrong(s) == Fair(s) /\ ~Flooded(s, u[s])
            Bad == {m \in Nat : \E s \in Calls : Rank(s) = m /\ Wrong(s)}
<1>1. Bad = {}
  <2>. SUFFICES ASSUME Bad # {} PROVE FALSE
    OBVIOUS
  <2>1. PICK m \in Bad : \A k \in Bad : m <= k
    <3>1. Bad \in SUBSET Nat OBVIOUS
    <3>. HIDE DEF Bad
    <3>. QED BY <3>1, Smallest
  <2>2. PICK s \in Calls : Rank(s) = m /\ Wrong(s) BY <2>1
  <2>3. s[1] # <<>>
    <3>. SUFFICES ASSUME s[1] = <<>> PROVE Flooded(s, u[s])
      BY <2>2
    <3>1. u[s] = s[2] /\ s[2] \in SUBSET Sweeper!Points BY DEF Calls
    <3>2. \A t : ~In(s[1], t) BY DEF In
    <3>. QED BY <2>2, <3>1, <3>2 DEF Fair, Flooded
  <2>. DEFINE z == Sweeper!Called(s)
  <2>4. /\ z \in Calls /\ Rank(z) \in Nat /\ Rank(s) \in Nat /\ Rank(z) < Rank(s)
        /\ s[2] \subseteq z[2]
        /\ \A t : In(s[1], t) /\ Sweeper!Opens(t) => t \in z[2] \/ In(z[1], t)
        /\ Fair(s) => Fair(z)
    BY <2>3, CallStep
  <2>5. u[s] = u[z] BY <2>3
  <2>. HIDE DEF z
  <2>6. Flooded(z, u[z])
    <3>1. Wrong(z) => Rank(z) \in Bad BY <2>4
    <3>. HIDE DEF Bad
    <3>2. ~Wrong(z) BY <2>1, <2>2, <2>4, <3>1
    <3>. QED BY <2>2, <2>4, <3>2
  <2>7. Flooded(s, u[s]) BY <2>4, <2>5, <2>6 DEF Flooded
  <2>. QED BY <2>2, <2>7
<1>. HIDE DEF Wrong
<1>3. \A s \in Calls : ~Wrong(s) BY <1>1, RankIsNat
<1>. QED BY <1>3 DEF Wrong

\* OpenPoint opens p, and around every point without number that it opens all
\* that can be opened.
LEMMA OpenPointFloods ==
    ASSUME NEW p \in Sweeper!Points
    PROVE  Flooded(<<<<p>>, {}>>, Sweeper!OpenPoint(p))
<1>. DEFINE M == {s \in Calls : s[1] # <<>>}
            f == [s \in M |-> Sweeper!Called(s)]
            v == [s \in Calls |-> s[2]]
            r == [s \in Calls |-> Rank(s)]
            E(u) == [s \in Calls |-> IF s[1] = <<>> THEN s[2] ELSE u[Sweeper!Called(s)]]
<1>1. \A s \in M : /\ Sweeper!Called(s) \in Calls
                   /\ Rank(Sweeper!Called(s)) < Rank(s)
  BY CallStep
<1>3. f \in [M -> Calls] /\ r \in [Calls -> Nat] /\ M \in SUBSET Calls
  BY <1>1, RankIsNat
<1>4. \A s \in M : r[f[s]] < r[s] BY <1>1
<1>5. \E u : CallsItself(u, Calls, M, f, v)
  <2>. HIDE DEF M, f, v, r
  <2>. QED BY <1>3, <1>4, CallsEnd
<1>6. PICK u : u = [s \in Calls |-> IF s \in M THEN u[f[s]] ELSE v[s]]
  BY <1>5 DEF CallsItself
<1>7. \A s \in Calls : (IF s \in M THEN u[f[s]] ELSE v[s])
                       = (IF s[1] = <<>> THEN s[2] ELSE u[Sweeper!Called(s)])
  OBVIOUS
<1>8. u = E(u)
  <2>. HIDE DEF M, f, v
  <2>. QED BY <1>6, <1>7
<1>. DEFINE o == CHOOSE w : w = E(w)
<1>9. o = E(o)
  <2>. HIDE DEF E
  <2>. QED BY <1>8
<1>10. Sweeper!OpenPoint(p) = o[<<<<p>>, {}>>] BY DEF Sweeper!OpenPoint, Calls
<1>11. <<<<p>>, {}>> \in Calls
  <2>1. <<p>> \in Seq(Sweeper!Points) OBVIOUS
  <2>. QED BY <2>1 DEF Calls
<1>12. Fair(<<<<p>>, {}>>) BY DEF Fair
<1>13. \A s \in Calls : o[s] = IF s[1] = <<>> THEN s[2] ELSE o[Sweeper!Called(s)]
  <2>. HIDE DEF o
  <2>. QED BY <1>9
<1>. HIDE DEF o
<1>. QED BY <1>10, <1>11, <1>12, <1>13, CallsFlood

----------------------------------------------------------------------------
\* What is in the map is a point of it or a mine, the mines are marked, and in
\* the first game the points without number have no mine around them.
SweepInv ==
    /\ Sweeper!TypeOK
    /\ IsFiniteSet(mines)
    /\ DOMAIN content \subseteq Sweeper!Points \cup mines
    /\ maps > 0 => Sweeper!Points \subseteq DOMAIN content
    /\ maps = 0 => content = <<>> /\ mines = {}
    /\ \A p \in DOMAIN content : IF p \in mines THEN content[p] = Sweeper!Landmine
                                               ELSE content[p] \in Nat
    /\ \A p \in DOMAIN content : content[p] = 0 /\ maps = 1 =>
           Sweeper!Around(p) \cap mines = {}
    /\ Sweeper!OpenPoints \subseteq Sweeper!Points
    /\ FloodComplete

LEMMA SweepInit == Sweeper!Init => SweepInv
<1>. SUFFICES ASSUME Sweeper!Init PROVE SweepInv
  OBVIOUS
<1>. DEFINE no == <<>>
<1>0. DOMAIN no = {} OBVIOUS
<1>1. /\ mines = {} /\ maxMine = 0 /\ openPoint = 0 /\ maps = 0
      /\ content = no /\ status = no
  BY DEF Sweeper!Init
<1>. HIDE DEF no
<1>2. Sweeper!OpenPoints = {} BY <1>0, <1>1 DEF Sweeper!OpenPoints
<1>3. Sweeper!Cardinality({}) = 0 BY SameCardinality, FS_EmptySet
<1>4. Sweeper!TypeOK
  <2>1. result \in {"", "win", "over"} BY DEF Sweeper!Init
  <2>2. {maxMine, openPoint, maps} \subseteq Nat BY <1>1
  <2>3. DOMAIN content = {} /\ DOMAIN status = {} BY <1>0, <1>1
  <2>4. mines \subseteq DOMAIN content BY <1>1
  <2>. QED BY <2>1, <2>2, <2>3, <2>4 DEF Sweeper!TypeOK
<1>5. FloodComplete BY <1>1, <1>2, <1>3 DEF FloodComplete, Sweeper!FloodComplete
<1>6. content = <<>> BY DEF Sweeper!Init
<1>. QED BY <1>0, <1>1, <1>2, <1>4, <1>5, <1>6, FS_EmptySet DEF SweepInv

\* What the draws of a map hit is finite.
LEMMA DrawnFinite ==
    ASSUME NEW k \in Nat, NEW draws \in Sweeper!Draws(k), NEW g
    PROVE  IsFiniteSet(Sweeper!Drawn(draws, g))
<1>. DEFINE after == Sweeper!Arrays(draws, g)
            T == Sweeper!Drawn(draws, g)
            f == [i \in 1 .. k |-> after[i - 1][draws[i]]]
<1>1. DOMAIN draws = 1 .. k BY DEF Sweeper!Draws
<1>2. T = {after[i - 1][draws[i]] : i \in 1 .. k} BY <1>1 DEF Sweeper!Drawn
<1>3. f \in Surjection(1 .. k, T)
  <2>. HIDE DEF after, T
  <2>. QED BY <1>2 DEF Surjection
<1>4. IsFiniteSet(1 .. k) BY FS_Interval
<1>. HIDE DEF f, T
<1>. QED BY <1>3, <1>4, FS_Surjection DEF T

LEMMA CreateMapStep ==
    ASSUME SweepInv, NEW n \in Mines, NEW g \in Beyond, NEW k \in Nat,
           NEW draws \in Sweeper!Draws(k), Sweeper!CreateMap(k, draws, g)
    PROVE  SweepInv'
<1>. DEFINE P == Sweeper!Points
            ms == mines \cup Sweeper!Drawn(draws, g)
            N(p) == Sweeper!NumberedBy(p, ms)
            was(p) == IF p \in DOMAIN content THEN content[p] ELSE 0
            map == P \cup DOMAIN content
<1>1. /\ maps' = maps + 1 /\ mines' = ms /\ maxMine' = k
      /\ openPoint' = openPoint
      /\ content' = [p \in map \cup ms |->
                        IF p \in ms THEN Sweeper!Landmine
                        ELSE was(p) + Sweeper!Cardinality(N(p))]
      /\ status' = [p \in map \cup ms |->
                       IF p \in DOMAIN status THEN status[p] ELSE "default"]
  BY DEF Sweeper!CreateMap
<1>2. IsFiniteSet(ms) BY DrawnFinite, FS_Union DEF SweepInv
<1>3. \A p : /\ Sweeper!Cardinality(N(p)) \in Nat
             /\ Sweeper!Cardinality(N(p)) = 0 => N(p) = {}
  <2>. SUFFICES ASSUME NEW p
                PROVE  /\ Cardinality(N(p)) \in Nat
                       /\ Cardinality(N(p)) = 0 => N(p) = {}
    BY SameCardinality
  <2>1. N(p) \in SUBSET ms BY DEF Sweeper!NumberedBy
  <2>. HIDE DEF N, ms
  <2>2. IsFiniteSet(N(p)) BY <1>2, <2>1, FS_Subset
  <2>. QED BY <2>2, FS_CardinalityType, FS_EmptySet
<1>. HIDE DEF N, ms
<1>4. DOMAIN content' = map \cup ms /\ DOMAIN status' = map \cup ms BY <1>1
<1>5. mines \subseteq ms BY DEF ms
<1>6. \A p \in DOMAIN content' \ ms : was(p) \in Nat
  BY <1>5 DEF SweepInv
<1>7. \A p \in DOMAIN content' :
          IF p \in ms THEN content'[p] = Sweeper!Landmine
                      ELSE content'[p] \in Nat
  <2>. SUFFICES ASSUME NEW p \in DOMAIN content'
                PROVE  IF p \in ms THEN content'[p] = Sweeper!Landmine
                                  ELSE content'[p] \in Nat
    OBVIOUS
  <2>1. p \notin ms => was(p) \in Nat /\ Sweeper!Cardinality(N(p)) \in Nat
    BY <1>3, <1>6
  <2>2. content'[p] = IF p \in ms THEN Sweeper!Landmine
                      ELSE was(p) + Sweeper!Cardinality(N(p))
    BY <1>1, <1>4
  <2>. HIDE DEF was
  <2>. QED BY <2>1, <2>2
<1>8. maps \in Nat /\ openPoint \in Nat BY DEF SweepInv, Sweeper!TypeOK
<1>9. Sweeper!TypeOK'
  <2>1. \A p \in DOMAIN status' : status'[p] \in {"default", "open", "flag"}
    BY <1>1, <1>4 DEF SweepInv, Sweeper!TypeOK
  <2>2. \A p \in DOMAIN content' : content'[p] \in Int
    BY <1>7 DEF Sweeper!Landmine
  <2>3. {maxMine', openPoint', maps'} \subseteq Nat
    <3>1. maxMine' = k /\ openPoint' = openPoint /\ maps' = maps + 1 BY <1>1
    <3>. QED BY <1>8, <3>1
  <2>4. mines' \subseteq DOMAIN content' /\ DOMAIN content' = DOMAIN status'
    BY <1>1, <1>4
  <2>5. result' = "" BY DEF Sweeper!CreateMap
  <2>. QED BY <2>1, <2>2, <2>3, <2>4, <2>5 DEF Sweeper!TypeOK
<1>10. /\ DOMAIN content' \subseteq P \cup mines'
       /\ P \subseteq DOMAIN content'
  BY <1>1, <1>4, <1>5 DEF SweepInv
<1>11. maps' # 0 /\ maps' > 0 /\ (maps' = 1 => maps = 0) /\ (maps # 0 => maps' > 1)
  <2>1. maps' = maps + 1 BY <1>1
  <2>. QED BY <1>8, <2>1
<1>12. ASSUME NEW p \in DOMAIN content', content'[p] = 0, maps' = 1
       PROVE  Sweeper!Around(p) \cap mines' = {}
  <2>1. p \notin ms BY <1>7, <1>12 DEF Sweeper!Landmine
  <2>2. p \in P BY <1>1, <1>10, <2>1
  <2>3. was(p) = 0 /\ N(p) = {}
    <3>1. content'[p] = was(p) + Sweeper!Cardinality(N(p)) BY <1>1, <1>4, <2>1
    <3>. HIDE DEF was
    <3>. QED BY <1>3, <1>6, <1>12, <2>1, <3>1
  <2>4. ASSUME NEW m \in Sweeper!Around(p), m \in ms PROVE FALSE
    <3>1. p \in Sweeper!Around(m) BY <2>2, AroundInPoints
    <3>. QED BY <2>3, <2>4, <3>1 DEF N, Sweeper!NumberedBy
  <2>. QED BY <1>1, <2>4
<1>13. Sweeper!OpenPoints' = Sweeper!OpenPoints
  <2>1. DOMAIN status \subseteq DOMAIN status' BY <1>4 DEF SweepInv, Sweeper!TypeOK
  <2>. QED BY <1>1, <1>4, <2>1 DEF Sweeper!OpenPoints
<1>14. maps = 0 => Sweeper!OpenPoints = {}
  <2>1. maps = 0 => content = <<>> BY DEF SweepInv
  <2>. DEFINE no == <<>>
  <2>2. DOMAIN no = {} OBVIOUS
  <2>3. maps = 0 => content = no BY <2>1
  <2>. HIDE DEF no
  <2>. QED BY <2>2, <2>3 DEF SweepInv, Sweeper!TypeOK, Sweeper!OpenPoints
<1>15. FloodComplete'
  <2>1. openPoint' = Sweeper!Cardinality(Sweeper!OpenPoints')
    BY <1>1, <1>13 DEF SweepInv, FloodComplete, Sweeper!FloodComplete
  <2>2. Sweeper!OpenPoints' \cap mines' = {} \/ maps' > 1
    BY <1>11, <1>13, <1>14
  <2>3. maps' = 1 => Sweeper!OpenPoints' = {} BY <1>11, <1>13, <1>14
  <2>. QED BY <2>1, <2>2, <2>3 DEF FloodComplete, Sweeper!FloodComplete
<1>. QED BY <1>1, <1>2, <1>7, <1>9, <1>10, <1>11, <1>12, <1>13, <1>15
  DEF SweepInv

LEMMA FlagStep ==
    ASSUME SweepInv, NEW p \in DOMAIN content, Sweeper!Flag(p)
    PROVE  SweepInv'
<1>1. /\ status[p] = "default" /\ status' = [status EXCEPT ![p] = "flag"]
      /\ UNCHANGED <<content, mines, maxMine, openPoint, maps>>
  BY DEF Sweeper!Flag
<1>2. result' \in {"", "win", "over"} BY DEF Sweeper!Flag
<1>3. /\ DOMAIN content = DOMAIN status
      /\ \A q \in DOMAIN status : status[q] \in {"default", "open", "flag"}
  BY DEF SweepInv, Sweeper!TypeOK
<1>4. Sweeper!OpenPoints' = Sweeper!OpenPoints
  BY <1>1, <1>3 DEF Sweeper!OpenPoints
<1>5. /\ DOMAIN status' = DOMAIN status
      /\ \A q \in DOMAIN status : status'[q] \in {"default", "open", "flag"}
      /\ \A q : status[q] \in {"open", "flag"} => status'[q] \in {"open", "flag"}
  BY <1>1, <1>3
<1>6. Sweeper!TypeOK' BY <1>1, <1>2, <1>3, <1>5 DEF SweepInv, Sweeper!TypeOK
<1>7. FloodComplete'
  BY <1>1, <1>4, <1>5 DEF SweepInv, FloodComplete, Sweeper!FloodComplete
<1>. QED BY <1>1, <1>4, <1>6, <1>7 DEF SweepInv

\* What a click that opens something does to the open points.
LEMMA OpenedPoints ==
    ASSUME SweepInv, NEW p \in DOMAIN content, Sweeper!Open(p)
    PROVE  /\ Sweeper!OpenPoint(p) \in SUBSET Sweeper!Points
           /\ Sweeper!OpenPoint(p) \cap mines = {}
           /\ Sweeper!OpenPoints' = Sweeper!OpenPoints \cup Sweeper!OpenPoint(p)
           /\ openPoint' = Cardinality(Sweeper!OpenPoints')
           /\ \A q \in Sweeper!OpenPoint(p) : content[q] = 0 =>
                  \A n \in Sweeper!Around(q) :
                      Sweeper!Opens(n) => n \in Sweeper!OpenPoint(p)
<1>. DEFINE D == Sweeper!OpenPoint(p)
            O == Sweeper!OpenPoints
<1>1. /\ status' = [q \in DOMAIN status |-> IF q \in D THEN "open" ELSE status[q]]
      /\ openPoint' = openPoint + Sweeper!Cardinality(D)
      /\ content[p] # Sweeper!Landmine
  BY DEF Sweeper!Open
<1>2. \A q : Sweeper!Opens(q) => /\ q \in Sweeper!Points \ mines
                                 /\ q \in DOMAIN status /\ q \notin O
  BY DEF SweepInv, Sweeper!TypeOK, Sweeper!Opens, Sweeper!InMap, Sweeper!OpenPoints
<1>3. p \in Sweeper!Points BY <1>1 DEF SweepInv
<1>4. Flooded(<<<<p>>, {}>>, D) BY <1>3, OpenPointFloods
<1>. HIDE DEF D
<1>5. /\ D \in SUBSET Sweeper!Points
      /\ \A q \in D : /\ Sweeper!Opens(q)
                      /\ content[q] = 0 =>
                             \A n \in Sweeper!Around(q) : Sweeper!Opens(n) => n \in D
  BY <1>4 DEF Flooded
<1>6. D \cap mines = {} /\ D \cap O = {} /\ D \subseteq DOMAIN status
  BY <1>2, <1>5
<1>7. Sweeper!OpenPoints' = O \cup D
  BY <1>1, <1>6 DEF Sweeper!OpenPoints
<1>8. O \in SUBSET Sweeper!Points /\ openPoint = Cardinality(O)
  BY SameCardinality DEF SweepInv, FloodComplete, Sweeper!FloodComplete
<1>. HIDE DEF O
<1>9. IsFiniteSet(O) /\ IsFiniteSet(D)
  BY <1>5, <1>8, PointsCounted, FS_Subset
<1>10. Cardinality(O \cup D) = Cardinality(O) + Cardinality(D)
  <2>1. Cardinality(O \cap D) = 0
    <3>1. O \cap D = {} BY <1>6
    <3>. QED BY <3>1, FS_EmptySet
  <2>2. Cardinality(O \cup D) = Cardinality(O) + Cardinality(D) - Cardinality(O \cap D)
    BY <1>9, FS_Union
  <2>3. Cardinality(O) \in Nat /\ Cardinality(D) \in Nat BY <1>9, FS_CardinalityType
  <2>. QED BY <2>1, <2>2, <2>3
<1>11. openPoint' = Cardinality(O \cup D) BY <1>1, <1>8, <1>10, SameCardinality
<1>. QED BY <1>5, <1>6, <1>7, <1>11 DEF D, O

LEMMA OpenStep ==
    ASSUME SweepInv, NEW p \in DOMAIN content, Sweeper!Open(p)
    PROVE  SweepInv'
<1>. DEFINE D == Sweeper!OpenPoint(p)
            O == Sweeper!OpenPoints
<1>1. /\ status' = [q \in DOMAIN status |-> IF q \in D THEN "open" ELSE status[q]]
      /\ UNCHANGED <<content, mines, maxMine, maps>>
  BY DEF Sweeper!Open
<1>2. result' \in {"", "win", "over"} BY DEF Sweeper!Open
<1>3. /\ D \in SUBSET Sweeper!Points /\ D \cap mines = {}
      /\ Sweeper!OpenPoints' = O \cup D
      /\ openPoint' = Cardinality(Sweeper!OpenPoints')
      /\ \A q \in D : content[q] = 0 =>
             \A n \in Sweeper!Around(q) : Sweeper!Opens(n) => n \in D
  BY OpenedPoints
<1>. HIDE DEF D
<1>4. /\ DOMAIN content = DOMAIN status
      /\ \A q \in DOMAIN status : status[q] \in {"default", "open", "flag"}
  BY DEF SweepInv, Sweeper!TypeOK
<1>5. /\ DOMAIN status' = DOMAIN status
      /\ \A q \in DOMAIN status : status'[q] \in {"default", "open", "flag"}
      /\ \A q \in DOMAIN status :
             q \in D \/ status[q] \in {"open", "flag"} => status'[q] \in {"open", "flag"}
  BY <1>1, <1>4
<1>6. openPoint' \in Nat
  <2>1. O \cup D \in SUBSET Sweeper!Points BY <1>3 DEF SweepInv
  <2>2. IsFiniteSet(O \cup D) BY <2>1, PointsCounted, FS_Subset
  <2>. QED BY <1>3, <2>2, FS_CardinalityType
<1>7. Sweeper!TypeOK'
  BY <1>1, <1>2, <1>4, <1>5, <1>6 DEF SweepInv, Sweeper!TypeOK
<1>8. Sweeper!OpenPoints' \cap mines' = {} \/ maps' > 1
  BY <1>1, <1>3 DEF SweepInv, FloodComplete, Sweeper!FloodComplete
<1>9. ASSUME NEW q \in Sweeper!OpenPoints', content[q] = 0, maps = 1,
             NEW n \in Sweeper!Around(q)
      PROVE  status'[n] \in {"open", "flag"}
  <2>1. q \in Sweeper!Points /\ q \in DOMAIN content
    BY <1>3, <1>4, <1>5, <1>9 DEF SweepInv, Sweeper!OpenPoints
  <2>2. n \in Sweeper!Points BY <1>9, <2>1, AroundInPoints
  <2>3. n \in DOMAIN content /\ n \notin mines BY <1>9, <2>1, <2>2 DEF SweepInv
  <2>4. CASE q \in O
    <3>1. status[n] \in {"open", "flag"}
      BY <1>9, <2>4 DEF SweepInv, FloodComplete, Sweeper!FloodComplete
    <3>. QED BY <1>4, <1>5, <2>3, <3>1
  <2>5. CASE q \in D
    <3>1. Sweeper!Opens(n) => n \in D BY <1>3, <1>9, <2>5
    <3>2. content[n] # Sweeper!Landmine
      BY <2>3 DEF SweepInv, Sweeper!Landmine
    <3>3. Sweeper!Opens(n) \/ status[n] \in {"open", "flag"}
      BY <1>4, <2>3, <3>2 DEF Sweeper!Opens, Sweeper!InMap
    <3>. QED BY <1>4, <1>5, <2>3, <3>1, <3>3
  <2>. QED BY <1>3, <1>9, <2>4, <2>5
<1>10. FloodComplete'
  BY <1>1, <1>3, <1>8, <1>9, SameCardinality DEF FloodComplete, Sweeper!FloodComplete
<1>11. Sweeper!OpenPoints' \subseteq Sweeper!Points BY <1>3 DEF SweepInv
<1>. QED BY <1>1, <1>7, <1>10, <1>11 DEF SweepInv

LEMMA SweepStep ==
    ASSUME SweepInv, [Sweeper!Next]_Sweeper!vars
    PROVE  SweepInv'
<1>1. ASSUME UNCHANGED <<content, status, mines, maxMine, openPoint, maps>>,
             result' \in {"", "win", "over"}
      PROVE  SweepInv'
  <2>1. Sweeper!TypeOK' BY <1>1 DEF SweepInv, Sweeper!TypeOK
  <2>2. Sweeper!OpenPoints' = Sweeper!OpenPoints BY <1>1 DEF Sweeper!OpenPoints
  <2>3. FloodComplete'
    BY <1>1, <2>2 DEF SweepInv, FloodComplete, Sweeper!FloodComplete
  <2>. QED BY <1>1, <2>1, <2>2, <2>3 DEF SweepInv
<1>2. CASE UNCHANGED Sweeper!vars
  BY <1>1, <1>2 DEF Sweeper!vars, SweepInv, Sweeper!TypeOK
<1>3. CASE Sweeper!Create
  <2>1. PICK n \in Mines, g \in Beyond :
            LET k == IF n = 0 THEN Sweeper!Cells \div 10 ELSE n
            IN  \E draws \in Sweeper!Draws(k) : Sweeper!CreateMap(k, draws, g)
    BY <1>3 DEF Sweeper!Create
  <2>. DEFINE k == IF n = 0 THEN Sweeper!Cells \div 10 ELSE n
  <2>2. PICK draws \in Sweeper!Draws(k) : Sweeper!CreateMap(k, draws, g) BY <2>1
  <2>3. k \in Nat
    <3>1. n \in Nat BY SweeperAssumption DEF Sweeper!SweeperConstants
    <3>. QED BY <3>1, PointsCounted
  <2>. HIDE DEF k
  <2>. QED BY <2>2, <2>3, CreateMapStep
<1>4. ASSUME NEW p \in DOMAIN content, Sweeper!HitMine(p) PROVE SweepInv'
  BY <1>1, <1>4 DEF Sweeper!HitMine
<1>. QED BY <1>2, <1>3, <1>4, FlagStep, OpenStep DEF Sweeper!Next

\* However the mines were drawn and the points clicked, the points opened
\* without number have everything around them open but for the flags, and the
\* number of open points is kept.
THEOREM FloodStaysComplete == Sweeper!Spec => []FloodComplete
<1>1. Sweeper!Init => SweepInv BY SweepInit
<1>2. SweepInv /\ [Sweeper!Next]_Sweeper!vars => SweepInv' BY SweepStep
<1>3. SweepInv => FloodComplete BY DEF SweepInv
<1>. QED BY <1>1, <1>2, <1>3, PTL DEF Sweeper!Spec

LEMMA WinStep ==
    ASSUME SweepInv, SweepInv', [Sweeper!Next]_Sweeper!vars
    PROVE  Sweeper!WinIfAllOpen
<1>. DEFINE P == Sweeper!Points
            O == Sweeper!OpenPoints
            S == mines \cap P
<1>. SUFFICES ASSUME openPoint' # openPoint, maps = 1,
                     Sweeper!Cardinality(mines \cap Sweeper!Points) = maxMine
              PROVE  result' = "win" <=> O' = P \ mines
  BY DEF Sweeper!WinIfAllOpen
<1>1. PICK p \in DOMAIN content : Sweeper!Open(p)
  BY DEF Sweeper!Next, Sweeper!vars, Sweeper!Create, Sweeper!CreateMap,
         Sweeper!Flag, Sweeper!HitMine
<1>2. openPoint' = Cardinality(O') /\ O' = O \cup Sweeper!OpenPoint(p)
      /\ Sweeper!OpenPoint(p) \cap mines = {}
  BY <1>1, OpenedPoints
<1>3. O' \in SUBSET (P \ mines)
  <2>1. O' \subseteq P BY DEF SweepInv
  <2>2. O \cap mines = {} BY DEF SweepInv, FloodComplete, Sweeper!FloodComplete
  <2>. QED BY <1>2, <2>1, <2>2
<1>4. result' = "win" <=> openPoint' >= Sweeper!Cells - maxMine
  BY <1>1 DEF Sweeper!Open, Sweeper!Won
<1>. HIDE DEF O
<1>5. IsFiniteSet(P) /\ Cardinality(P) = Sweeper!Cells /\ Sweeper!Cells \in Nat
  BY PointsCounted
<1>6. P \cap mines = S OBVIOUS
<1>. HIDE DEF P
<1>7. IsFiniteSet(P \ mines) /\ Cardinality(P \ mines) = Sweeper!Cells - Cardinality(S)
  BY <1>5, <1>6, FS_Difference
<1>8. Cardinality(S) = maxMine BY SameCardinality DEF P
<1>. HIDE DEF S
<1>9. IsFiniteSet(O') /\ Cardinality(O') <= Cardinality(P \ mines)
      /\ (Cardinality(P \ mines) = Cardinality(O') => P \ mines = O')
  BY <1>3, <1>7, FS_Subset
<1>10. Cardinality(O') \in Nat /\ Cardinality(P \ mines) \in Nat
  BY <1>7, <1>9, FS_CardinalityType
<1>11. result' = "win" <=> Cardinality(O') >= Cardinality(P \ mines)
  BY <1>2, <1>4, <1>7, <1>8
<1>12. Cardinality(O') >= Cardinality(P \ mines) <=> O' = P \ mines
  BY <1>9, <1>10
<1>. QED BY <1>11, <1>12 DEF O, P

\* In the first game, with as many mines on the map as were asked for, a click
\* that opens something wins exactly if nothing but mines is left.
THEOREM WinsRight == Sweeper!Spec => WinsWithLastPoint
<1>1. Sweeper!Init => SweepInv BY SweepInit
<1>2. SweepInv /\ [Sweeper!Next]_Sweeper!vars => SweepInv' BY SweepStep
<1>3. SweepInv /\ SweepInv' /\ [Sweeper!Next]_Sweeper!vars
          => [Sweeper!WinIfAllOpen]_Sweeper!vars
  BY WinStep
<1>. QED BY <1>1, <1>2, <1>3, PTL
  DEF Sweeper!Spec, WinsWithLastPoint, Sweeper!WinsWithLastPoint
=============================================================================
