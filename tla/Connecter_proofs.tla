-------------------------- MODULE Connecter_proofs --------------------------
(***************************************************************************)
(* Proofs about Connecter and the two Buffers below it, for every size of  *)
(* a node, number of areas, room of the socket and number of bytes.        *)
(***************************************************************************)
EXTENDS Connecter, FiniteSetTheorems, SequenceTheorems, TLAPS

----------------------------------------------------------------------------
(* Loops.  A loop over the states S goes on with g where it is in G and    *)
(* returns v where it is not.                                              *)

LessPairs == {p \in Nat \X Nat : p[1] < p[2]}

\* A set of naturals has a least element.
LEMMA Smallest ==
    ASSUME NEW S \in SUBSET Nat, S # {}
    PROVE  \E n \in S : \A m \in S : n <= m
<1>1. IsWellFoundedOn(LessPairs, Nat) BY NatLessThanWellFounded DEF OpToRel, LessPairs
<1>2. PICK n \in S : \A m \in S : ~(<<m, n>> \in LessPairs) BY <1>1, WFMin
<1>3. \A m \in S : ~(m < n) BY <1>2 DEF LessPairs
<1>. QED BY <1>3

IsLoop(f, S, G, g, v) == f = [x \in S |-> IF x \in G THEN f[g[x]] ELSE v[x]]

\* A loop is a function whether it ends or not: x leads to the states outside
\* of G that no set closed under g can do without.
LEMMA LoopExists ==
    ASSUME NEW S, NEW G, NEW g, NEW v, \A x \in S : x \in G => g[x] \in S
    PROVE  \E f : IsLoop(f, S, G, g, v)
<1>. DEFINE Around(x) == {T \in SUBSET S : x \in T /\ \A y \in T : y \in G => g[y] \in T}
            Ends(x) == {d \in S \ G : \A T \in Around(x) : d \in T}
            First(E) == v[CHOOSE d : d \in E]
            f == [x \in S |-> First(Ends(x))]
<1>1. ASSUME NEW x \in S, x \notin G PROVE f[x] = v[x]
  <2>1. {x} \in Around(x) BY <1>1
  <2>2. Ends(x) = {x} BY <1>1, <2>1
  <2>. QED BY <2>2
<1>2. ASSUME NEW x \in S, x \in G PROVE f[x] = f[g[x]]
  <2>1. g[x] \in S BY <1>2
  <2>2. ASSUME NEW d \in Ends(g[x]) PROVE d \in Ends(x)
    <3>1. ASSUME NEW T \in Around(x) PROVE T \in Around(g[x]) BY <1>2, <3>1
    <3>. QED BY <2>2, <3>1
  <2>3. ASSUME NEW d \in Ends(x) PROVE d \in Ends(g[x])
    <3>1. ASSUME NEW T \in Around(g[x]) PROVE T \cup {x} \in Around(x)
      BY <1>2, <3>1
    <3>. QED BY <1>2, <2>3, <3>1
  <2>4. Ends(x) = Ends(g[x]) BY <2>2, <2>3
  <2>5. First(Ends(x)) = First(Ends(g[x]))
    <3>. HIDE DEF Ends, First
    <3>. QED BY <2>4
  <2>. HIDE DEF First, Ends
  <2>. QED BY <2>1, <2>5
<1>3. f = [x \in S |-> f[x]] OBVIOUS
<1>. HIDE DEF f
<1>4. f = [x \in S |-> IF x \in G THEN f[g[x]] ELSE v[x]] BY <1>1, <1>2, <1>3
<1>. QED BY <1>4 DEF IsLoop

\* What a turn keeps the loop returns, if each turn lowers r1, or leaves it
\* and lowers r2.
Lower(r1, r2, y, x) == r1[y] < r1[x] \/ (r1[y] = r1[x] /\ r2[y] < r2[x])

LEMMA LoopKeeps ==
    ASSUME NEW S, NEW G, NEW g, NEW v, NEW f, IsLoop(f, S, G, g, v),
           NEW I \in SUBSET S, NEW r1 \in [I -> Nat], NEW r2 \in [I -> Nat],
           \A x \in I : x \in G => g[x] \in I /\ Lower(r1, r2, g[x], x)
    PROVE  \A x \in I : \E y \in I \ G : f[x] = v[y]
<1>. DEFINE Bad == {x \in I : ~\E y \in I \ G : f[x] = v[y]}
<1>1. ASSUME NEW x \in Bad
      PROVE  /\ g[x] \in Bad
             /\ r1[g[x]] < r1[x] \/ (r1[g[x]] = r1[x] /\ r2[g[x]] < r2[x])
  <2>1. x \in G BY <1>1 DEF IsLoop
  <2>2. f[x] = f[g[x]] BY <2>1 DEF IsLoop
  <2>. QED BY <2>1, <2>2 DEF Lower
<1>. HIDE DEF Bad
<1>2. Bad \in SUBSET I BY DEF Bad
<1>3. ASSUME Bad # {} PROVE FALSE
  <2>1. {r1[x] : x \in Bad} \in SUBSET Nat /\ {r1[x] : x \in Bad} # {} BY <1>2, <1>3
  <2>2. PICK m \in {r1[x] : x \in Bad} : \A n \in {r1[x] : x \in Bad} : m <= n
    BY <2>1, Smallest
  <2>. DEFINE Low == {x \in Bad : r1[x] = m}
  <2>3. {r2[x] : x \in Low} \in SUBSET Nat /\ {r2[x] : x \in Low} # {} BY <1>2, <2>2
  <2>4. PICK k \in {r2[x] : x \in Low} : \A n \in {r2[x] : x \in Low} : k <= n
    BY <2>3, Smallest
  <2>5. PICK x \in Low : r2[x] = k BY <2>4
  <2>6. /\ x \in Bad /\ r1[x] = m /\ g[x] \in Bad
        /\ r1[g[x]] < r1[x] \/ (r1[g[x]] = r1[x] /\ r2[g[x]] < r2[x])
    BY <1>1, <2>5
  <2>7. {r1[x], r1[g[x]], r2[x], r2[g[x]]} \subseteq Nat BY <1>2, <2>6
  <2>8. m <= r1[g[x]] BY <2>2, <2>6
  <2>9. g[x] \in Low /\ r2[g[x]] < r2[x] BY <2>6, <2>7, <2>8
  <2>10. k <= r2[g[x]] BY <2>4, <2>9
  <2>. QED BY <2>5, <2>7, <2>9, <2>10
<1>. QED BY <1>3 DEF Bad, IsLoop

----------------------------------------------------------------------------
(* The turns of the loops of Buffer stay among the states of their loop.   *)

LEMMA Sizes == Cap \in Nat \ {0} /\ MaxIov \in Nat \ {0}
BY BufferAssumption

\* The smaller of two numbers.
LEMMA LesserOf ==
    ASSUME NEW m \in Nat, NEW n \in Nat
    PROVE  /\ Lesser(m, n) \in Nat /\ Lesser(m, n) <= m /\ Lesser(m, n) <= n
           /\ Lesser(m, n) \in {m, n}
BY DEF Lesser

\* What a node is made of.
LEMMA NodeParts ==
    ASSUME NEW nd \in Nodes
    PROVE  /\ nd.use \in 0 .. Cap /\ nd.rc \in Nat /\ Room(nd) \in 0 .. Cap
           /\ nd.cell \in [1 .. Cap -> Nat]
BY Sizes DEF Nodes, Room

\* What a ring is made of.
LEMMA RingParts ==
    ASSUME NEW b \in Rings
    PROVE  /\ b \in Buffers /\ b.nodes \in Seq(Nodes) /\ Len(b.nodes) \in Nat \ {0}
           /\ DOMAIN b.nodes = 1 .. Len(b.nodes)
           /\ b.w \in 1 .. Len(b.nodes) /\ b.r \in 1 .. Len(b.nodes) /\ b.size \in Nat
           /\ \A i \in 1 .. Len(b.nodes) :
                 /\ b.nodes[i] \in Nodes /\ b.nodes[i].use \in 0 .. Cap
                 /\ b.nodes[i].rc \in Nat /\ Room(b.nodes[i]) \in 0 .. Cap
                 /\ b.nodes[i].cell \in [1 .. Cap -> Nat]
                 /\ After(b, i) \in 1 .. Len(b.nodes)
<1>. USE Sizes DEF Rings, Buffers
<1>1. b.nodes \in Seq(Nodes) /\ b.nodes # <<>> OBVIOUS
<1>2. Len(b.nodes) \in Nat \ {0} /\ DOMAIN b.nodes = 1 .. Len(b.nodes) BY <1>1
<1>3. \A i \in 1 .. Len(b.nodes) : b.nodes[i] \in Nodes BY <1>1
<1>4. b.w \in 1 .. Len(b.nodes) /\ b.r \in 1 .. Len(b.nodes) /\ b.size \in Nat
  BY <1>1, <1>2
<1>5. \A i \in 1 .. Len(b.nodes) : After(b, i) \in 1 .. Len(b.nodes)
  BY <1>2 DEF After
<1>. QED BY <1>1, <1>2, <1>3, <1>4, <1>5, NodeParts

\* Nodes, two positions in them and a size make a ring.
LEMMA RingFrom ==
    ASSUME NEW q \in Seq(Nodes), NEW w \in DOMAIN q, NEW r \in DOMAIN q, NEW n \in Nat,
           NEW b, b = [nodes |-> q, w |-> w, r |-> r, size |-> n]
    PROVE  b \in Rings /\ b.nodes = q /\ b.w = w /\ b.r = r /\ b.size = n
<1>1. q # <<>> /\ w \in Nat /\ r \in Nat OBVIOUS
<1>. QED BY <1>1 DEF Rings, Buffers

\* What InsertAt does to a sequence, place by place.
LEMMA InsertedAt ==
    ASSUME NEW S, NEW q \in Seq(S), NEW i \in 1 .. Len(q) + 1, NEW e \in S
    PROVE  /\ InsertAt(q, i, e) \in Seq(S) /\ Len(InsertAt(q, i, e)) = Len(q) + 1
           /\ DOMAIN InsertAt(q, i, e) = 1 .. Len(q) + 1
           /\ \A j \in 1 .. Len(q) + 1 :
                 InsertAt(q, i, e)[j] = IF j < i THEN q[j]
                                        ELSE IF j = i THEN e ELSE q[j - 1]
<1>. DEFINE a == SubSeq(q, 1, i - 1)
            c == SubSeq(q, i, Len(q))
<1>1. /\ a \in Seq(S) /\ Len(a) = i - 1 /\ \A j \in 1 .. i - 1 : a[j] = q[j]
      /\ c \in Seq(S) /\ Len(c) = Len(q) - i + 1
      /\ \A j \in 1 .. Len(q) - i + 1 : c[j] = q[i + j - 1]
  OBVIOUS
<1>. HIDE DEF a, c
<1>2. InsertAt(q, i, e) = a \o <<e>> \o c BY DEF InsertAt, a, c
<1>. DEFINE d == a \o <<e>>
<1>3. /\ d \in Seq(S) /\ Len(d) = i /\ d[i] = e /\ \A j \in 1 .. i - 1 : d[j] = q[j]
  <2>1. <<e>> \in Seq(S) /\ Len(<<e>>) = 1 /\ <<e>>[1] = e OBVIOUS
  <2>2. /\ d \in Seq(S) /\ Len(d) = Len(a) + 1
        /\ \A j \in 1 .. Len(a) + 1 :
              d[j] = IF j <= Len(a) THEN a[j] ELSE <<e>>[j - Len(a)]
    BY <1>1, <2>1, ConcatProperties
  <2>3. i \in 1 .. Len(a) + 1 /\ ~(i <= Len(a)) /\ i - Len(a) = 1 BY <1>1
  <2>. HIDE DEF d
  <2>4. d[i] = e BY <2>1, <2>2, <2>3
  <2>5. \A j \in 1 .. i - 1 : d[j] = q[j] BY <1>1, <2>2
  <2>. QED BY <1>1, <2>2, <2>4, <2>5
<1>. HIDE DEF d
<1>4. /\ d \o c \in Seq(S) /\ Len(d \o c) = Len(q) + 1
      /\ \A j \in 1 .. i : (d \o c)[j] = d[j]
      /\ \A j \in i + 1 .. Len(q) + 1 : (d \o c)[j] = c[j - i]
  <2>1. PICK y : y = d \o c OBVIOUS
  <2>2. /\ y \in Seq(S) /\ Len(y) = Len(d) + Len(c)
        /\ \A j \in 1 .. Len(d) + Len(c) :
              y[j] = IF j <= Len(d) THEN d[j] ELSE c[j - Len(d)]
    BY <1>1, <1>3, <2>1, ConcatProperties, ZenonT(60)
  <2>3. Len(d) = i /\ Len(d) + Len(c) = Len(q) + 1 BY <1>1, <1>3
  <2>4. \A j \in 1 .. i : y[j] = d[j] BY <2>2, <2>3
  <2>5. \A j \in i + 1 .. Len(q) + 1 : y[j] = c[j - i] BY <2>2, <2>3
  <2>. QED BY <2>1, <2>2, <2>3, <2>4, <2>5
<1>5. \A j \in i + 1 .. Len(q) + 1 : c[j - i] = q[j - 1]
  <2>. TAKE j \in i + 1 .. Len(q) + 1
  <2>1. j - i \in 1 .. Len(q) - i + 1 /\ i + (j - i) - 1 = j - 1 OBVIOUS
  <2>. QED BY <1>1, <2>1
<1>6. InsertAt(q, i, e) = d \o c BY <1>2 DEF d
<1>7. DOMAIN (d \o c) = 1 .. Len(q) + 1 BY <1>4
<1>. QED BY <1>3, <1>4, <1>5, <1>6, <1>7

\* The same, for one place among nodes.
LEMMA InsertedNode ==
    ASSUME NEW q \in Seq(Nodes), NEW i \in 1 .. Len(q) + 1, NEW e \in Nodes,
           NEW j \in 1 .. Len(q) + 1, NEW x, x = InsertAt(q, i, e)[j]
    PROVE  x = IF j < i THEN q[j] ELSE IF j = i THEN e ELSE q[j - 1]
BY InsertedAt

\* Stored bytes that fit leave a node with that many more.
LEMMA StoreType ==
    ASSUME NEW nd \in Nodes, NEW bytes \in Seq(Nat), Len(bytes) <= Room(nd)
    PROVE  /\ Store(nd, bytes) \in Nodes
           /\ Store(nd, bytes).use = nd.use + Len(bytes)
           /\ Store(nd, bytes).rc = nd.rc
           /\ \A i \in 1 .. Cap :
                 Store(nd, bytes).cell[i] = IF i - nd.use \in 1 .. Len(bytes)
                                            THEN bytes[i - nd.use] ELSE nd.cell[i]
<1>1. /\ nd.use \in 0 .. Cap /\ nd.rc \in Nat /\ nd.cell \in [1 .. Cap -> Nat]
      /\ nd = [cell |-> nd.cell, rc |-> nd.rc, use |-> nd.use]
  BY DEF Nodes
<1>2. Len(bytes) \in Nat /\ DOMAIN bytes = 1 .. Len(bytes) OBVIOUS
<1>3. PICK cs : cs = [i \in 1 .. Cap |-> IF i - nd.use \in DOMAIN bytes
                                         THEN bytes[i - nd.use] ELSE nd.cell[i]]
  OBVIOUS
<1>4. Store(nd, bytes) = [cell |-> cs, rc |-> nd.rc, use |-> nd.use + Len(bytes)]
  <2>1. Store(nd, bytes) = [nd EXCEPT !.cell = cs, !.use = @ + Len(bytes)]
    BY <1>3 DEF Store
  <2>. QED BY <1>1, <2>1
<1>5. cs \in [1 .. Cap -> Nat]
  <2>1. ASSUME NEW i \in 1 .. Cap PROVE cs[i] \in Nat
    <3>1. CASE i - nd.use \in DOMAIN bytes
      <4>1. bytes[i - nd.use] \in Nat BY <3>1
      <4>. QED BY <1>3, <3>1, <4>1
    <3>2. CASE i - nd.use \notin DOMAIN bytes BY <1>1, <1>3, <3>2
    <3>. QED BY <3>1, <3>2
  <2>. QED BY <1>3, <2>1
<1>6. nd.use + Len(bytes) \in 0 .. Cap BY <1>1, <1>2, Sizes DEF Room
<1>. QED BY <1>1, <1>2, <1>3, <1>4, <1>5, <1>6 DEF Nodes

\* Consumed bytes leave a node with that many fewer.
LEMMA ConsumeType ==
    ASSUME NEW nd \in Nodes, NEW n \in 0 .. nd.use
    PROVE  /\ Consume(nd, n) \in Nodes
           /\ Consume(nd, n).use = nd.use - n
           /\ Consume(nd, n).rc = IF nd.use = n THEN 0 ELSE nd.rc + n
           /\ Consume(nd, n).cell = nd.cell
<1>1. /\ nd.use \in 0 .. Cap /\ nd.rc \in Nat /\ nd.cell \in [1 .. Cap -> Nat]
      /\ nd = [cell |-> nd.cell, rc |-> nd.rc, use |-> nd.use]
  BY DEF Nodes
<1>2. PICK c : c = IF nd.use = n THEN 0 ELSE nd.rc + n OBVIOUS
<1>3. Consume(nd, n) = [cell |-> nd.cell, rc |-> c, use |-> nd.use - n]
  <2>1. Consume(nd, n) = [nd EXCEPT !.use = @ - n, !.rc = c] BY <1>2 DEF Consume
  <2>. QED BY <1>1, <2>1
<1>4. c \in Nat /\ nd.use - n \in 0 .. Cap BY <1>1, <1>2, Sizes
<1>. QED BY <1>1, <1>2, <1>3, <1>4 DEF Nodes

\* The node that takes over what has wrapped round.
LEMMA MovedType ==
    ASSUME NEW nd \in Nodes, NEW n \in 0 .. Cap
    PROVE  Moved(nd, n) \in Nodes /\ Moved(nd, n).use = n /\ Moved(nd, n).rc = 0
BY Sizes DEF Moved, EmptyNode, Nodes

LEMMA EmptyNodeType == EmptyNode \in Nodes /\ EmptyNode.use = 0 /\ EmptyNode.rc = 0
BY Sizes DEF EmptyNode, Nodes

\* A sequence of nodes in which one was exchanged.
LEMMA NodeChanged ==
    ASSUME NEW b \in Rings, NEW i \in 1 .. Len(b.nodes), NEW nd \in Nodes
    PROVE  /\ [b.nodes EXCEPT ![i] = nd] \in Seq(Nodes)
           /\ Len([b.nodes EXCEPT ![i] = nd]) = Len(b.nodes)
           /\ \A j \in 1 .. Len(b.nodes) :
                 [b.nodes EXCEPT ![i] = nd][j] = IF j = i THEN nd ELSE b.nodes[j]
BY RingParts, SMTT(60)

\* The three branches of Expand.
LEMMA ExpandEmpty ==
    ASSUME NEW b \in Buffers, b.nodes = <<>>
    PROVE  Expand(b) = [nodes |-> <<EmptyNode>>, w |-> 1, r |-> 1, size |-> b.size]
BY DEF Expand, Buffers

LEMMA ExpandBefore ==
    ASSUME NEW b \in Rings, b.w = b.r, b.nodes[b.w].use > 0,
           NEW n, n = Wrapped(b.nodes[b.w]),
           NEW nd, nd = [b.nodes[b.w] EXCEPT !.use = @ - n]
    PROVE  /\ Expand(b) = [nodes |-> InsertAt([b.nodes EXCEPT ![b.w] = nd], b.w,
                                              Moved(b.nodes[b.w], n)),
                           w |-> b.w, r |-> b.r + 1, size |-> b.size]
           /\ n \in 0 .. b.nodes[b.w].use /\ nd \in Nodes
           /\ nd.use = b.nodes[b.w].use - n /\ nd.rc = b.nodes[b.w].rc
           /\ nd.cell = b.nodes[b.w].cell
<1>1. b.nodes[b.w] \in Nodes /\ b.nodes # <<>> /\ b \in Buffers
  BY RingParts DEF Rings
<1>2. n \in 0 .. b.nodes[b.w].use
  <2>. DEFINE old == b.nodes[b.w]
  <2>1. old.use \in 0 .. Cap /\ old.rc \in Nat /\ Cap \in Nat BY <1>1, NodeParts, Sizes
  <2>2. n = Wrapped(old) OBVIOUS
  <2>. HIDE DEF old
  <2>3. n \in 0 .. old.use BY <2>1, <2>2 DEF Wrapped
  <2>. QED BY <2>3 DEF old
<1>3. /\ nd \in Nodes /\ nd.use = b.nodes[b.w].use - n /\ nd.rc = b.nodes[b.w].rc
      /\ nd.cell = b.nodes[b.w].cell
  <2>. DEFINE old == b.nodes[b.w]
  <2>1. old \in Nodes /\ n \in 0 .. old.use /\ nd = [old EXCEPT !.use = @ - n]
    BY <1>1, <1>2
  <2>. HIDE DEF old
  <2>2. nd.use = old.use - n /\ nd.rc = old.rc /\ nd.cell = old.cell /\ nd \in Nodes
    BY <2>1, Sizes DEF Nodes
  <2>. QED BY <2>2 DEF old
<1>4. PICK q : q = [b.nodes EXCEPT ![b.w] = nd] OBVIOUS
<1>5. [b.nodes EXCEPT ![b.w].use = @ - n] = q BY <1>4
<1>6. PICK m : m = InsertAt(q, b.w, Moved(b.nodes[b.w], n)) OBVIOUS
<1>7. Expand(b) = [b EXCEPT !.nodes = m, !.r = @ + 1]
  <2>1. Split(b) = m BY <1>5, <1>6 DEF Split
  <2>2. Expand(b) = [b EXCEPT !.nodes = Split(b), !.r = @ + 1] BY <1>1 DEF Expand
  <2>. QED BY <2>1, <2>2
<1>8. Expand(b) = [nodes |-> m, w |-> b.w, r |-> b.r + 1, size |-> b.size]
  BY <1>1, <1>7 DEF Buffers
<1>. QED BY <1>2, <1>3, <1>4, <1>6, <1>8

LEMMA ExpandBehind ==
    ASSUME NEW b \in Rings, ~(b.w = b.r /\ b.nodes[b.w].use > 0)
    PROVE  Expand(b) = [nodes |-> InsertAt(b.nodes, b.w + 1, EmptyNode), w |-> b.w,
                        r |-> IF b.r > b.w THEN b.r + 1 ELSE b.r, size |-> b.size]
<1>1. b.nodes # <<>> /\ b \in Buffers BY DEF Rings
<1>2. PICK m : m = InsertAt(b.nodes, b.w + 1, EmptyNode) OBVIOUS
<1>3. Expand(b) = [b EXCEPT !.nodes = m, !.r = IF @ > b.w THEN @ + 1 ELSE @]
  BY <1>1, <1>2 DEF Expand
<1>. QED BY <1>1, <1>2, <1>3 DEF Buffers

\* Expand adds one node and leaves m_useSize.
LEMMA ExpandType ==
    ASSUME NEW b \in Buffers
    PROVE  /\ Expand(b) \in Rings /\ Len(Expand(b).nodes) = Len(b.nodes) + 1
           /\ Expand(b).size = b.size
<1>1. CASE b.nodes = <<>>
  <2>1. <<EmptyNode>> \in Seq(Nodes) /\ DOMAIN <<EmptyNode>> = 1 .. 1 BY EmptyNodeType
  <2>2. b.size \in Nat BY DEF Buffers
  <2>3. 1 \in DOMAIN <<EmptyNode>> /\ Len(<<EmptyNode>>) = 1 BY <2>1
  <2>4. Expand(b) = [nodes |-> <<EmptyNode>>, w |-> 1, r |-> 1, size |-> b.size]
    BY <1>1, ExpandEmpty
  <2>5. PICK x, q : x = Expand(b) /\ q = <<EmptyNode>> OBVIOUS
  <2>6. x \in Rings /\ x.nodes = q /\ x.size = b.size
    <3>1. q \in Seq(Nodes) /\ 1 \in DOMAIN q BY <2>1, <2>3, <2>5
    <3>2. x = [nodes |-> q, w |-> 1, r |-> 1, size |-> b.size] BY <2>4, <2>5
    <3>. QED BY <2>2, <3>1, <3>2, RingFrom
  <2>. QED BY <1>1, <2>3, <2>5, <2>6
<1>2. CASE b \in Rings /\ b.w = b.r /\ b.nodes[b.w].use > 0
  <2>1. PICK n : n = Wrapped(b.nodes[b.w]) OBVIOUS
  <2>2. PICK nd : nd = [b.nodes[b.w] EXCEPT !.use = @ - n] OBVIOUS
  <2>3. PICK q : q = [b.nodes EXCEPT ![b.w] = nd] OBVIOUS
  <2>4. PICK e : e = Moved(b.nodes[b.w], n) OBVIOUS
  <2>5. /\ Expand(b) = [nodes |-> InsertAt(q, b.w, e), w |-> b.w, r |-> b.r + 1,
                        size |-> b.size]
        /\ n \in 0 .. b.nodes[b.w].use /\ nd \in Nodes
    BY <1>2, <2>1, <2>2, <2>3, <2>4, ExpandBefore
  <2>6. q \in Seq(Nodes) /\ Len(q) = Len(b.nodes) BY <1>2, <2>3, <2>5, NodeChanged, RingParts
  <2>7. e \in Nodes
    <3>1. b.nodes[b.w] \in Nodes /\ b.nodes[b.w].use \in 0 .. Cap BY <1>2, RingParts
    <3>2. n \in 0 .. Cap BY <2>5, <3>1, Sizes
    <3>. QED BY <2>4, <3>1, <3>2, MovedType
  <2>8. b.w \in 1 .. Len(q) + 1 /\ b.w \in 1 .. Len(b.nodes) /\ Len(b.nodes) \in Nat
    BY <1>2, <2>6, RingParts
  <2>9. /\ InsertAt(q, b.w, e) \in Seq(Nodes) /\ Len(InsertAt(q, b.w, e)) = Len(q) + 1
        /\ DOMAIN InsertAt(q, b.w, e) = 1 .. Len(q) + 1
    BY <2>6, <2>7, <2>8, InsertedAt
  <2>10. b.w \in 1 .. Len(q) + 1 /\ b.r + 1 \in 1 .. Len(q) + 1 /\ b.size \in Nat
    BY <1>2, <2>6, <2>8, RingParts, SMTT(60)
  <2>11. PICK x, m : x = Expand(b) /\ m = InsertAt(q, b.w, e) OBVIOUS
  <2>12. x \in Rings /\ x.nodes = m /\ x.size = b.size
    <3>1. m \in Seq(Nodes) /\ b.w \in DOMAIN m /\ b.r + 1 \in DOMAIN m
      BY <2>9, <2>10, <2>11
    <3>2. x = [nodes |-> m, w |-> b.w, r |-> b.r + 1, size |-> b.size] BY <2>5, <2>11
    <3>. QED BY <2>10, <3>1, <3>2, RingFrom
  <2>. QED BY <2>6, <2>9, <2>11, <2>12
<1>3. CASE b \in Rings /\ ~(b.w = b.r /\ b.nodes[b.w].use > 0)
  <2>1. PICK m : m = InsertAt(b.nodes, b.w + 1, EmptyNode) OBVIOUS
  <2>2. PICK r : r = IF b.r > b.w THEN b.r + 1 ELSE b.r OBVIOUS
  <2>3. Expand(b) = [nodes |-> m, w |-> b.w, r |-> r, size |-> b.size]
    BY <1>3, <2>1, <2>2, ExpandBehind
  <2>4. b.w + 1 \in 1 .. Len(b.nodes) + 1 /\ b.nodes \in Seq(Nodes)
    BY <1>3, RingParts, SMTT(60)
  <2>5. m \in Seq(Nodes) /\ Len(m) = Len(b.nodes) + 1 /\ DOMAIN m = 1 .. Len(b.nodes) + 1
    BY <2>1, <2>4, EmptyNodeType, InsertedAt
  <2>6. b.w \in 1 .. Len(b.nodes) + 1 /\ r \in 1 .. Len(b.nodes) + 1 /\ b.size \in Nat
    BY <1>3, <2>2, RingParts, SMTT(60)
  <2>7. PICK x : x = Expand(b) OBVIOUS
  <2>8. x \in Rings /\ x.nodes = m /\ x.size = b.size
    <3>1. m \in Seq(Nodes) /\ b.w \in DOMAIN m /\ r \in DOMAIN m BY <2>5, <2>6
    <3>2. x = [nodes |-> m, w |-> b.w, r |-> r, size |-> b.size] BY <2>3, <2>7
    <3>. QED BY <2>6, <3>1, <3>2, RingFrom
  <2>. QED BY <2>5, <2>7, <2>8
<1>. QED BY <1>1, <1>2, <1>3 DEF Rings

\* What is cut out of a sequence of bytes.
LEMMA SubSeqOf ==
    ASSUME NEW S, NEW q \in Seq(S), NEW i \in Nat \ {0}, NEW j \in Nat,
           i <= j + 1, j <= Len(q)
    PROVE  /\ SubSeq(q, i, j) \in Seq(S) /\ Len(SubSeq(q, i, j)) = j - i + 1
           /\ \A m \in 1 .. j - i + 1 : SubSeq(q, i, j)[m] = q[i + m - 1]
OBVIOUS

\* The node t of a ring becomes nd; the positions and the size may change.
Becomes(c, d, t, nd) ==
    /\ d \in Rings /\ Len(d.nodes) = Len(c.nodes)
    /\ \A j \in 1 .. Len(c.nodes) : d.nodes[j] = IF j = t THEN nd ELSE c.nodes[j]

\* A ring in which one node was exchanged.
LEMMA RingChanged ==
    ASSUME NEW c \in Rings, NEW t \in 1 .. Len(c.nodes), NEW nd \in Nodes,
           NEW w \in 1 .. Len(c.nodes), NEW r \in 1 .. Len(c.nodes), NEW n \in Nat,
           NEW d, d = [nodes |-> [c.nodes EXCEPT ![t] = nd], w |-> w, r |-> r, size |-> n]
    PROVE  Becomes(c, d, t, nd) /\ d.w = w /\ d.r = r /\ d.size = n
<1>1. PICK q : q = [c.nodes EXCEPT ![t] = nd] OBVIOUS
<1>2. /\ q \in Seq(Nodes) /\ Len(q) = Len(c.nodes)
      /\ \A j \in 1 .. Len(c.nodes) : q[j] = IF j = t THEN nd ELSE c.nodes[j]
  BY <1>1, NodeChanged
<1>3. w \in DOMAIN q /\ r \in DOMAIN q BY <1>2
<1>4. d = [nodes |-> q, w |-> w, r |-> r, size |-> n] BY <1>1
<1>5. d \in Rings /\ d.nodes = q /\ d.w = w /\ d.r = r /\ d.size = n
  BY <1>2, <1>3, <1>4, RingFrom, SMTT(60)
<1>. QED BY <1>2, <1>5 DEF Becomes

\* A write starts in a node of the ring.
LEMMA TargetOf ==
    ASSUME NEW c \in Rings
    PROVE  Target(c) \in 1 .. Len(c.nodes)
BY RingParts DEF Target

\* A turn of WriteBuffer: one node gets some of the bytes.
LEMMA FillTurnIs ==
    ASSUME NEW c \in Rings, NEW bytes \in Seq(Nat), NEW goal \in Nat,
           c.size <= goal, goal - c.size <= Len(bytes)
    PROVE  \E t \in 1 .. Len(c.nodes), n \in Nat, nd \in Nodes :
              /\ t = Target(c) /\ n = Lesser(goal - c.size, Room(c.nodes[t]))
              /\ n <= Room(c.nodes[t]) /\ n <= goal - c.size
              /\ nd = Store(c.nodes[t], SubSeq(bytes, 1, n))
              /\ nd.use = c.nodes[t].use + n
              /\ Becomes(c, FillTurn(c, bytes, goal), t, nd)
              /\ FillTurn(c, bytes, goal).w = t /\ FillTurn(c, bytes, goal).r = c.r
              /\ FillTurn(c, bytes, goal).size = c.size + n
<1>. PICK t, d : t = Target(c) /\ d = FillTurn(c, bytes, goal) OBVIOUS
<1>. PICK n : n = Lesser(goal - c.size, Room(c.nodes[t])) OBVIOUS
<1>. PICK nd : nd = Store(c.nodes[t], SubSeq(bytes, 1, n)) OBVIOUS
<1>1. t \in 1 .. Len(c.nodes) BY TargetOf
<1>2. /\ c.size \in Nat /\ c.nodes[t] \in Nodes /\ Room(c.nodes[t]) \in 0 .. Cap
      /\ c \in Buffers
  BY <1>1, RingParts
<1>3. Len(bytes) \in Nat /\ goal - c.size \in Nat BY <1>2
<1>4. n \in Nat /\ n <= Room(c.nodes[t]) /\ n <= goal - c.size
  <2>1. Room(c.nodes[t]) \in Nat BY <1>2, Sizes
  <2>. QED BY <1>3, <2>1, LesserOf
<1>5. n <= Len(bytes) /\ n \in 0 .. Room(c.nodes[t]) BY <1>2, <1>3, <1>4, Sizes
<1>6. SubSeq(bytes, 1, n) \in Seq(Nat) /\ Len(SubSeq(bytes, 1, n)) = n
  BY <1>4, <1>5, SubSeqOf
<1>7. nd \in Nodes /\ nd.use = c.nodes[t].use + n
  <2>1. PICK x, y : x = c.nodes[t] /\ y = SubSeq(bytes, 1, n) OBVIOUS
  <2>2. x \in Nodes /\ y \in Seq(Nat) /\ Len(y) = n /\ n <= Room(x) BY <1>2, <1>4, <1>6, <2>1
  <2>3. Store(x, y) \in Nodes /\ Store(x, y).use = x.use + n BY <2>2, StoreType
  <2>. QED BY <2>1, <2>3
<1>8. PICK q : q = [c.nodes EXCEPT ![t] = nd] OBVIOUS
<1>9. d = [c EXCEPT !.w = t, !.nodes = q, !.size = @ + n]
  <2>1. q = [c.nodes EXCEPT ![t] = Store(@, SubSeq(bytes, 1, n))] BY <1>8
  <2>. QED BY <2>1 DEF FillTurn
<1>10. d = [nodes |-> q, w |-> t, r |-> c.r, size |-> c.size + n]
  BY <1>2, <1>9 DEF Buffers
<1>11. Becomes(c, d, t, nd) /\ d.w = t /\ d.r = c.r /\ d.size = c.size + n
  <2>1. c.r \in 1 .. Len(c.nodes) /\ c.size + n \in Nat BY <1>2, <1>4, RingParts
  <2>2. d = [nodes |-> [c.nodes EXCEPT ![t] = nd], w |-> t, r |-> c.r,
             size |-> c.size + n]
    BY <1>8, <1>10
  <2>. QED BY <1>1, <1>7, <2>1, <2>2, RingChanged
<1>. QED BY <1>1, <1>4, <1>7, <1>11

\* A turn of MoveWritePos: one node gets some of the bytes.
LEMMA AdvanceTurnIs ==
    ASSUME NEW c \in Rings, NEW bytes \in Seq(Nat), NEW goal \in Nat,
           c.size <= goal, goal - c.size <= Len(bytes)
    PROVE  \E done \in Nat, n \in Nat, nd \in Nodes :
              /\ done = Len(bytes) - (goal - c.size)
              /\ n = Lesser(goal - c.size, Room(c.nodes[c.w]))
              /\ n <= Room(c.nodes[c.w]) /\ n <= goal - c.size /\ done + n <= Len(bytes)
              /\ nd = Store(c.nodes[c.w], SubSeq(bytes, done + 1, done + n))
              /\ nd.use = c.nodes[c.w].use + n
              /\ Becomes(c, AdvanceTurn(c, bytes, goal), c.w, nd)
              /\ AdvanceTurn(c, bytes, goal).w = After(c, c.w)
              /\ AdvanceTurn(c, bytes, goal).r = c.r
              /\ AdvanceTurn(c, bytes, goal).size = c.size + n
<1>. PICK n, x : /\ n = Lesser(goal - c.size, Room(c.nodes[c.w]))
                 /\ x = AdvanceTurn(c, bytes, goal)
  OBVIOUS
<1>1. c.w \in 1 .. Len(c.nodes) BY RingParts
<1>2. /\ c.size \in Nat /\ c.nodes[c.w] \in Nodes /\ Room(c.nodes[c.w]) \in 0 .. Cap
      /\ c \in Buffers
  BY <1>1, RingParts
<1>3. /\ Len(bytes) \in Nat /\ goal - c.size \in Nat
      /\ Len(bytes) - (goal - c.size) \in Nat
  BY <1>2
<1>12. PICK done \in Nat : done = Len(bytes) - (goal - c.size) BY <1>3
<1>4. n \in Nat /\ n <= Room(c.nodes[c.w]) /\ n <= goal - c.size
  <2>1. Room(c.nodes[c.w]) \in Nat BY <1>2, Sizes
  <2>. QED BY <1>3, <2>1, LesserOf
<1>5. n \in 0 .. Room(c.nodes[c.w]) /\ done + n <= Len(bytes)
  <2>1. c.size \in Nat /\ Len(bytes) \in Nat /\ Room(c.nodes[c.w]) \in Nat BY <1>2, Sizes
  <2>2. done + n <= Len(bytes) BY <1>3, <1>4, <1>12, <2>1, SMTT(60)
  <2>. QED BY <1>4, <2>1, <2>2
<1>6. /\ SubSeq(bytes, done + 1, done + n) \in Seq(Nat)
      /\ Len(SubSeq(bytes, done + 1, done + n)) = n
  <2>4. done + 1 \in Nat \ {0} BY <1>12
  <2>5. done + n \in Nat BY <1>4, <1>12
  <2>1. PICK i \in Nat \ {0}, j \in Nat : i = done + 1 /\ j = done + n BY <2>4, <2>5
  <2>2. i <= j + 1 /\ j <= Len(bytes) /\ j - i + 1 = n BY <1>4, <1>5, <2>1
  <2>3. SubSeq(bytes, i, j) \in Seq(Nat) /\ Len(SubSeq(bytes, i, j)) = n
    BY <2>2, SubSeqOf
  <2>. QED BY <2>1, <2>3
<1>. DEFINE nd == Store(c.nodes[c.w], SubSeq(bytes, done + 1, done + n))
<1>7. nd \in Nodes /\ nd.use = c.nodes[c.w].use + n
  <2>1. PICK o, y : o = c.nodes[c.w] /\ y = SubSeq(bytes, done + 1, done + n) OBVIOUS
  <2>2. o \in Nodes /\ y \in Seq(Nat) /\ Len(y) = n /\ n <= Room(o) BY <1>2, <1>4, <1>6, <2>1
  <2>3. Store(o, y) \in Nodes /\ Store(o, y).use = o.use + n BY <2>2, StoreType
  <2>. QED BY <2>1, <2>3
<1>8. PICK q : q = [c.nodes EXCEPT ![c.w] = nd] OBVIOUS
<1>. HIDE DEF nd
<1>9. x = [c EXCEPT !.nodes = q, !.w = After(c, c.w), !.size = @ + n]
  <2>1. q = [c.nodes EXCEPT ![c.w] = Store(@, SubSeq(bytes, done + 1, done + n))]
    BY <1>8 DEF nd
  <2>. QED BY <1>12, <2>1 DEF AdvanceTurn
<1>10. x = [nodes |-> q, w |-> After(c, c.w), r |-> c.r, size |-> c.size + n]
  BY <1>2, <1>9 DEF Buffers
<1>11. /\ Becomes(c, x, c.w, nd) /\ x.w = After(c, c.w) /\ x.r = c.r
       /\ x.size = c.size + n
  <2>1. /\ c.r \in 1 .. Len(c.nodes) /\ c.size + n \in Nat
        /\ After(c, c.w) \in 1 .. Len(c.nodes)
    <3>1. c.r \in 1 .. Len(c.nodes) /\ After(c, c.w) \in 1 .. Len(c.nodes)
      BY <1>1, RingParts
    <3>. QED BY <1>2, <1>4, <3>1
  <2>2. x = [nodes |-> [c.nodes EXCEPT ![c.w] = nd], w |-> After(c, c.w), r |-> c.r,
             size |-> c.size + n]
    BY <1>8, <1>10, SMTT(60)
  <2>. QED BY <1>1, <1>7, <2>1, <2>2, RingChanged
<1>. QED BY <1>4, <1>5, <1>12, <1>7, <1>11 DEF nd

\* A turn of MoveReadPos: the node that is read loses some of its bytes.
LEMMA ReadTurnIs ==
    ASSUME NEW c \in Rings, NEW goal \in Nat, c.size >= goal
    PROVE  \E n \in Nat, nd \in Nodes :
              /\ n = Lesser(c.size - goal, c.nodes[c.r].use)
              /\ n <= c.nodes[c.r].use /\ n <= c.size - goal
              /\ nd = Consume(c.nodes[c.r], n) /\ nd.use + n = c.nodes[c.r].use
              /\ Becomes(c, ReadTurn(c, goal), c.r, nd)
              /\ ReadTurn(c, goal).w = c.w
              /\ ReadTurn(c, goal).r = IF c.nodes[c.r].use = n
                                       THEN IF c.size = n THEN c.w ELSE After(c, c.r)
                                       ELSE c.r
              /\ ReadTurn(c, goal).size = c.size - n
<1>. PICK n, d : n = Lesser(c.size - goal, c.nodes[c.r].use) /\ d = ReadTurn(c, goal)
  OBVIOUS
<1>. PICK nd, r : /\ nd = Consume(c.nodes[c.r], n)
                  /\ r = IF c.nodes[c.r].use = n
                         THEN IF c.size = n THEN c.w ELSE After(c, c.r)
                         ELSE c.r
  OBVIOUS
<1>1. c.r \in 1 .. Len(c.nodes) BY RingParts
<1>2. /\ c.size \in Nat /\ c.nodes[c.r] \in Nodes /\ c.nodes[c.r].use \in 0 .. Cap
      /\ c.w \in 1 .. Len(c.nodes) /\ After(c, c.r) \in 1 .. Len(c.nodes) /\ c \in Buffers
  BY <1>1, RingParts
<1>3. c.size - goal \in Nat BY <1>2
<1>4. n \in Nat /\ n <= c.nodes[c.r].use /\ n <= c.size - goal
  <2>1. c.nodes[c.r].use \in Nat BY <1>2, Sizes
  <2>. QED BY <1>3, <2>1, LesserOf
<1>5. n \in 0 .. c.nodes[c.r].use BY <1>2, <1>4, Sizes
<1>6. nd \in Nodes BY <1>2, <1>5, ConsumeType
<1>7. PICK q : q = [c.nodes EXCEPT ![c.r] = nd] OBVIOUS
<1>8. /\ q \in Seq(Nodes) /\ Len(q) = Len(c.nodes) BY <1>1, <1>6, <1>7, NodeChanged
<1>9. PICK x : x = [c EXCEPT !.nodes = q, !.size = @ - n] OBVIOUS
<1>10. x = [nodes |-> q, w |-> c.w, r |-> c.r, size |-> c.size - n]
  BY <1>2, <1>9 DEF Buffers
<1>11. d = IF c.nodes[c.r].use = n THEN [x EXCEPT !.r = NextR(x)] ELSE x
  <2>1. q = [c.nodes EXCEPT ![c.r] = Consume(@, n)] BY <1>7
  <2>. QED BY <1>9, <2>1 DEF ReadTurn
<1>12. NextR(x) = IF c.size = n THEN c.w ELSE After(c, c.r)
  <2>1. After(x, x.r) = After(c, c.r) BY <1>8, <1>10 DEF After
  <2>2. x.size = 0 <=> c.size = n BY <1>2, <1>4, <1>10
  <2>3. x.w = c.w BY <1>10
  <2>. QED BY <2>1, <2>2, <2>3 DEF NextR
<1>13. d = [nodes |-> q, w |-> c.w, r |-> r, size |-> c.size - n]
  BY <1>10, <1>11, <1>12
<1>14. Becomes(c, d, c.r, nd) /\ d.w = c.w /\ d.r = r /\ d.size = c.size - n
  <2>1. c.size - n \in Nat /\ r \in 1 .. Len(c.nodes) BY <1>1, <1>2, <1>4
  <2>2. d = [nodes |-> [c.nodes EXCEPT ![c.r] = nd], w |-> c.w, r |-> r,
             size |-> c.size - n]
    BY <1>7, <1>13
  <2>3. c.w \in 1 .. Len(c.nodes) BY <1>2
  <2>. QED BY <1>1, <1>6, <2>1, <2>2, <2>3, RingChanged
<1>15. nd.use + n = c.nodes[c.r].use
  <2>1. PICK o : o = c.nodes[c.r] OBVIOUS
  <2>2. Consume(o, n).use = o.use - n BY <1>2, <1>5, <2>1, ConsumeType
  <2>3. o.use \in Nat BY <1>2, <2>1, Sizes
  <2>. QED BY <1>4, <2>1, <2>2, <2>3
<1>. QED BY <1>4, <1>6, <1>14, <1>15

----------------------------------------------------------------------------
(* How many cells the nodes of a ring use.                                 *)

\* The used cells are finitely many pairs of a node and a cell.
LEMMA UsedFinite ==
    ASSUME NEW b \in Rings
    PROVE  /\ IsFiniteSet(Used(b)) /\ Cardinality(Used(b)) \in Nat
           /\ \A i, j : <<i, j>> \in Used(b) <=>
                  i \in 1 .. Len(b.nodes) /\ j \in 1 .. b.nodes[i].use
           /\ \A p \in Used(b) : p = <<p[1], p[2]>>
<1>. DEFINE All == (1 .. Len(b.nodes)) \X (1 .. Cap)
<1>1. Len(b.nodes) \in Nat /\ DOMAIN b.nodes = 1 .. Len(b.nodes) BY RingParts
<1>2. IsFiniteSet(1 .. Len(b.nodes)) /\ IsFiniteSet(1 .. Cap)
  BY <1>1, Sizes, FS_Interval
<1>3. IsFiniteSet(All) BY <1>2, FS_Product
<1>4. Used(b) = {p \in All : p[2] <= b.nodes[p[1]].use} BY <1>1 DEF Used
<1>5. IsFiniteSet(Used(b)) BY <1>3, <1>4, FS_Subset
<1>6. Cardinality(Used(b)) \in Nat BY <1>5, FS_CardinalityType
<1>7. ASSUME NEW i, NEW j
      PROVE <<i, j>> \in Used(b) <=> i \in 1 .. Len(b.nodes) /\ j \in 1 .. b.nodes[i].use
  <2>1. <<i, j>> \in Used(b) <=>
            i \in 1 .. Len(b.nodes) /\ j \in 1 .. Cap /\ j <= b.nodes[i].use
    BY <1>4
  <2>2. CASE i \in 1 .. Len(b.nodes)
    <3>1. b.nodes[i].use \in 0 .. Cap BY <2>2, RingParts
    <3>2. PICK u \in 0 .. Cap : u = b.nodes[i].use BY <3>1
    <3>3. (j \in 1 .. Cap /\ j <= u) <=> j \in 1 .. u BY <3>2, Sizes
    <3>. QED BY <2>1, <2>2, <3>2, <3>3
  <2>3. CASE i \notin 1 .. Len(b.nodes) BY <2>1, <2>3
  <2>. QED BY <2>2, <2>3
<1>8. \A p \in Used(b) : p = <<p[1], p[2]>> BY <1>4
<1>. QED BY <1>5, <1>6, <1>7, <1>8

\* A row of cells has as many pairs as cells.
LEMMA RowOf ==
    ASSUME NEW i, NEW T, IsFiniteSet(T)
    PROVE  IsFiniteSet({i} \X T) /\ Cardinality({i} \X T) = Cardinality(T)
<1>1. IsFiniteSet({i}) /\ Cardinality({i}) = 1 BY FS_Singleton
<1>2. /\ IsFiniteSet({i} \X T)
      /\ Cardinality({i} \X T) = Cardinality({i}) * Cardinality(T)
  BY <1>1, FS_Product
<1>3. Cardinality(T) \in Nat BY FS_CardinalityType
<1>. QED BY <1>1, <1>2, <1>3

\* n cells more are used in one node.
LEMMA UsedMore ==
    ASSUME NEW b \in Rings, NEW c \in Rings, Len(c.nodes) = Len(b.nodes),
           NEW t \in 1 .. Len(b.nodes), NEW n \in Nat,
           \A i \in 1 .. Len(b.nodes) :
               c.nodes[i].use = IF i = t THEN b.nodes[i].use + n ELSE b.nodes[i].use
    PROVE  Cardinality(Used(c)) = Cardinality(Used(b)) + n
<1>1. PICK u \in Nat : u = b.nodes[t].use
  <2>1. b.nodes[t].use \in 0 .. Cap BY RingParts
  <2>. QED BY <2>1
<1>10. PICK T : T = u + 1 .. u + n OBVIOUS
<1>11. IsFiniteSet(T) /\ Cardinality(T) = n
  <2>1. u + 1 \in Int /\ u + n \in Int BY <1>1
  <2>2. /\ IsFiniteSet(T)
        /\ Cardinality(T) = IF u + 1 > u + n THEN 0 ELSE (u + n) - (u + 1) + 1
    BY <1>10, <2>1, FS_Interval
  <2>. QED BY <1>1, <2>2
<1>12. PICK Row : Row = {t} \X T OBVIOUS
<1>2. IsFiniteSet(Row) /\ Cardinality(Row) = n BY <1>11, <1>12, RowOf
<1>3. Used(c) = Used(b) \cup Row
  <2>1. ASSUME NEW i \in 1 .. Len(b.nodes), NEW j
        PROVE  <<i, j>> \in Used(c) <=> <<i, j>> \in Used(b) \/ <<i, j>> \in Row
    <3>1. <<i, j>> \in Used(c) <=> j \in 1 .. c.nodes[i].use BY UsedFinite
    <3>2. <<i, j>> \in Used(b) <=> j \in 1 .. b.nodes[i].use BY UsedFinite
    <3>3. CASE i = t
      <4>1. c.nodes[i].use = u + n /\ b.nodes[i].use = u BY <1>1, <3>3
      <4>2. j \in 1 .. u + n <=> j \in 1 .. u \/ j \in u + 1 .. u + n BY <1>1, SMTT(60)
      <4>3. <<i, j>> \in Row <=> j \in u + 1 .. u + n BY <1>10, <1>12, <3>3
      <4>. QED BY <3>1, <3>2, <4>1, <4>2, <4>3
    <3>4. CASE i # t BY <1>10, <1>12, <3>1, <3>2, <3>4
    <3>. QED BY <3>3, <3>4
  <2>2. ASSUME NEW p \in Used(c) PROVE p \in Used(b) \cup Row
    <3>1. PICK i, j : p = <<i, j>> BY UsedFinite
    <3>2. i \in 1 .. Len(b.nodes) BY <2>2, <3>1, UsedFinite
    <3>. QED BY <2>1, <2>2, <3>1, <3>2
  <2>3. ASSUME NEW p \in Used(b) \cup Row PROVE p \in Used(c)
    <3>1. CASE p \in Used(b)
      <4>1. PICK i, j : p = <<i, j>> BY <3>1, UsedFinite
      <4>2. i \in 1 .. Len(b.nodes) BY <3>1, <4>1, UsedFinite
      <4>. QED BY <2>1, <3>1, <4>1, <4>2
    <3>2. CASE p \in Row
      <4>1. PICK j : p = <<t, j>> BY <1>10, <1>12, <3>2
      <4>. QED BY <2>1, <3>2, <4>1
    <3>. QED BY <2>3, <3>1, <3>2
  <2>. QED BY <2>2, <2>3
<1>4. Used(b) \cap Row = {}
  <2>1. ASSUME NEW p \in Used(b), p \in Row PROVE FALSE
    <3>1. PICK j : p = <<t, j>> /\ j \in u + 1 .. u + n BY <1>10, <1>12, <2>1
    <3>2. j \in 1 .. u BY <1>1, <2>1, <3>1, UsedFinite
    <3>. QED BY <1>1, <3>1, <3>2
  <2>. QED BY <2>1
<1>5. Cardinality(Used(b) \cap Row) = 0 BY <1>4, FS_EmptySet
<1>6. IsFiniteSet(Used(b)) /\ Cardinality(Used(b)) \in Nat BY UsedFinite
<1>7. Cardinality(Used(b) \cup Row)
          = Cardinality(Used(b)) + Cardinality(Row) - Cardinality(Used(b) \cap Row)
  BY <1>2, <1>6, FS_Union
<1>. QED BY <1>2, <1>3, <1>5, <1>6, <1>7

\* A node that uses u cells is put at i.
LEMMA UsedInserted ==
    ASSUME NEW b \in Rings, NEW c \in Rings, Len(c.nodes) = Len(b.nodes) + 1,
           NEW i \in 1 .. Len(b.nodes) + 1, NEW u \in Nat,
           \A j \in 1 .. Len(b.nodes) + 1 :
               c.nodes[j].use = IF j < i THEN b.nodes[j].use
                                ELSE IF j = i THEN u ELSE b.nodes[j - 1].use
    PROVE  Cardinality(Used(c)) = Cardinality(Used(b)) + u
<1>. DEFINE Row == {i} \X (1 .. u)
            Rest == {p \in Used(c) : p[1] # i}
            To(p) == <<IF p[1] < i THEN p[1] ELSE p[1] + 1, p[2]>>
            f == [p \in Used(b) |-> To(p)]
<1>1. IsFiniteSet(Row) /\ Cardinality(Row) = u
  <2>1. IsFiniteSet(1 .. u) /\ Cardinality(1 .. u) = u BY FS_Interval
  <2>. QED BY <2>1, RowOf
<1>2. IsFiniteSet(Used(b)) /\ Cardinality(Used(b)) \in Nat BY UsedFinite
<1>3. Len(b.nodes) \in Nat /\ Len(c.nodes) \in Nat BY RingParts
<1>4. ASSUME NEW p \in Used(b)
      PROVE  /\ p[1] \in 1 .. Len(b.nodes) /\ p[2] \in 1 .. b.nodes[p[1]].use
             /\ To(p) \in Rest
  <2>1. PICK j, k : p = <<j, k>> BY UsedFinite
  <2>2. j \in 1 .. Len(b.nodes) /\ k \in 1 .. b.nodes[j].use BY <2>1, UsedFinite
  <2>3. PICK m : m = IF j < i THEN j ELSE j + 1 OBVIOUS
  <2>4. m \in 1 .. Len(b.nodes) + 1 /\ m # i /\ c.nodes[m].use = b.nodes[j].use
    <3>1. CASE j < i BY <1>3, <2>2, <2>3, <3>1
    <3>2. CASE ~(j < i)
      <4>1. m = j + 1 /\ m \in 1 .. Len(b.nodes) + 1 /\ ~(m < i) /\ m # i /\ m - 1 = j
        BY <1>3, <2>2, <2>3, <3>2
      <4>. QED BY <4>1
    <3>. QED BY <3>1, <3>2
  <2>5. <<m, k>> \in Used(c) BY <2>2, <2>4, UsedFinite
  <2>. QED BY <2>1, <2>2, <2>3, <2>4, <2>5
<1>5. f \in Injection(Used(b), Rest)
  <2>1. f \in [Used(b) -> Rest] BY <1>4
  <2>2. ASSUME NEW p \in Used(b), NEW q \in Used(b), f[p] = f[q] PROVE p = q
    <3>1. p = <<p[1], p[2]>> /\ q = <<q[1], q[2]>> BY UsedFinite
    <3>2. To(p) = To(q) BY <2>2
    <3>3. p[2] = q[2] /\ (IF p[1] < i THEN p[1] ELSE p[1] + 1)
                           = (IF q[1] < i THEN q[1] ELSE q[1] + 1)
      BY <3>2
    <3>4. p[1] \in 1 .. Len(b.nodes) /\ q[1] \in 1 .. Len(b.nodes) BY <1>4
    <3>5. PICK x, y : x = p[1] /\ y = q[1] OBVIOUS
    <3>6. x = y BY <1>3, <3>3, <3>4, <3>5
    <3>. QED BY <3>1, <3>3, <3>5, <3>6
  <2>. QED BY <2>1, <2>2 DEF Injection, IsInjective
<1>6. f \in Surjection(Used(b), Rest)
  <2>1. ASSUME NEW q \in Rest PROVE \E p \in Used(b) : f[p] = q
    <3>1. PICK m, k : q = <<m, k>> BY UsedFinite
    <3>2. m \in 1 .. Len(b.nodes) + 1 /\ k \in 1 .. c.nodes[m].use /\ m # i
      BY <3>1, UsedFinite
    <3>3. PICK j : j = IF m < i THEN m ELSE m - 1 OBVIOUS
    <3>4. /\ j \in 1 .. Len(b.nodes) /\ b.nodes[j].use = c.nodes[m].use
          /\ m = IF j < i THEN j ELSE j + 1
      BY <1>3, <3>2, <3>3
    <3>5. <<j, k>> \in Used(b) BY <3>2, <3>4, UsedFinite
    <3>6. f[<<j, k>>] = <<m, k>> BY <3>4, <3>5
    <3>. QED BY <3>1, <3>5, <3>6
  <2>2. f \in [Used(b) -> Rest] BY <1>4
  <2>. QED BY <2>1, <2>2 DEF Surjection
<1>7. IsFiniteSet(Rest) /\ Cardinality(Rest) = Cardinality(Used(b))
  <2>. HIDE DEF f, Rest
  <2>1. ExistsBijection(Used(b), Rest) BY <1>5, <1>6 DEF ExistsBijection, Bijection
  <2>. QED BY <1>2, <2>1, FS_Bijection
<1>8. Used(c) = Rest \cup Row
  <2>1. \A k : <<i, k>> \in Used(c) <=> k \in 1 .. u
    <3>1. i \in 1 .. Len(c.nodes) /\ c.nodes[i].use = u OBVIOUS
    <3>. QED BY <3>1, UsedFinite
  <2>2. ASSUME NEW p \in Used(c), p[1] = i PROVE p \in Row
    <3>1. p = <<i, p[2]>> BY <2>2, UsedFinite
    <3>2. p[2] \in 1 .. u BY <2>1, <2>2, <3>1
    <3>. QED BY <3>1, <3>2
  <2>3. ASSUME NEW p \in Row PROVE p \in Used(c)
    <3>1. PICK k : p = <<i, k>> /\ k \in 1 .. u BY <2>3
    <3>. QED BY <2>1, <3>1
  <2>. QED BY <2>2, <2>3
<1>9. Rest \cap Row = {} OBVIOUS
<1>10. Cardinality(Rest \cap Row) = 0 BY <1>9, FS_EmptySet
<1>. HIDE DEF Row, Rest
<1>11. Cardinality(Rest \cup Row)
           = Cardinality(Rest) + Cardinality(Row) - Cardinality(Rest \cap Row)
  BY <1>1, <1>7, FS_Union
<1>. QED BY <1>1, <1>2, <1>7, <1>8, <1>10, <1>11

\* A ring with space left has a node with room, and one with bytes has a node
\* with bytes.
LEMMA SomeRoom ==
    ASSUME NEW b \in Rings, BufferOK(b), Left(b) > 0
    PROVE  \E i \in 1 .. Len(b.nodes) : Room(b.nodes[i]) > 0
<1>. SUFFICES ASSUME \A i \in 1 .. Len(b.nodes) : ~(Room(b.nodes[i]) > 0) PROVE FALSE
  OBVIOUS
<1>1. \A i \in 1 .. Len(b.nodes) : b.nodes[i].use = Cap
  <2>. TAKE i \in 1 .. Len(b.nodes)
  <2>1. b.nodes[i].use \in 0 .. Cap /\ ~(Room(b.nodes[i]) > 0) BY RingParts
  <2>. QED BY <2>1, Sizes DEF Room
<1>2. Len(b.nodes) \in Nat /\ DOMAIN b.nodes = 1 .. Len(b.nodes) BY RingParts
<1>3. Used(b) = (1 .. Len(b.nodes)) \X (1 .. Cap) BY <1>1, <1>2, Sizes DEF Used
<1>4. /\ IsFiniteSet(1 .. Len(b.nodes)) /\ Cardinality(1 .. Len(b.nodes)) = Len(b.nodes)
      /\ IsFiniteSet(1 .. Cap) /\ Cardinality(1 .. Cap) = Cap
  <2>1. \A n \in Nat : IsFiniteSet(1 .. n) /\ Cardinality(1 .. n) = n
    <3>. TAKE n \in Nat
    <3>. QED BY FS_Interval
  <2>. QED BY <1>2, <2>1, Sizes
<1>5. Cardinality(Used(b)) = Len(b.nodes) * Cap BY <1>3, <1>4, FS_Product, ZenonT(60)
<1>6. Len(b.nodes) * Cap \in Nat BY <1>2, Sizes
<1>. QED BY <1>5, <1>6 DEF BufferOK, Left

\* A ring with bytes has a node with bytes: MoveReadPos finds it.
LEMMA SomeBytes ==
    ASSUME NEW b \in Rings, BufferOK(b), b.size > 0
    PROVE  \E i \in 1 .. Len(b.nodes) : b.nodes[i].use > 0
<1>. SUFFICES ASSUME \A i \in 1 .. Len(b.nodes) : ~(b.nodes[i].use > 0) PROVE FALSE
  OBVIOUS
<1>1. ASSUME NEW p \in Used(b) PROVE FALSE
  <2>1. PICK i, j : p = <<i, j>> BY UsedFinite
  <2>2. i \in 1 .. Len(b.nodes) /\ j \in 1 .. b.nodes[i].use BY <2>1, UsedFinite
  <2>3. b.nodes[i].use \in 0 .. Cap /\ ~(b.nodes[i].use > 0) BY <2>2, RingParts
  <2>. QED BY <2>2, <2>3, Sizes
<1>2. Cardinality(Used(b)) = 0 BY <1>1, FS_EmptySet
<1>. QED BY <1>2 DEF BufferOK

\* Expand keeps the size right: what leaves a node is in the new one.
LEMMA ExpandOK ==
    ASSUME NEW b, BufferOK(b)
    PROVE  BufferOK(Expand(b)) /\ Left(Expand(b)) = Left(b) + Cap
<1>. DEFINE x == Expand(b)
<1>1. b \in Buffers /\ b.size = Cardinality(Used(b)) BY DEF BufferOK
<1>2. x \in Rings /\ Len(x.nodes) = Len(b.nodes) + 1 /\ x.size = b.size
  BY <1>1, ExpandType
<1>3. Left(x) = Left(b) + Cap
  <2>1. Len(b.nodes) \in Nat /\ b.size \in Nat BY <1>1 DEF Buffers
  <2>2. (Len(b.nodes) + 1) * Cap = Len(b.nodes) * Cap + Cap BY <2>1, Sizes
  <2>3. Len(b.nodes) * Cap \in Nat BY <2>1, Sizes
  <2>. HIDE DEF x
  <2>. QED BY <1>2, <2>1, <2>2, <2>3, Sizes DEF Left
<1>4. CASE b.nodes = <<>>
  <2>1. x.nodes = <<EmptyNode>> BY <1>1, <1>4, ExpandEmpty
  <2>2. Used(b) = {} BY <1>4 DEF Used
  <2>3. b.size = 0 BY <1>1, <2>2, FS_EmptySet
  <2>. HIDE DEF x
  <2>4. ASSUME NEW p \in Used(x) PROVE FALSE
    <3>1. PICK i, j : p = <<i, j>> BY <1>2, UsedFinite
    <3>2. i \in 1 .. Len(x.nodes) /\ j \in 1 .. x.nodes[i].use
      BY <1>2, <2>4, <3>1, UsedFinite
    <3>3. Len(x.nodes) = 1 BY <2>1
    <3>4. i = 1 BY <3>2, <3>3
    <3>5. x.nodes[i].use = 0 BY <2>1, <3>4, EmptyNodeType
    <3>. QED BY <3>2, <3>5
  <2>5. Cardinality(Used(x)) = 0 BY <2>4, FS_EmptySet
  <2>. QED BY <1>2, <1>3, <2>3, <2>5 DEF BufferOK, Rings, x
<1>5. CASE b \in Rings /\ b.w = b.r /\ b.nodes[b.w].use > 0
  <2>1. PICK n : n = Wrapped(b.nodes[b.w]) OBVIOUS
  <2>2. PICK nd : nd = [b.nodes[b.w] EXCEPT !.use = @ - n] OBVIOUS
  <2>3. PICK q : q = [b.nodes EXCEPT ![b.w] = nd] OBVIOUS
  <2>4. PICK e : e = Moved(b.nodes[b.w], n) OBVIOUS
  <2>5. /\ x = [nodes |-> InsertAt(q, b.w, e), w |-> b.w, r |-> b.r + 1, size |-> b.size]
        /\ n \in 0 .. b.nodes[b.w].use /\ nd \in Nodes /\ nd.use = b.nodes[b.w].use - n
    BY <1>5, <2>1, <2>2, <2>3, <2>4, ExpandBefore
  <2>6. /\ q \in Seq(Nodes) /\ Len(q) = Len(b.nodes)
        /\ \A j \in 1 .. Len(b.nodes) : q[j] = IF j = b.w THEN nd ELSE b.nodes[j]
    <3>1. b.w \in 1 .. Len(b.nodes) BY <1>5, RingParts
    <3>. QED BY <1>5, <2>3, <2>5, <3>1, NodeChanged
  <2>7. b.nodes[b.w].use \in 0 .. Cap /\ b.nodes[b.w] \in Nodes /\ n \in Nat
    BY <1>5, <2>5, RingParts, SMTT(60)
  <2>8. e \in Nodes /\ e.use = n
    <3>1. n \in 0 .. Cap BY <2>5, <2>7, Sizes
    <3>. QED BY <2>4, <2>7, <3>1, MovedType
  <2>9. b.w \in 1 .. Len(q) + 1 /\ b.w \in DOMAIN q /\ b.r \in DOMAIN q /\ b.size \in Nat
    BY <1>5, <2>6, RingParts
  <2>10. \A j \in 1 .. Len(q) + 1 :
            x.nodes[j] = IF j < b.w THEN q[j] ELSE IF j = b.w THEN e ELSE q[j - 1]
    <3>1. x.nodes = InsertAt(q, b.w, e) BY <2>5
    <3>2. PICK m : m = InsertAt(q, b.w, e) OBVIOUS
    <3>. TAKE j \in 1 .. Len(q) + 1
    <3>3. PICK y : y = m[j] OBVIOUS
    <3>4. y = IF j < b.w THEN q[j] ELSE IF j = b.w THEN e ELSE q[j - 1]
      BY <2>6, <2>8, <2>9, <3>2, <3>3, InsertedNode, SMTT(60)
    <3>. HIDE DEF x
    <3>. QED BY <3>1, <3>2, <3>3, <3>4
  <2>11. PICK y : y = [nodes |-> q, w |-> b.w, r |-> b.r, size |-> b.size] OBVIOUS
  <2>12. y \in Rings /\ y.nodes = q BY <2>6, <2>9, <2>11, RingFrom
  <2>13. Cardinality(Used(b)) = Cardinality(Used(y)) + n
    <3>1. Len(b.nodes) = Len(y.nodes) /\ b.w \in 1 .. Len(y.nodes) BY <2>6, <2>9, <2>12
    <3>2. \A i \in 1 .. Len(y.nodes) :
              b.nodes[i].use = IF i = b.w THEN y.nodes[i].use + n ELSE y.nodes[i].use
      <4>. TAKE i \in 1 .. Len(y.nodes)
      <4>1. CASE i = b.w
        <5>1. y.nodes[i] = nd BY <2>6, <2>12, <3>1, <4>1
        <5>. QED BY <2>5, <2>7, <4>1, <5>1
      <4>2. CASE i # b.w BY <2>6, <2>12, <3>1, <4>2
      <4>. QED BY <4>1, <4>2
    <3>. QED BY <1>5, <2>7, <2>12, <3>1, <3>2, UsedMore
  <2>14. Cardinality(Used(x)) = Cardinality(Used(y)) + n
    <3>. HIDE DEF x
    <3>1. Len(x.nodes) = Len(y.nodes) + 1 /\ b.w \in 1 .. Len(y.nodes) + 1
      BY <1>2, <2>6, <2>9, <2>12
    <3>2. \A j \in 1 .. Len(y.nodes) + 1 :
              x.nodes[j].use = IF j < b.w THEN y.nodes[j].use
                               ELSE IF j = b.w THEN n ELSE y.nodes[j - 1].use
      <4>. TAKE j \in 1 .. Len(y.nodes) + 1
      <4>1. x.nodes[j] = IF j < b.w THEN y.nodes[j] ELSE IF j = b.w THEN e
                         ELSE y.nodes[j - 1]
        BY <2>6, <2>10, <2>12
      <4>2. CASE j < b.w BY <4>1, <4>2
      <4>3. CASE j = b.w
        <5>1. ~(j < b.w) BY <2>9, <4>3
        <5>. QED BY <2>8, <4>1, <4>3, <5>1
      <4>4. CASE ~(j < b.w) /\ j # b.w BY <4>1, <4>4
      <4>. QED BY <4>2, <4>3, <4>4
    <3>. QED BY <1>2, <2>7, <2>12, <3>1, <3>2, UsedInserted
  <2>. HIDE DEF x
  <2>. QED BY <1>1, <1>2, <1>3, <2>13, <2>14 DEF BufferOK, Rings, x
<1>6. CASE b \in Rings /\ ~(b.w = b.r /\ b.nodes[b.w].use > 0)
  <2>1. PICK r : r = IF b.r > b.w THEN b.r + 1 ELSE b.r OBVIOUS
  <2>2. x = [nodes |-> InsertAt(b.nodes, b.w + 1, EmptyNode), w |-> b.w, r |-> r,
             size |-> b.size]
    BY <1>6, <2>1, ExpandBehind
  <2>3. /\ b.w + 1 \in 1 .. Len(b.nodes) + 1 /\ b.nodes \in Seq(Nodes)
        /\ b.w \in Nat /\ Len(b.nodes) \in Nat
    BY <1>6, RingParts, SMTT(60)
  <2>4. x.nodes = InsertAt(b.nodes, b.w + 1, EmptyNode) BY <2>2
  <2>. HIDE DEF x
  <2>6. PICK i \in 1 .. Len(b.nodes) + 1 : i = b.w + 1 BY <2>3
  <2>5. \A j \in 1 .. Len(b.nodes) + 1 :
            x.nodes[j] = IF j < i THEN b.nodes[j]
                         ELSE IF j = i THEN EmptyNode ELSE b.nodes[j - 1]
    <3>1. PICK m : m = InsertAt(b.nodes, i, EmptyNode) OBVIOUS
    <3>. TAKE j \in 1 .. Len(b.nodes) + 1
    <3>2. PICK y : y = m[j] OBVIOUS
    <3>3. y = IF j < i THEN b.nodes[j] ELSE IF j = i THEN EmptyNode ELSE b.nodes[j - 1]
      <4>1. /\ b.nodes \in Seq(Nodes) /\ EmptyNode \in Nodes
            /\ i \in 1 .. Len(b.nodes) + 1 /\ y = InsertAt(b.nodes, i, EmptyNode)[j]
        BY <2>3, <2>6, <3>1, <3>2, EmptyNodeType
      <4>2. PICK q, e : q = b.nodes /\ e = EmptyNode OBVIOUS
      <4>3. y = IF j < i THEN q[j] ELSE IF j = i THEN e ELSE q[j - 1]
        BY <4>1, <4>2, InsertedNode
      <4>. QED BY <4>2, <4>3
    <3>. QED BY <2>4, <2>6, <3>1, <3>2, <3>3
  <2>7. \A j \in 1 .. Len(b.nodes) + 1 :
            x.nodes[j].use = IF j < i THEN b.nodes[j].use
                             ELSE IF j = i THEN 0 ELSE b.nodes[j - 1].use
    BY <2>3, <2>5, <2>6, EmptyNodeType
  <2>8. Cardinality(Used(x)) = Cardinality(Used(b)) + 0
    BY <1>2, <1>6, <2>3, <2>6, <2>7, UsedInserted
  <2>9. Cardinality(Used(b)) \in Nat BY <1>6, UsedFinite
  <2>. QED BY <1>1, <1>2, <1>3, <2>8, <2>9 DEF BufferOK, Rings, x
<1>. QED BY <1>1, <1>4, <1>5, <1>6 DEF Rings

\* A turn that puts n bytes into one node, and one that takes n out.
LEMMA MoreOK ==
    ASSUME NEW c \in Rings, BufferOK(c), NEW d, NEW t \in 1 .. Len(c.nodes), NEW nd,
           Becomes(c, d, t, nd), NEW n \in Nat, nd.use = c.nodes[t].use + n,
           d.size = c.size + n
    PROVE  BufferOK(d) /\ Left(d) = Left(c) - n
<1>1. c.size \in Nat /\ c.size = Cardinality(Used(c)) /\ Len(c.nodes) \in Nat
  BY RingParts DEF BufferOK
<1>2. /\ d \in Rings /\ Len(d.nodes) = Len(c.nodes)
      /\ \A j \in 1 .. Len(c.nodes) : d.nodes[j] = IF j = t THEN nd ELSE c.nodes[j]
  BY DEF Becomes
<1>3. \A j \in 1 .. Len(c.nodes) :
          d.nodes[j].use = IF j = t THEN c.nodes[j].use + n ELSE c.nodes[j].use
  BY <1>2
<1>4. Cardinality(Used(d)) = Cardinality(Used(c)) + n BY <1>2, <1>3, UsedMore
<1>5. Left(d) = Left(c) - n
  <2>1. PICK m : m = Len(c.nodes) * Cap OBVIOUS
  <2>2. m \in Nat BY <1>1, <2>1, Sizes
  <2>. QED BY <1>1, <1>2, <2>1, <2>2 DEF Left
<1>. QED BY <1>1, <1>2, <1>4, <1>5 DEF BufferOK, Rings

\* The same for a node that loses n bytes.
LEMMA LessOK ==
    ASSUME NEW c \in Rings, BufferOK(c), NEW d, NEW t \in 1 .. Len(c.nodes), NEW nd,
           Becomes(c, d, t, nd), NEW n \in Nat, nd.use + n = c.nodes[t].use,
           d.size = c.size - n
    PROVE  BufferOK(d)
<1>1. c.size \in Nat /\ c.size = Cardinality(Used(c)) /\ Len(c.nodes) \in Nat
  BY RingParts DEF BufferOK
<1>2. /\ d \in Rings /\ Len(d.nodes) = Len(c.nodes)
      /\ \A j \in 1 .. Len(c.nodes) : d.nodes[j] = IF j = t THEN nd ELSE c.nodes[j]
  BY DEF Becomes
<1>3. \A j \in 1 .. Len(d.nodes) :
          c.nodes[j].use = IF j = t THEN d.nodes[j].use + n ELSE d.nodes[j].use
  BY <1>2
<1>4. Cardinality(Used(c)) = Cardinality(Used(d)) + n
  <2>1. Len(c.nodes) = Len(d.nodes) /\ t \in 1 .. Len(d.nodes) BY <1>2
  <2>. QED BY <1>2, <1>3, <2>1, UsedMore
<1>5. Cardinality(Used(d)) \in Nat BY <1>2, UsedFinite
<1>. QED BY <1>1, <1>2, <1>4, <1>5 DEF BufferOK, Rings

----------------------------------------------------------------------------
(* The loops of Buffer.                                                    *)

\* Reserve is the loop it is defined by.
LEMMA ReserveLoop ==
    ASSUME NEW n
    PROVE  \E f : /\ f = [c \in Buffers |-> IF Left(c) < n THEN f[Expand(c)] ELSE c]
                  /\ \A b : Reserve(b, n) = f[b]
<1>. DEFINE P(f) == f = [c \in Buffers |-> IF Left(c) < n THEN f[Expand(c)] ELSE c]
            G == {c \in Buffers : Left(c) < n}
            g == [c \in Buffers |-> Expand(c)]
            v == [c \in Buffers |-> c]
<1>1. \A c \in Buffers : g[c] = Expand(c) /\ g[c] \in Buffers /\ v[c] = c
  BY ExpandType, RingParts
<1>2. \A c \in Buffers : c \in G <=> Left(c) < n OBVIOUS
<1>. HIDE DEF G, g, v
<1>3. PICK f : IsLoop(f, Buffers, G, g, v) BY <1>1, LoopExists
<1>4. P(f) BY <1>1, <1>2, <1>3 DEF IsLoop
<1>5. P(CHOOSE h : P(h))
  <2>. HIDE DEF P
  <2>. QED BY <1>4
<1>6. \A b : Reserve(b, n) = (CHOOSE h : P(h))[b] BY DEF Reserve
<1>. QED BY <1>5, <1>6

\* What the turns of Reserve keep it returns, if they lower a rank.
LEMMA ReserveKeeps ==
    ASSUME NEW n, NEW I \in SUBSET Buffers, NEW r \in [I -> Nat],
           \A c \in I : Left(c) < n => Expand(c) \in I /\ r[Expand(c)] < r[c]
    PROVE  \A b \in I : Reserve(b, n) \in I /\ ~(Left(Reserve(b, n)) < n)
<1>. DEFINE G == {c \in Buffers : Left(c) < n}
            g == [c \in Buffers |-> Expand(c)]
            v == [c \in Buffers |-> c]
<1>1. PICK f : /\ f = [c \in Buffers |-> IF Left(c) < n THEN f[Expand(c)] ELSE c]
               /\ \A b : Reserve(b, n) = f[b]
  BY ReserveLoop
<1>2. \A c \in Buffers : g[c] = Expand(c) /\ v[c] = c OBVIOUS
<1>3. \A c \in Buffers : c \in G <=> Left(c) < n OBVIOUS
<1>. HIDE DEF G, g, v
<1>4. IsLoop(f, Buffers, G, g, v) BY <1>1, <1>2, <1>3 DEF IsLoop
<1>5. \A c \in I : c \in G => g[c] \in I /\ Lower(r, r, g[c], c)
  BY <1>2, <1>3 DEF Lower
<1>6. \A b \in I : \E y \in I \ G : f[b] = v[y] BY <1>4, <1>5, LoopKeeps
<1>. QED BY <1>1, <1>2, <1>3, <1>6, SMTT(60)

\* WriteBuffer stays among the states of its loop.
LEMMA FillStays ==
    ASSUME NEW b \in Buffers, NEW bytes \in Seq(Nat), NEW goal,
           goal = b.size + Len(bytes), NEW c \in Growing(b), c.size < goal
    PROVE  /\ FillTurn(c, bytes, goal) \in Growing(b) /\ c.size \in Nat /\ goal \in Nat
           /\ c \in Rings /\ c.size <= goal /\ goal - c.size <= Len(bytes)
<1>1. b.size \in Nat BY DEF Buffers
<1>2. c \in Rings /\ c.size >= b.size /\ c.size \in Nat BY RingParts DEF Growing
<1>3. goal \in Nat /\ c.size <= goal /\ goal - c.size <= Len(bytes) BY <1>1, <1>2
<1>4. PICK n \in Nat : /\ FillTurn(c, bytes, goal) \in Rings
                       /\ FillTurn(c, bytes, goal).size = c.size + n
  BY <1>2, <1>3, FillTurnIs DEF Becomes
<1>5. FillTurn(c, bytes, goal).size >= b.size BY <1>1, <1>2, <1>4
<1>. QED BY <1>2, <1>3, <1>4, <1>5 DEF Growing

\* What the turns of WriteBuffer keep it returns, if they lower a rank.
LEMMA FillKeeps ==
    ASSUME NEW b \in Buffers, NEW bytes \in Seq(Nat), NEW goal,
           goal = b.size + Len(bytes), NEW I \in SUBSET Growing(b),
           NEW r1 \in [I -> Nat], NEW r2 \in [I -> Nat],
           \A c \in I : c.size < goal =>
               /\ FillTurn(c, bytes, goal) \in I
               /\ Lower(r1, r2, FillTurn(c, bytes, goal), c),
           Reserve(b, Len(bytes)) \in I
    PROVE  WriteBuffer(b, bytes) \in I /\ ~(WriteBuffer(b, bytes).size < goal)
<1>. DEFINE P(f) == f = [c \in Growing(b) |->
                            IF c.size < goal THEN f[FillTurn(c, bytes, goal)] ELSE c]
            G == {c \in Growing(b) : c.size < goal}
            g == [c \in Growing(b) |-> FillTurn(c, bytes, goal)]
            v == [c \in Growing(b) |-> c]
<1>1. \A c \in Growing(b) : g[c] = FillTurn(c, bytes, goal) /\ v[c] = c OBVIOUS
<1>2. \A c \in Growing(b) : c \in G <=> c.size < goal OBVIOUS
<1>. HIDE DEF G, g, v
<1>3. \A c \in Growing(b) : c \in G => g[c] \in Growing(b)
  <2>. TAKE c \in Growing(b)
  <2>1. c.size < goal => FillTurn(c, bytes, goal) \in Growing(b) BY FillStays
  <2>. QED BY <1>1, <1>2, <2>1
<1>4. PICK f : IsLoop(f, Growing(b), G, g, v) BY <1>3, LoopExists
<1>5. P(f) BY <1>1, <1>2, <1>4 DEF IsLoop
<1>6. PICK h : h = CHOOSE x : P(x) OBVIOUS
<1>7. P(h)
  <2>. HIDE DEF P
  <2>. QED BY <1>5, <1>6
<1>8. WriteBuffer(b, bytes) = h[Reserve(b, Len(bytes))] BY <1>6 DEF WriteBuffer
<1>9. IsLoop(h, Growing(b), G, g, v) BY <1>1, <1>2, <1>7 DEF IsLoop
<1>10. \A c \in I : c \in G =>
           g[c] \in I /\ Lower(r1, r2, g[c], c)
  BY <1>1, <1>2
<1>11. \A c \in I : \E y \in I \ G : h[c] = v[y]
  <2>1. PICK S : S = Growing(b) OBVIOUS
  <2>2. I \in SUBSET S /\ IsLoop(h, S, G, g, v) BY <1>9, <2>1
  <2>. QED BY <1>10, <2>2, LoopKeeps, SMTT(60)
<1>12. PICK y \in I \ G : h[Reserve(b, Len(bytes))] = v[y] BY <1>11
<1>13. y \in Growing(b) /\ v[y] = y /\ ~(y.size < goal) BY <1>1, <1>2, <1>12
<1>. QED BY <1>8, <1>12, <1>13

\* The same for MoveWritePos.
LEMMA AdvanceStays ==
    ASSUME NEW b \in Buffers, NEW bytes \in Seq(Nat), NEW goal,
           goal = b.size + Len(bytes), NEW c \in Growing(b), c.size < goal
    PROVE  /\ AdvanceTurn(c, bytes, goal) \in Growing(b) /\ c.size \in Nat /\ goal \in Nat
           /\ c \in Rings /\ c.size <= goal /\ goal - c.size <= Len(bytes)
<1>1. b.size \in Nat BY DEF Buffers
<1>2. c \in Rings /\ c.size >= b.size /\ c.size \in Nat BY RingParts DEF Growing
<1>3. goal \in Nat /\ c.size <= goal /\ goal - c.size <= Len(bytes) BY <1>1, <1>2
<1>5. PICK n \in Nat : /\ AdvanceTurn(c, bytes, goal) \in Rings
                       /\ AdvanceTurn(c, bytes, goal).size = c.size + n
  BY <1>2, <1>3, AdvanceTurnIs DEF Becomes
<1>6. AdvanceTurn(c, bytes, goal).size >= b.size BY <1>1, <1>2, <1>5
<1>. QED BY <1>2, <1>3, <1>5, <1>6 DEF Growing

\* What the turns of MoveWritePos keep it returns, if they lower a rank.
LEMMA AdvanceKeeps ==
    ASSUME NEW b \in Rings, NEW bytes \in Seq(Nat), NEW goal,
           goal = b.size + Len(bytes), NEW I \in SUBSET Growing(b), NEW r \in [I -> Nat],
           \A c \in I : c.size < goal => /\ AdvanceTurn(c, bytes, goal) \in I
                                         /\ r[AdvanceTurn(c, bytes, goal)] < r[c],
           b \in I
    PROVE  MoveWritePos(b, bytes) \in I /\ ~(MoveWritePos(b, bytes).size < goal)
<1>. DEFINE P(f) == f = [c \in Growing(b) |->
                            IF c.size < goal THEN f[AdvanceTurn(c, bytes, goal)] ELSE c]
            G == {c \in Growing(b) : c.size < goal}
            g == [c \in Growing(b) |-> AdvanceTurn(c, bytes, goal)]
            v == [c \in Growing(b) |-> c]
<1>1. \A c \in Growing(b) : g[c] = AdvanceTurn(c, bytes, goal) /\ v[c] = c OBVIOUS
<1>2. \A c \in Growing(b) : c \in G <=> c.size < goal OBVIOUS
<1>. HIDE DEF G, g, v
<1>3. \A c \in Growing(b) : c \in G => g[c] \in Growing(b)
  BY <1>1, <1>2, AdvanceStays DEF Rings
<1>4. PICK f : IsLoop(f, Growing(b), G, g, v) BY <1>3, LoopExists
<1>5. P(f) BY <1>1, <1>2, <1>4 DEF IsLoop
<1>6. PICK h : h = CHOOSE x : P(x) OBVIOUS
<1>7. P(h)
  <2>. HIDE DEF P
  <2>. QED BY <1>5, <1>6
<1>8. MoveWritePos(b, bytes) = h[b] BY <1>6 DEF MoveWritePos
<1>9. IsLoop(h, Growing(b), G, g, v) BY <1>1, <1>2, <1>7 DEF IsLoop
<1>10. \A c \in I : c \in G =>
           g[c] \in I /\ Lower(r, r, g[c], c)
  BY <1>1, <1>2 DEF Lower
<1>11. \A c \in I : \E y \in I \ G : h[c] = v[y]
  <2>1. PICK S : S = Growing(b) OBVIOUS
  <2>2. I \in SUBSET S /\ IsLoop(h, S, G, g, v) BY <1>9, <2>1
  <2>. QED BY <1>10, <2>2, LoopKeeps, SMTT(60)
<1>12. PICK y \in I \ G : h[b] = v[y] BY <1>11
<1>13. y \in Growing(b) /\ v[y] = y /\ ~(y.size < goal) BY <1>1, <1>2, <1>12
<1>. QED BY <1>8, <1>12, <1>13

\* The same for MoveReadPos.
LEMMA ReadStays ==
    ASSUME NEW goal \in Nat, NEW c \in Rings, c.size > goal
    PROVE  ReadTurn(c, goal) \in Rings
<1>1. c.size >= goal BY RingParts
<1>. QED BY <1>1, ReadTurnIs DEF Becomes

\* What the turns of MoveReadPos keep it returns, if they lower a rank.
LEMMA DropKeeps ==
    ASSUME NEW b \in Rings, NEW n \in Nat, NEW goal,
           goal = b.size - Lesser(n, b.size), NEW I \in SUBSET Rings,
           NEW r1 \in [I -> Nat], NEW r2 \in [I -> Nat],
           \A c \in I : c.size > goal =>
               /\ ReadTurn(c, goal) \in I
               /\ Lower(r1, r2, ReadTurn(c, goal), c),
           b \in I
    PROVE  MoveReadPos(b, n) \in I /\ ~(MoveReadPos(b, n).size > goal)
<1>. DEFINE P(f) == f = [c \in Rings |-> IF c.size > goal THEN f[ReadTurn(c, goal)] ELSE c]
            G == {c \in Rings : c.size > goal}
            g == [c \in Rings |-> ReadTurn(c, goal)]
            v == [c \in Rings |-> c]
<1>1. \A c \in Rings : g[c] = ReadTurn(c, goal) /\ v[c] = c OBVIOUS
<1>2. \A c \in Rings : c \in G <=> c.size > goal OBVIOUS
<1>. HIDE DEF G, g, v
<1>3. \A c \in Rings : c \in G => g[c] \in Rings
  <2>1. b.size \in Nat BY RingParts
  <2>2. Lesser(n, b.size) \in Nat /\ Lesser(n, b.size) <= b.size BY <2>1, LesserOf
  <2>3. goal \in Nat BY <2>1, <2>2
  <2>. QED BY <1>1, <1>2, <2>3, ReadStays
<1>4. PICK f : IsLoop(f, Rings, G, g, v) BY <1>3, LoopExists
<1>5. P(f) BY <1>1, <1>2, <1>4 DEF IsLoop
<1>6. PICK h : h = CHOOSE x : P(x) OBVIOUS
<1>7. P(h)
  <2>. HIDE DEF P
  <2>. QED BY <1>5, <1>6
<1>8. MoveReadPos(b, n) = h[b] BY <1>6 DEF MoveReadPos
<1>9. IsLoop(h, Rings, G, g, v) BY <1>1, <1>2, <1>7 DEF IsLoop
<1>10. \A c \in I : c \in G =>
           g[c] \in I /\ Lower(r1, r2, g[c], c)
  BY <1>1, <1>2
<1>11. \A c \in I : \E y \in I \ G : h[c] = v[y]
  <2>1. PICK S : S = Rings OBVIOUS
  <2>2. I \in SUBSET S /\ IsLoop(h, S, G, g, v) BY <1>9, <2>1
  <2>. QED BY <1>10, <2>2, LoopKeeps, SMTT(60)
<1>12. PICK y \in I \ G : h[b] = v[y] BY <1>11
<1>13. y \in Rings /\ v[y] = y /\ ~(y.size > goal) BY <1>1, <1>2, <1>12
<1>. QED BY <1>8, <1>12, <1>13

----------------------------------------------------------------------------
(* The size of a buffer stays the number of cells its nodes use.           *)

\* Nothing is in a node, and in a buffer, which is read where it is written.
Clear(nd) == nd.use = 0 /\ nd.rc = 0
Blank(b) == b.size = 0 /\ b.w = b.r /\ \A i \in DOMAIN b.nodes : Clear(b.nodes[i])

\* A blank buffer that grows stays blank.
LEMMA ExpandBlank ==
    ASSUME NEW b \in Buffers, Blank(b)
    PROVE  Blank(Expand(b))
<1>. PICK x : x = Expand(b) OBVIOUS
<1>1. CASE b.nodes = <<>>
  <2>1. x = [nodes |-> <<EmptyNode>>, w |-> 1, r |-> 1, size |-> b.size]
    BY <1>1, ExpandEmpty
  <2>2. PICK q : q = <<EmptyNode>> OBVIOUS
  <2>3. \A i \in DOMAIN q : Clear(q[i]) BY <2>2, EmptyNodeType DEF Clear
  <2>4. x.nodes = q /\ x.w = x.r /\ x.size = 0 BY <2>1, <2>2 DEF Blank
  <2>. QED BY <2>3, <2>4 DEF Blank
<1>2. CASE b \in Rings
  <2>1. b.w \in 1 .. Len(b.nodes) /\ DOMAIN b.nodes = 1 .. Len(b.nodes) /\ b.w = b.r
        /\ b.size = 0 /\ b.nodes \in Seq(Nodes) /\ Len(b.nodes) \in Nat
    BY <1>2, RingParts DEF Blank
  <2>2. b.nodes[b.w].use = 0 BY <2>1 DEF Blank, Clear
  <2>3. x = [nodes |-> InsertAt(b.nodes, b.w + 1, EmptyNode), w |-> b.w,
             r |-> IF b.r > b.w THEN b.r + 1 ELSE b.r, size |-> b.size]
    BY <1>2, <2>2, ExpandBehind
  <2>4. x.w = x.r /\ x.size = 0 BY <2>1, <2>3
  <2>5. PICK m, i : m = InsertAt(b.nodes, i, EmptyNode) /\ i = b.w + 1 OBVIOUS
  <2>6. i \in 1 .. Len(b.nodes) + 1 /\ EmptyNode \in Nodes BY <2>1, <2>5, EmptyNodeType
  <2>7. DOMAIN m = 1 .. Len(b.nodes) + 1 BY <2>1, <2>5, <2>6, InsertedAt, SMTT(60)
  <2>8. ASSUME NEW j \in 1 .. Len(b.nodes) + 1 PROVE Clear(m[j])
    <3>1. PICK y, q, e : y = m[j] /\ q = b.nodes /\ e = EmptyNode OBVIOUS
    <3>2. /\ q \in Seq(Nodes) /\ e \in Nodes /\ i \in 1 .. Len(q) + 1
          /\ j \in 1 .. Len(q) + 1 /\ y = InsertAt(q, i, e)[j]
      BY <2>1, <2>5, <2>6, <2>8, <3>1
    <3>3. y = IF j < i THEN q[j] ELSE IF j = i THEN e ELSE q[j - 1]
      BY <3>2, InsertedNode
    <3>4. CASE j < i
      <4>1. j \in DOMAIN q BY <2>1, <2>6, <3>1, <3>4
      <4>. QED BY <3>1, <3>3, <3>4, <4>1 DEF Blank
    <3>5. CASE j = i
      <4>1. ~(j < i) BY <2>6, <3>5
      <4>. QED BY <3>1, <3>3, <3>5, <4>1, EmptyNodeType DEF Clear
    <3>6. CASE j > i
      <4>1. ~(j < i) /\ j # i BY <2>6, <3>6
      <4>2. j - 1 \in DOMAIN q BY <2>1, <2>6, <3>1, <3>6
      <4>. QED BY <3>1, <3>3, <4>1, <4>2 DEF Blank
    <3>. QED BY <2>1, <2>6, <3>4, <3>5, <3>6
  <2>9. x.nodes = m BY <2>3, <2>5
  <2>. QED BY <2>4, <2>7, <2>8, <2>9 DEF Blank
<1>. QED BY <1>1, <1>2 DEF Rings

\* Reserve makes the space it was asked for.
LEMMA ReserveOK ==
    ASSUME NEW b, BufferOK(b), NEW n \in Nat, n > 0
    PROVE  /\ BufferOK(Reserve(b, n)) /\ Reserve(b, n) \in Rings
           /\ Reserve(b, n).size = b.size /\ Left(Reserve(b, n)) >= n
           /\ Blank(b) => Blank(Reserve(b, n))
<1>. DEFINE I == {c \in Buffers :
                     BufferOK(c) /\ c.size = b.size /\ (Blank(b) => Blank(c))}
            r == [c \in I |-> IF Left(c) < n THEN n - Left(c) ELSE 0]
<1>1. \A c \in I : Left(c) \in Int
  <2>. TAKE c \in I
  <2>1. Len(c.nodes) \in Nat /\ c.size \in Nat BY DEF Buffers
  <2>2. Len(c.nodes) * Cap \in Nat BY <2>1, Sizes
  <2>. QED BY <2>1, <2>2 DEF Left
<1>2. r \in [I -> Nat] BY <1>1
<1>3. ASSUME NEW c \in I, Left(c) < n
      PROVE  Expand(c) \in I /\ r[Expand(c)] < r[c]
  <2>1. PICK x : x = Expand(c) OBVIOUS
  <2>2. BufferOK(x) /\ Left(x) = Left(c) + Cap BY <2>1, ExpandOK
  <2>3. x \in Buffers /\ x.size = b.size BY <2>1, ExpandType, RingParts
  <2>7. Blank(b) => Blank(x) BY <2>1, ExpandBlank
  <2>4. x \in I BY <2>2, <2>3, <2>7
  <2>5. Left(c) \in Int BY <1>1
  <2>6. r[x] < r[c]
    <3>1. r[x] = IF Left(x) < n THEN n - Left(x) ELSE 0 BY <2>4
    <3>2. r[c] = n - Left(c) BY <1>3
    <3>. QED BY <1>3, <2>2, <2>5, <3>1, <3>2, Sizes
  <2>. QED BY <2>1, <2>4, <2>6
<1>4. b \in I BY DEF BufferOK
<1>5. I \in SUBSET Buffers OBVIOUS
<1>6. PICK x : x = Reserve(b, n) OBVIOUS
<1>. HIDE DEF I, r
<1>7. x \in I /\ ~(Left(x) < n) BY <1>2, <1>3, <1>4, <1>5, <1>6, ReserveKeeps
<1>. USE DEF I
<1>8. Left(x) >= n BY <1>1, <1>7
<1>9. x.nodes # <<>>
  <2>1. ASSUME x.nodes = <<>> PROVE FALSE
    <3>1. Len(x.nodes) = 0 /\ x.size \in Nat BY <1>7, <2>1 DEF Buffers
    <3>2. Left(x) <= 0 BY <3>1, Sizes DEF Left
    <3>. QED BY <1>8, <3>2, <1>1, <1>7
  <2>. QED BY <2>1
<1>. QED BY <1>6, <1>7, <1>8, <1>9 DEF Rings

\* The position d steps behind i in a ring of l nodes.
Ahead(l, i, d) == IF i + d <= l THEN i + d ELSE i + d - l

\* The steps from i to the first of the positions S.
StepsTo(l, i, S) ==
    CHOOSE d \in 0 .. l - 1 :
        /\ Ahead(l, i, d) \in S
        /\ \A h \in 0 .. l - 1 : Ahead(l, i, h) \in S => d <= h

\* There is a first of the positions S, and it is among them.
LEMMA StepsToIs ==
    ASSUME NEW l \in Nat \ {0}, NEW i \in 1 .. l, NEW S \in SUBSET (1 .. l), S # {}
    PROVE  /\ StepsTo(l, i, S) \in Nat /\ StepsTo(l, i, S) \in 0 .. l - 1
           /\ Ahead(l, i, StepsTo(l, i, S)) \in S
           /\ \A h \in 0 .. l - 1 : Ahead(l, i, h) \in S => StepsTo(l, i, S) <= h
<1>. DEFINE D == {d \in 0 .. l - 1 : Ahead(l, i, d) \in S}
<1>1. D # {}
  <2>1. PICK s \in 1 .. l : s \in S OBVIOUS
  <2>2. PICK d : d = IF i <= s THEN s - i ELSE s + l - i OBVIOUS
  <2>3. d \in 0 .. l - 1 /\ Ahead(l, i, d) = s BY <2>2 DEF Ahead
  <2>. QED BY <2>1, <2>3
<1>2. D \in SUBSET Nat OBVIOUS
<1>3. PICK d \in D : \A h \in D : d <= h BY <1>1, <1>2, Smallest
<1>4. \E x \in 0 .. l - 1 : /\ Ahead(l, i, x) \in S
                            /\ \A h \in 0 .. l - 1 : Ahead(l, i, h) \in S => x <= h
  BY <1>3
<1>5. PICK x : x = StepsTo(l, i, S) OBVIOUS
<1>6. /\ x \in 0 .. l - 1 /\ Ahead(l, i, x) \in S
      /\ \A h \in 0 .. l - 1 : Ahead(l, i, h) \in S => x <= h
  BY <1>4, <1>5 DEF StepsTo
<1>. QED BY <1>5, <1>6

\* A step on brings the first of the positions nearer.
LEMMA StepsFall ==
    ASSUME NEW l \in Nat \ {0}, NEW i \in 1 .. l, NEW S \in SUBSET (1 .. l), S # {},
           i \notin S, NEW j, j = IF i = l THEN 1 ELSE i + 1
    PROVE  StepsTo(l, j, S) < StepsTo(l, i, S)
<1>1. j \in 1 .. l OBVIOUS
<1>2. PICK d, e : d = StepsTo(l, i, S) /\ e = StepsTo(l, j, S) OBVIOUS
<1>3. d \in 0 .. l - 1 /\ Ahead(l, i, d) \in S BY <1>2, StepsToIs
<1>4. d # 0
  <2>1. ASSUME d = 0 PROVE FALSE
    <3>1. Ahead(l, i, d) = i BY <2>1 DEF Ahead
    <3>. QED BY <1>3, <3>1
  <2>. QED BY <2>1
<1>5. d - 1 \in 0 .. l - 1 /\ Ahead(l, j, d - 1) = Ahead(l, i, d) BY <1>3, <1>4 DEF Ahead
<1>6. PICK h : h = d - 1 OBVIOUS
<1>7. h \in 0 .. l - 1 /\ Ahead(l, j, h) \in S BY <1>3, <1>5, <1>6
<1>8. e <= h /\ e \in Nat BY <1>1, <1>2, <1>7, StepsToIs
<1>. QED BY <1>2, <1>3, <1>6, <1>8

\* The positions with room, and those with bytes.
Roomy(c) == {i \in 1 .. Len(c.nodes) : Room(c.nodes[i]) > 0}
Laden(c) == {i \in 1 .. Len(c.nodes) : c.nodes[i].use > 0}

\* WriteBuffer ends with m_useSize right: while bytes are left some node has room.
LEMMA WriteOK ==
    ASSUME NEW b, BufferOK(b), NEW bytes \in Seq(Nat), bytes # <<>>
    PROVE  BufferOK(WriteBuffer(b, bytes))
<1>1. b \in Buffers BY DEF BufferOK
<1>2. Len(bytes) \in Nat /\ Len(bytes) > 0 OBVIOUS
<1>3. PICK goal : goal = b.size + Len(bytes) OBVIOUS
<1>4. b.size \in Nat /\ goal \in Nat BY <1>1, <1>2, <1>3 DEF Buffers
<1>. DEFINE I == {c \in Growing(b) :
                     BufferOK(c) /\ c.size <= goal /\ Left(c) >= goal - c.size}
            r1 == [c \in I |-> goal - c.size]
            r2 == [c \in I |-> IF c.size < goal
                               THEN StepsTo(Len(c.nodes), c.w, Roomy(c)) ELSE 0]
<1>5. ASSUME NEW c \in I
      PROVE  /\ c \in Rings /\ c.size \in Nat /\ c.size <= goal /\ BufferOK(c)
             /\ Left(c) \in Int /\ Left(c) >= goal - c.size /\ goal - c.size \in Nat
             /\ Len(c.nodes) \in Nat \ {0} /\ c.w \in 1 .. Len(c.nodes)
  <2>1. /\ c \in Rings /\ c.size \in Nat /\ Len(c.nodes) \in Nat \ {0}
        /\ c.w \in 1 .. Len(c.nodes)
    BY RingParts DEF Growing
  <2>2. Len(c.nodes) * Cap \in Nat BY <2>1, Sizes
  <2>3. Left(c) \in Int BY <2>1, <2>2 DEF Left
  <2>. QED BY <1>4, <2>1, <2>3
<1>6. ASSUME NEW c \in I, c.size < goal
      PROVE  /\ Roomy(c) \in SUBSET (1 .. Len(c.nodes)) /\ Roomy(c) # {}
             /\ StepsTo(Len(c.nodes), c.w, Roomy(c)) \in Nat
  <2>1. Left(c) > 0 BY <1>4, <1>5, <1>6
  <2>2. \E i \in 1 .. Len(c.nodes) : Room(c.nodes[i]) > 0 BY <1>5, <2>1, SomeRoom
  <2>3. Roomy(c) \in SUBSET (1 .. Len(c.nodes)) /\ Roomy(c) # {} BY <2>2 DEF Roomy
  <2>. QED BY <1>5, <2>3, StepsToIs
<1>7. r1 \in [I -> Nat] BY <1>5
<1>8. r2 \in [I -> Nat] BY <1>6
<1>9. I \in SUBSET Growing(b) OBVIOUS
<1>10. ASSUME NEW c \in I, c.size < goal
       PROVE  /\ FillTurn(c, bytes, goal) \in I
              /\ Lower(r1, r2, FillTurn(c, bytes, goal), c)
  <2>1. PICK d : d = FillTurn(c, bytes, goal) OBVIOUS
  <2>2. d \in Growing(b) /\ goal - c.size <= Len(bytes)
    BY <1>1, <1>3, <1>10, <2>1, FillStays
  <2>3. c \in Rings /\ c.size \in Nat /\ c.size <= goal /\ BufferOK(c) BY <1>5
  <2>4. PICK t \in 1 .. Len(c.nodes), n \in Nat, nd \in Nodes :
           /\ t = Target(c) /\ n = Lesser(goal - c.size, Room(c.nodes[t]))
           /\ n <= Room(c.nodes[t]) /\ n <= goal - c.size
           /\ nd.use = c.nodes[t].use + n
           /\ Becomes(c, d, t, nd)
           /\ d.w = t /\ d.size = c.size + n
    BY <1>4, <2>1, <2>2, <2>3, FillTurnIs
  <2>5. BufferOK(d) /\ Left(d) = Left(c) - n BY <2>3, <2>4, MoreOK
  <2>6. d.size <= goal /\ Left(d) >= goal - d.size
    BY <1>4, <1>5, <2>3, <2>4, <2>5, SMTT(60)
  <2>7. d \in I BY <2>2, <2>5, <2>6
  <2>8. r1[d] = goal - d.size /\ r1[c] = goal - c.size BY <2>7
  <2>9. CASE n > 0
    <3>1. goal - d.size < goal - c.size BY <1>4, <2>3, <2>4, <2>9
    <3>. QED BY <2>1, <2>7, <2>8, <3>1 DEF Lower
  <2>10. CASE ~(n > 0)
    <3>1. n = 0 /\ d.size = c.size BY <2>3, <2>4, <2>10
    <3>2. Room(c.nodes[t]) \in Nat /\ goal - c.size \in Nat /\ goal - c.size > 0
      <4>1. Room(c.nodes[t]) \in 0 .. Cap BY <2>3, RingParts
      <4>. QED BY <1>4, <1>10, <2>3, <4>1, Sizes, SMTT(60)
    <3>3. Room(c.nodes[t]) = 0 BY <2>4, <3>1, <3>2 DEF Lesser
    <3>4. t = After(c, c.w) /\ Room(c.nodes[c.w]) = 0 BY <2>4, <3>3 DEF Target
    <3>5. c.w \notin Roomy(c) BY <3>4 DEF Roomy
    <3>6. \A i \in 1 .. Len(c.nodes) : d.nodes[i].use = c.nodes[i].use
      <4>1. c.nodes[t].use \in 0 .. Cap BY <2>3, RingParts
      <4>. QED BY <2>4, <3>1, <4>1, Sizes, SMTT(60) DEF Becomes
    <3>7. Len(d.nodes) = Len(c.nodes) BY <2>4 DEF Becomes
    <3>8. Roomy(d) = Roomy(c) BY <3>6, <3>7 DEF Roomy, Room
    <3>9. t = IF c.w = Len(c.nodes) THEN 1 ELSE c.w + 1 BY <3>4 DEF After
    <3>10. StepsTo(Len(c.nodes), t, Roomy(c)) < StepsTo(Len(c.nodes), c.w, Roomy(c))
      <4>1. PICK l, S : l = Len(c.nodes) /\ S = Roomy(c) OBVIOUS
      <4>2. /\ l \in Nat \ {0} /\ c.w \in 1 .. l /\ S \in SUBSET (1 .. l) /\ S # {}
            /\ c.w \notin S /\ t = IF c.w = l THEN 1 ELSE c.w + 1
        BY <1>5, <1>6, <1>10, <3>5, <3>9, <4>1
      <4>3. StepsTo(l, t, S) < StepsTo(l, c.w, S) BY <4>2, StepsFall
      <4>. QED BY <4>1, <4>3
    <3>11. r2[d] = StepsTo(Len(c.nodes), t, Roomy(c))
      BY <1>10, <2>4, <2>7, <3>1, <3>7, <3>8
    <3>12. r2[c] = StepsTo(Len(c.nodes), c.w, Roomy(c)) BY <1>10
    <3>. QED BY <2>1, <2>7, <2>8, <3>1, <3>10, <3>11, <3>12 DEF Lower
  <2>. QED BY <2>9, <2>10
<1>11. Reserve(b, Len(bytes)) \in I
  <2>1. PICK x : x = Reserve(b, Len(bytes)) OBVIOUS
  <2>2. BufferOK(x) /\ x \in Rings /\ x.size = b.size /\ Left(x) >= Len(bytes)
    BY <1>2, <2>1, ReserveOK
  <2>3. x \in Growing(b) BY <1>4, <2>2 DEF Growing
  <2>4. x.size <= goal /\ goal - x.size = Len(bytes) BY <1>2, <1>3, <1>4, <2>2
  <2>. QED BY <2>1, <2>2, <2>3, <2>4
<1>12. WriteBuffer(b, bytes) \in I
  <2>. HIDE DEF I, r1, r2
  <2>. QED BY <1>1, <1>3, <1>7, <1>8, <1>9, <1>10, <1>11, FillKeeps
<1>. QED BY <1>12

\* MoveReadPos ends with m_useSize right: while bytes are to be read some node has them.
LEMMA ReadOK ==
    ASSUME NEW b \in Rings, BufferOK(b), NEW n \in Nat
    PROVE  /\ BufferOK(MoveReadPos(b, n)) /\ MoveReadPos(b, n) \in Rings
           /\ MoveReadPos(b, n).size = b.size - Lesser(n, b.size)
<1>1. b.size \in Nat BY RingParts
<1>2. PICK goal : goal = b.size - Lesser(n, b.size) OBVIOUS
<1>3. goal \in Nat /\ goal <= b.size
  <2>1. Lesser(n, b.size) \in Nat /\ Lesser(n, b.size) <= b.size BY <1>1, LesserOf
  <2>. QED BY <1>1, <1>2, <2>1
<1>. DEFINE I == {c \in Rings : BufferOK(c) /\ c.size >= goal}
            r1 == [c \in I |-> c.size - goal]
            r2 == [c \in I |-> IF c.size > goal
                               THEN StepsTo(Len(c.nodes), c.r, Laden(c)) ELSE 0]
<1>5. ASSUME NEW c \in I
      PROVE  /\ c \in Rings /\ c.size \in Nat /\ c.size >= goal /\ BufferOK(c)
             /\ c.size - goal \in Nat
             /\ Len(c.nodes) \in Nat \ {0} /\ c.r \in 1 .. Len(c.nodes)
  <2>1. /\ c \in Rings /\ c.size \in Nat /\ Len(c.nodes) \in Nat \ {0}
        /\ c.r \in 1 .. Len(c.nodes)
    BY RingParts
  <2>. QED BY <1>3, <2>1
<1>6. ASSUME NEW c \in I, c.size > goal
      PROVE  /\ Laden(c) \in SUBSET (1 .. Len(c.nodes)) /\ Laden(c) # {}
             /\ StepsTo(Len(c.nodes), c.r, Laden(c)) \in Nat
  <2>1. c.size > 0 BY <1>3, <1>5, <1>6
  <2>2. \E i \in 1 .. Len(c.nodes) : c.nodes[i].use > 0 BY <1>5, <2>1, SomeBytes
  <2>3. Laden(c) \in SUBSET (1 .. Len(c.nodes)) /\ Laden(c) # {} BY <2>2 DEF Laden
  <2>. QED BY <1>5, <2>3, StepsToIs
<1>7. r1 \in [I -> Nat] BY <1>5
<1>8. r2 \in [I -> Nat] BY <1>6
<1>9. I \in SUBSET Rings OBVIOUS
<1>10. ASSUME NEW c \in I, c.size > goal
       PROVE  ReadTurn(c, goal) \in I /\ Lower(r1, r2, ReadTurn(c, goal), c)
  <2>1. PICK d : d = ReadTurn(c, goal) OBVIOUS
  <2>3. c \in Rings /\ c.size \in Nat /\ c.size >= goal /\ BufferOK(c) BY <1>5
  <2>4. PICK m \in Nat, nd \in Nodes :
           /\ m = Lesser(c.size - goal, c.nodes[c.r].use)
           /\ m <= c.nodes[c.r].use /\ m <= c.size - goal
           /\ nd.use + m = c.nodes[c.r].use
           /\ Becomes(c, d, c.r, nd)
           /\ d.r = IF c.nodes[c.r].use = m
                    THEN IF c.size = m THEN c.w ELSE After(c, c.r) ELSE c.r
           /\ d.size = c.size - m
    BY <1>3, <2>1, <2>3, ReadTurnIs
  <2>5. BufferOK(d)
    <3>1. c.r \in 1 .. Len(c.nodes) BY <1>5
    <3>. QED BY <2>3, <2>4, <3>1, LessOK
  <2>6. d.size >= goal /\ d \in Rings BY <1>3, <2>3, <2>4 DEF Becomes
  <2>7. d \in I BY <2>5, <2>6
  <2>8. r1[d] = d.size - goal /\ r1[c] = c.size - goal BY <2>7
  <2>9. CASE m > 0
    <3>1. d.size - goal < c.size - goal BY <1>3, <2>3, <2>4, <2>9
    <3>. QED BY <2>1, <2>7, <2>8, <3>1 DEF Lower
  <2>10. CASE ~(m > 0)
    <3>1. m = 0 /\ d.size = c.size BY <2>3, <2>4, <2>10
    <3>2. c.nodes[c.r].use \in Nat /\ c.size - goal \in Nat /\ c.size - goal > 0
      <4>1. c.nodes[c.r].use \in 0 .. Cap BY <1>5, RingParts
      <4>. QED BY <1>3, <1>10, <2>3, <4>1, Sizes
    <3>3. c.nodes[c.r].use = 0 BY <2>4, <3>1, <3>2 DEF Lesser
    <3>4. d.r = After(c, c.r) BY <1>3, <1>10, <2>3, <2>4, <3>1, <3>3
    <3>5. c.r \notin Laden(c) BY <3>3 DEF Laden
    <3>6. \A i \in 1 .. Len(c.nodes) : d.nodes[i].use = c.nodes[i].use
      <4>1. nd.use \in 0 .. Cap BY NodeParts
      <4>2. nd.use = c.nodes[c.r].use BY <2>4, <3>1, <3>3, <4>1, Sizes
      <4>. QED BY <2>4, <4>2 DEF Becomes
    <3>7. Len(d.nodes) = Len(c.nodes) BY <2>4 DEF Becomes
    <3>8. Laden(d) = Laden(c) BY <3>6, <3>7 DEF Laden
    <3>9. d.r = IF c.r = Len(c.nodes) THEN 1 ELSE c.r + 1 BY <3>4 DEF After
    <3>10. StepsTo(Len(c.nodes), d.r, Laden(c)) < StepsTo(Len(c.nodes), c.r, Laden(c))
      <4>1. PICK l, S : l = Len(c.nodes) /\ S = Laden(c) OBVIOUS
      <4>2. /\ l \in Nat \ {0} /\ c.r \in 1 .. l /\ S \in SUBSET (1 .. l) /\ S # {}
            /\ c.r \notin S /\ d.r = IF c.r = l THEN 1 ELSE c.r + 1
        BY <1>5, <1>6, <1>10, <3>5, <3>9, <4>1
      <4>3. StepsTo(l, d.r, S) < StepsTo(l, c.r, S) BY <4>2, StepsFall
      <4>. QED BY <4>1, <4>3
    <3>11. r2[d] = StepsTo(Len(c.nodes), d.r, Laden(c))
      BY <1>10, <2>7, <3>1, <3>7, <3>8
    <3>12. r2[c] = StepsTo(Len(c.nodes), c.r, Laden(c)) BY <1>10
    <3>. QED BY <2>1, <2>7, <2>8, <3>1, <3>10, <3>11, <3>12 DEF Lower
  <2>. QED BY <2>9, <2>10
<1>11. b \in I BY <1>3
<1>12. PICK x : x = MoveReadPos(b, n) OBVIOUS
<1>13. x \in I /\ ~(x.size > goal)
  <2>. HIDE DEF I, r1, r2
  <2>. QED BY <1>2, <1>7, <1>8, <1>9, <1>10, <1>11, <1>12, DropKeeps
<1>14. x.size = goal BY <1>3, <1>5, <1>13
<1>. QED BY <1>2, <1>12, <1>13, <1>14

----------------------------------------------------------------------------
(* The areas that are given out.                                           *)

\* GetWriteBuffer gives out no more than it was asked for.
LEMMA SpaceTaken ==
    ASSUME NEW b \in Rings, NEW n \in Nat
    PROVE  /\ GetWriteBuffer(b, n) \in Nat
           /\ GetWriteBuffer(b, n) <= Lesser(MaxIov * Cap, n)
<1>1. PICK most : most = Lesser(MaxIov * Cap, n) OBVIOUS
<1>2. most \in Nat
  <2>1. MaxIov * Cap \in Nat BY Sizes
  <2>. QED BY <1>1, <2>1, LesserOf
<1>. DEFINE S == [it : DOMAIN b.nodes, i : Nat, left : Nat]
            P(f) == f = [s \in S |-> IF s.i < MaxIov /\ s.left > 0
                                     THEN f[AreaTurn(b, s)] ELSE most - s.left]
            G == {s \in S : s.i < MaxIov /\ s.left > 0}
            g == [s \in S |-> AreaTurn(b, s)]
            v == [s \in S |-> most - s.left]
            I == {s \in S : s.left <= most}
            r == [s \in I |-> IF s.i < MaxIov THEN MaxIov - s.i ELSE 0]
            start == [it |-> b.w, i |-> 0, left |-> most]
<1>3. ASSUME NEW s \in S
      PROVE  /\ AreaTurn(b, s) \in S /\ AreaTurn(b, s).i = s.i + 1
             /\ AreaTurn(b, s).left <= s.left
  <2>1. s.it \in 1 .. Len(b.nodes) /\ s.i \in Nat /\ s.left \in Nat BY RingParts
  <2>2. /\ Room(b.nodes[s.it]) \in 0 .. Cap /\ After(b, s.it) \in 1 .. Len(b.nodes)
        /\ DOMAIN b.nodes = 1 .. Len(b.nodes)
    BY <2>1, RingParts
  <2>3. PICK m : m = Lesser(s.left, Room(b.nodes[s.it])) OBVIOUS
  <2>4. m \in Nat /\ m <= s.left
    <3>1. Room(b.nodes[s.it]) \in Nat BY <2>2, Sizes
    <3>. QED BY <2>1, <2>3, <3>1, LesserOf
  <2>5. AreaTurn(b, s) = [it |-> After(b, s.it), i |-> s.i + 1, left |-> s.left - m]
    BY <2>3 DEF AreaTurn
  <2>6. s.left - m \in Nat /\ s.left - m <= s.left BY <2>1, <2>4
  <2>. QED BY <2>1, <2>2, <2>5, <2>6
<1>4. \A s \in S : g[s] = AreaTurn(b, s) /\ v[s] = most - s.left OBVIOUS
<1>5. \A s \in S : s \in G <=> s.i < MaxIov /\ s.left > 0 OBVIOUS
<1>6. \A s \in S : s.i \in Nat /\ s.left \in Nat OBVIOUS
<1>7. r \in [I -> Nat] BY Sizes
<1>8. start \in I BY <1>2, RingParts
<1>9. I \in SUBSET S OBVIOUS
<1>10. ASSUME NEW s \in I, s \in G PROVE g[s] \in I /\ Lower(r, r, g[s], s)
  <2>1. PICK x : x = AreaTurn(b, s) OBVIOUS
  <2>2. x \in S /\ x.i = s.i + 1 /\ x.left <= s.left /\ s.left <= most
        /\ s.i < MaxIov /\ s.i \in Nat /\ s.left \in Nat /\ x.left \in Nat
    BY <1>3, <1>6, <1>10, <2>1
  <2>3. x \in I BY <1>2, <2>2
  <2>4. r[s] = MaxIov - s.i /\ r[x] = IF x.i < MaxIov THEN MaxIov - x.i ELSE 0
    BY <2>2, <2>3
  <2>5. r[x] < r[s] BY <2>2, <2>4, Sizes
  <2>. QED BY <1>4, <1>9, <2>1, <2>3, <2>5 DEF Lower
<1>. HIDE DEF G, g, v, I, r
<1>11. \A s \in S : s \in G => g[s] \in S BY <1>3, <1>4
<1>. HIDE DEF S
<1>12. PICK f : IsLoop(f, S, G, g, v) BY <1>11, LoopExists
<1>13. P(f) BY <1>4, <1>5, <1>12 DEF IsLoop
<1>14. PICK h : h = CHOOSE x : P(x) OBVIOUS
<1>15. P(h)
  <2>. HIDE DEF P
  <2>. QED BY <1>13, <1>14
<1>16. GetWriteBuffer(b, n) = h[start] BY <1>1, <1>14 DEF GetWriteBuffer, S
<1>17. IsLoop(h, S, G, g, v) BY <1>4, <1>5, <1>15 DEF IsLoop
<1>. HIDE DEF P, start
<1>18. \A s \in I : \E y \in I \ G : h[s] = v[y] BY <1>7, <1>9, <1>10, <1>17, LoopKeeps
<1>19. PICK y \in I : h[start] = v[y] BY <1>8, <1>18
<1>20. y \in S /\ y.left \in Nat /\ y.left <= most /\ v[y] = most - y.left
  BY <1>4, <1>6, <1>9, <1>19 DEF I
<1>21. most - y.left \in Nat /\ most - y.left <= most BY <1>2, <1>20
<1>. QED BY <1>1, <1>16, <1>19, <1>20, <1>21

\* The bytes behind the cursor of a node.
LEMMA UnreadType ==
    ASSUME NEW nd \in Nodes, NEW n \in Nat
    PROVE  /\ Unread(nd, n) \in Seq(Nat) /\ Len(Unread(nd, n)) = n
           /\ \A i \in 1 .. n : nd.rc + n <= Cap => Unread(nd, n)[i] = nd.cell[nd.rc + i]
<1>1. nd.rc \in Nat /\ nd.cell \in [1 .. Cap -> Nat] BY NodeParts
<1>2. PICK u : u = Unread(nd, n) OBVIOUS
<1>3. u = [i \in 1 .. n |-> IF nd.rc + i <= Cap THEN nd.cell[nd.rc + i] ELSE 0]
  BY <1>2 DEF Unread
<1>4. \A i \in 1 .. n : (nd.rc + i <= Cap => nd.rc + i \in 1 .. Cap) BY <1>1, Sizes
<1>5. u \in [1 .. n -> Nat] BY <1>1, <1>3, <1>4
<1>6. u \in Seq(Nat) /\ Len(u) = n BY <1>5
<1>7. \A i \in 1 .. n : nd.rc + n <= Cap => nd.rc + i <= Cap BY <1>1, Sizes, SMTT(60)
<1>. QED BY <1>2, <1>3, <1>6, <1>7

PeekStates(b) == [it : DOMAIN b.nodes, i : Nat, out : Seq(Nat)]

\* A turn of Peek appends bytes of one node.
LEMMA PeekTurnIs ==
    ASSUME NEW b \in Rings, NEW n \in Nat, NEW s \in PeekStates(b), Len(s.out) < n
    PROVE  \E m \in Nat :
              /\ s.it \in 1 .. Len(b.nodes) /\ s.i \in Nat /\ s.out \in Seq(Nat)
              /\ m = Lesser(n - Len(s.out), b.nodes[s.it].use)
              /\ PeekTurn(b, n, s) \in PeekStates(b)
              /\ PeekTurn(b, n, s).it = After(b, s.it) /\ PeekTurn(b, n, s).i = s.i + 1
              /\ PeekTurn(b, n, s).out = s.out \o Unread(b.nodes[s.it], m)
<1>. PICK m, x : /\ m = Lesser(n - Len(s.out), b.nodes[s.it].use)
                 /\ x = PeekTurn(b, n, s)
  OBVIOUS
<1>1. DOMAIN b.nodes = 1 .. Len(b.nodes) BY RingParts
<1>2. s.it \in 1 .. Len(b.nodes) /\ s.i \in Nat /\ s.out \in Seq(Nat)
  BY <1>1 DEF PeekStates
<1>3. /\ b.nodes[s.it] \in Nodes /\ b.nodes[s.it].use \in 0 .. Cap
      /\ After(b, s.it) \in 1 .. Len(b.nodes)
  BY <1>2, RingParts
<1>4. m \in Nat
  <2>1. n - Len(s.out) \in Nat BY <1>2
  <2>2. b.nodes[s.it].use \in Nat BY <1>3, Sizes
  <2>. QED BY <2>1, <2>2, LesserOf
<1>5. PICK u : u = Unread(b.nodes[s.it], m) OBVIOUS
<1>6. u \in Seq(Nat) BY <1>3, <1>4, <1>5, UnreadType
<1>7. s.out \o u \in Seq(Nat) BY <1>2, <1>6, ConcatProperties
<1>8. x = [it |-> After(b, s.it), i |-> s.i + 1, out |-> s.out \o u]
  BY <1>5 DEF PeekTurn
<1>9. x \in PeekStates(b) BY <1>1, <1>2, <1>3, <1>7, <1>8 DEF PeekStates
<1>10. x.it = After(b, s.it) /\ x.i = s.i + 1 /\ x.out = s.out \o u BY <1>8
<1>. QED BY <1>2, <1>4, <1>5, <1>9, <1>10

\* What the turns of Peek keep it returns: it visits a node each turn.
LEMMA PeekKeeps ==
    ASSUME NEW b \in Rings, NEW n \in Nat, NEW k \in Nat, NEW I \in SUBSET PeekStates(b),
           \A s \in I : s.i < k /\ Len(s.out) < n => PeekTurn(b, n, s) \in I,
           [it |-> b.r, i |-> 0, out |-> <<>>] \in I
    PROVE  \E s \in I : ~(s.i < k /\ Len(s.out) < n) /\ Peek(b, n, k) = s.out
<1>. DEFINE S == PeekStates(b)
            P(f) == f = [s \in [it : DOMAIN b.nodes, i : Nat, out : Seq(Nat)] |->
                            IF s.i < k /\ Len(s.out) < n
                            THEN f[PeekTurn(b, n, s)] ELSE s.out]
            G == {s \in S : s.i < k /\ Len(s.out) < n}
            g == [s \in S |-> PeekTurn(b, n, s)]
            v == [s \in S |-> s.out]
            r == [s \in I |-> IF s.i < k THEN k - s.i ELSE 0]
            start == [it |-> b.r, i |-> 0, out |-> <<>>]
<1>1. ASSUME NEW s \in S, Len(s.out) < n
      PROVE  PeekTurn(b, n, s) \in S /\ PeekTurn(b, n, s).i = s.i + 1
  BY <1>1, PeekTurnIs
<1>4. \A s \in S : g[s] = PeekTurn(b, n, s) /\ v[s] = s.out OBVIOUS
<1>5. \A s \in S : s \in G <=> s.i < k /\ Len(s.out) < n OBVIOUS
<1>6. \A s \in S : s.i \in Nat BY DEF PeekStates
<1>7. r \in [I -> Nat] BY <1>6
<1>8. start \in I OBVIOUS
<1>9. I \in SUBSET S OBVIOUS
<1>10. ASSUME NEW s \in I, s \in G PROVE g[s] \in I /\ Lower(r, r, g[s], s)
  <2>1. PICK x : x = PeekTurn(b, n, s) OBVIOUS
  <2>2. s \in S /\ s.i < k /\ Len(s.out) < n BY <1>5, <1>9, <1>10
  <2>3. x \in I /\ x.i = s.i + 1 /\ s.i \in Nat BY <1>1, <1>6, <2>1, <2>2
  <2>4. r[s] = k - s.i /\ r[x] = IF x.i < k THEN k - x.i ELSE 0
    BY <2>2, <2>3
  <2>5. r[x] < r[s] BY <2>2, <2>3, <2>4
  <2>. QED BY <1>4, <2>1, <2>2, <2>3, <2>5 DEF Lower
<1>. HIDE DEF G, g, v, r
<1>11. \A s \in S : s \in G => g[s] \in S BY <1>1, <1>4, <1>5
<1>12. PICK f : IsLoop(f, S, G, g, v) BY <1>11, LoopExists
<1>13. P(f) BY <1>4, <1>5, <1>12 DEF IsLoop, PeekStates
<1>14. PICK h : h = CHOOSE x : P(x) OBVIOUS
<1>15. P(h)
  <2>. HIDE DEF P
  <2>. QED BY <1>13, <1>14
<1>16. Peek(b, n, k) = h[start] BY <1>14 DEF Peek
<1>17. IsLoop(h, S, G, g, v) BY <1>4, <1>5, <1>15 DEF IsLoop, PeekStates
<1>. HIDE DEF P, start, S
<1>18. \A s \in I : \E y \in I \ G : h[s] = v[y] BY <1>7, <1>9, <1>10, <1>17, LoopKeeps
<1>19. PICK y \in I \ G : h[start] = v[y] BY <1>8, <1>18
<1>20. y \in I /\ v[y] = y.out /\ ~(y.i < k /\ Len(y.out) < n)
  BY <1>4, <1>5, <1>9, <1>19
<1>. QED BY <1>16, <1>19, <1>20

\* Peek returns bytes.
LEMMA PeekType ==
    ASSUME NEW b \in Rings, NEW n \in Nat, NEW k \in Nat
    PROVE  Peek(b, n, k) \in Seq(Nat)
<1>1. PICK I : I = PeekStates(b) OBVIOUS
<1>2. \A s \in I : s.i < k /\ Len(s.out) < n => PeekTurn(b, n, s) \in I
  BY <1>1, PeekTurnIs
<1>3. [it |-> b.r, i |-> 0, out |-> <<>>] \in I BY <1>1, RingParts DEF PeekStates
<1>4. I \in SUBSET PeekStates(b) BY <1>1
<1>5. \E s \in I : Peek(b, n, k) = s.out BY <1>2, <1>3, <1>4, PeekKeeps
<1>. QED BY <1>1, <1>5 DEF PeekStates

----------------------------------------------------------------------------
(* The bytes s that a ring holds: k nodes from the one that is read have   *)
(* bytes, the j-th of them those behind the first o[j]; the others are as  *)
(* good as new.                                                            *)

At(b, j) == Ahead(Len(b.nodes), b.r, j)

\* The node has the bytes of s behind the first f, up to and with the t-th.
Piece(nd, s, f, t) ==
    /\ nd.use = t - f /\ nd.rc + nd.use <= Cap
    /\ \A i \in 1 .. nd.use : nd.cell[nd.rc + i] = s[f + i]

Marks(s, k, o) ==
    /\ s \in Seq(Nat) /\ k \in Nat /\ o \in [0 .. k -> 0 .. Len(s)]
    /\ o[0] = 0 /\ o[k] = Len(s)
    /\ \A i, j \in 0 .. k : i < j => o[i] < o[j]

Holds(b, s, k, o) ==
    /\ b \in Rings /\ b.size = Len(s) /\ Marks(s, k, o) /\ k <= Len(b.nodes)
    /\ \A j \in 0 .. k - 1 : /\ Piece(b.nodes[At(b, j)], s, o[j], o[j + 1])
                             /\ j > 0 => b.nodes[At(b, j)].rc = 0
    /\ \A j \in k .. Len(b.nodes) - 1 : Clear(b.nodes[At(b, j)])

\* The last node with bytes is the one that is written.
Ends(b, k) == b.w = IF k = 0 THEN b.r ELSE At(b, k - 1)

\* Going round the ring once visits every position once.
LEMMA AheadIs ==
    ASSUME NEW l \in Nat \ {0}, NEW i \in 1 .. l
    PROVE  /\ \A j \in 0 .. l : Ahead(l, i, j) \in 1 .. l
           /\ Ahead(l, i, 0) = i /\ Ahead(l, i, l) = i
           /\ \A j \in 0 .. l - 1 :
                 Ahead(l, i, j + 1) = IF Ahead(l, i, j) = l THEN 1 ELSE Ahead(l, i, j) + 1
           /\ \A j, h \in 0 .. l - 1 : Ahead(l, i, j) = Ahead(l, i, h) => j = h
           /\ \A x \in 1 .. l : \E j \in 0 .. l - 1 : x = Ahead(l, i, j)
<1>1. ASSUME NEW x \in 1 .. l PROVE \E j \in 0 .. l - 1 : x = Ahead(l, i, j)
  <2>1. PICK j : j = IF i <= x THEN x - i ELSE x + l - i OBVIOUS
  <2>2. j \in 0 .. l - 1 /\ x = Ahead(l, i, j) BY <2>1 DEF Ahead
  <2>. QED BY <2>2
<1>. QED BY <1>1 DEF Ahead

\* The same, from the node that is read.
LEMMA AtIs ==
    ASSUME NEW b \in Rings
    PROVE  /\ \A j \in 0 .. Len(b.nodes) : At(b, j) \in 1 .. Len(b.nodes)
           /\ At(b, 0) = b.r /\ At(b, Len(b.nodes)) = b.r
           /\ \A j \in 0 .. Len(b.nodes) - 1 : At(b, j + 1) = After(b, At(b, j))
           /\ \A j, h \in 0 .. Len(b.nodes) - 1 : At(b, j) = At(b, h) => j = h
           /\ \A x \in 1 .. Len(b.nodes) : \E j \in 0 .. Len(b.nodes) - 1 : x = At(b, j)
<1>1. PICK l, i : l = Len(b.nodes) /\ i = b.r OBVIOUS
<1>2. l \in Nat \ {0} /\ i \in 1 .. l BY <1>1, RingParts
<1>3. \A j : At(b, j) = Ahead(l, i, j) BY <1>1 DEF At
<1>4. \A j : After(b, j) = IF j = l THEN 1 ELSE j + 1 BY <1>1 DEF After
<1>5. \A j \in 0 .. l : At(b, j) \in 1 .. l BY <1>2, <1>3, AheadIs
<1>6. At(b, 0) = b.r /\ At(b, l) = b.r
  <2>1. Ahead(l, i, 0) = i /\ Ahead(l, i, l) = i BY <1>2, AheadIs
  <2>. QED BY <1>1, <1>3, <2>1
<1>7. ASSUME NEW j \in 0 .. l - 1 PROVE At(b, j + 1) = After(b, At(b, j))
  <2>1. Ahead(l, i, j + 1) = IF Ahead(l, i, j) = l THEN 1 ELSE Ahead(l, i, j) + 1
    BY <1>2, AheadIs
  <2>. QED BY <1>3, <1>4, <2>1
<1>8. ASSUME NEW j \in 0 .. l - 1, NEW h \in 0 .. l - 1, At(b, j) = At(b, h)
      PROVE  j = h
  BY <1>2, <1>3, <1>8, AheadIs
<1>9. ASSUME NEW x \in 1 .. l PROVE \E j \in 0 .. l - 1 : x = At(b, j)
  BY <1>2, <1>3, AheadIs
<1>. QED BY <1>1, <1>5, <1>6, <1>7, <1>8, <1>9

\* The marks grow from 0 to the length of the sequence.
LEMMA MarksParts ==
    ASSUME NEW s, NEW k, NEW o, Marks(s, k, o)
    PROVE  /\ s \in Seq(Nat) /\ Len(s) \in Nat /\ k \in Nat
           /\ o[0] = 0 /\ o[k] = Len(s) /\ (k = 0 <=> s = <<>>)
           /\ \A j \in 0 .. k : o[j] \in Nat /\ o[j] <= Len(s)
           /\ \A j \in 0 .. k - 1 : o[j] \in Nat /\ o[j + 1] \in Nat
                                   /\ o[j] < o[j + 1] /\ o[j + 1] <= Len(s)
<1>1. s \in Seq(Nat) /\ k \in Nat /\ o[0] = 0 /\ o[k] = Len(s) BY DEF Marks
<1>2. Len(s) \in Nat BY <1>1
<1>3. ASSUME NEW j \in 0 .. k PROVE o[j] \in Nat /\ o[j] <= Len(s)
  <2>1. o[j] \in 0 .. Len(s) BY DEF Marks
  <2>. QED BY <1>2, <2>1
<1>4. ASSUME NEW j \in 0 .. k - 1
      PROVE  o[j] \in Nat /\ o[j + 1] \in Nat /\ o[j] < o[j + 1] /\ o[j + 1] <= Len(s)
  <2>1. j \in 0 .. k /\ j + 1 \in 0 .. k /\ j < j + 1 BY <1>1
  <2>. QED BY <1>3, <2>1 DEF Marks
<1>5. k = 0 <=> s = <<>>
  <2>1. CASE k = 0
    <3>1. Len(s) = 0 BY <1>1, <2>1
    <3>. QED BY <1>1, <2>1, <3>1
  <2>2. CASE k # 0
    <3>1. 0 \in 0 .. k /\ k \in 0 .. k /\ 0 < k BY <1>1, <2>2
    <3>2. o[0] < o[k] BY <3>1 DEF Marks
    <3>3. s # <<>> BY <1>1, <3>2
    <3>. QED BY <2>2, <3>3
  <2>. QED BY <2>1, <2>2
<1>. QED BY <1>1, <1>2, <1>3, <1>4, <1>5

\* The last n of a sequence.
Rear(s, n) == SubSeq(s, Len(s) - n + 1, Len(s))

\* The last n bytes of a sequence.
LEMMA RearIs ==
    ASSUME NEW s \in Seq(Nat), NEW n \in Nat, n <= Len(s)
    PROVE  /\ Rear(s, n) \in Seq(Nat) /\ Len(Rear(s, n)) = n
           /\ \A i \in 1 .. n : Rear(s, n)[i] = s[Len(s) - n + i]
<1>1. PICK a, l, x : a = Len(s) - n + 1 /\ l = Len(s) /\ x = Rear(s, n) OBVIOUS
<1>2. a \in Nat \ {0} /\ l \in Nat /\ a <= l + 1 /\ l - a + 1 = n BY <1>1
<1>3. x = SubSeq(s, a, l) BY <1>1 DEF Rear
<1>4. /\ x \in Seq(Nat) /\ Len(x) = l - a + 1
      /\ \A i \in 1 .. l - a + 1 : x[i] = s[a + i - 1]
  BY <1>1, <1>2, <1>3, SubSeqOf
<1>5. ASSUME NEW i \in 1 .. n PROVE x[i] = s[Len(s) - n + i]
  <2>1. i \in 1 .. l - a + 1 /\ a + i - 1 = Len(s) - n + i BY <1>1, <1>2
  <2>. QED BY <1>4, <2>1
<1>. QED BY <1>1, <1>2, <1>4, <1>5

\* Sequences with the same bytes are the same.
LEMMA SameSeq ==
    ASSUME NEW s \in Seq(Nat), NEW u \in Seq(Nat), Len(s) = Len(u),
           \A i \in 1 .. Len(s) : s[i] = u[i]
    PROVE  s = u
BY SMTT(60)

\* The last bytes of the last bytes.
LEMMA RearRear ==
    ASSUME NEW s \in Seq(Nat), NEW n \in Nat, n <= Len(s), NEW m \in Nat, m <= n
    PROVE  Rear(Rear(s, n), m) = Rear(s, m)
<1>1. PICK u, x, y : u = Rear(s, n) /\ x = Rear(u, m) /\ y = Rear(s, m) OBVIOUS
<1>2. /\ u \in Seq(Nat) /\ Len(u) = n
      /\ \A i \in 1 .. n : u[i] = s[Len(s) - n + i]
  BY <1>1, RearIs
<1>3. x \in Seq(Nat) /\ Len(x) = m /\ \A i \in 1 .. m : x[i] = u[n - m + i]
  <2>1. m <= Len(u) BY <1>2
  <2>2. /\ x \in Seq(Nat) /\ Len(x) = m
        /\ \A i \in 1 .. m : x[i] = u[Len(u) - m + i]
    BY <1>1, <1>2, <2>1, RearIs
  <2>. QED BY <1>2, <2>2
<1>4. /\ y \in Seq(Nat) /\ Len(y) = m
      /\ \A i \in 1 .. m : y[i] = s[Len(s) - m + i]
  <2>1. m <= Len(s) OBVIOUS
  <2>. QED BY <1>1, <2>1, RearIs
<1>5. ASSUME NEW i \in 1 .. m PROVE x[i] = y[i]
  <2>1. n - m + i \in 1 .. n /\ Len(s) - n + (n - m + i) = Len(s) - m + i OBVIOUS
  <2>2. u[n - m + i] = s[Len(s) - n + (n - m + i)] BY <1>2, <2>1
  <2>. QED BY <1>3, <1>4, <2>1, <2>2
<1>6. x = y BY <1>3, <1>4, <1>5, SameSeq
<1>. QED BY <1>1, <1>6

\* The first a bytes and the next ones are the first c.
LEMMA Continued ==
    ASSUME NEW s \in Seq(Nat), NEW x \in Nat, NEW y \in Nat, x <= y, y <= Len(s),
           NEW u \in Seq(Nat), Len(u) = y - x, \A i \in 1 .. Len(u) : u[i] = s[x + i]
    PROVE  SubSeq(s, 1, x) \o u = SubSeq(s, 1, y)
<1>1. PICK p, q, z : p = SubSeq(s, 1, x) /\ q = SubSeq(s, 1, y) /\ z = p \o u OBVIOUS
<1>2. /\ p \in Seq(Nat) /\ Len(p) = x /\ \A i \in 1 .. x : p[i] = s[i]
      /\ q \in Seq(Nat) /\ Len(q) = y /\ \A i \in 1 .. y : q[i] = s[i]
  BY <1>1
<1>3. /\ z \in Seq(Nat) /\ Len(z) = Len(p) + Len(u)
      /\ \A i \in 1 .. Len(p) + Len(u) : z[i] = IF i <= Len(p) THEN p[i] ELSE u[i - Len(p)]
  <2>1. p \in Seq(Nat) /\ u \in Seq(Nat) /\ z = p \o u BY <1>1, <1>2
  <2>. QED BY <2>1, ConcatProperties
<1>4. Len(z) = y BY <1>2, <1>3
<1>5. ASSUME NEW i \in 1 .. y PROVE z[i] = q[i]
  <2>. USE <1>2, <1>3, <1>4
  <2>1. CASE i <= x
    <3>1. i \in 1 .. x /\ i \in 1 .. Len(p) + Len(u) /\ i <= Len(p) BY <2>1
    <3>. QED BY <3>1
  <2>2. CASE ~(i <= x)
    <3>1. i - x \in 1 .. Len(u) /\ x + (i - x) = i BY <2>2
    <3>2. u[i - x] = s[x + (i - x)] BY <3>1
    <3>. QED BY <1>2, <1>3, <1>4, <2>2, <3>1, <3>2
  <2>. QED BY <2>1, <2>2
<1>6. z = q BY <1>2, <1>3, <1>4, <1>5, SameSeq
<1>. QED BY <1>1, <1>6

\* A sequence is its front and its rear.
LEMMA FrontRear ==
    ASSUME NEW s \in Seq(Nat), NEW n \in Nat, n <= Len(s)
    PROVE  SubSeq(s, 1, Len(s) - n) \o Rear(s, n) = s
<1>1. PICK x, y, u : x = Len(s) - n /\ y = Len(s) /\ u = Rear(s, n) OBVIOUS
<1>2. /\ x \in Nat /\ y \in Nat /\ x <= y /\ y - x = n /\ u \in Seq(Nat) /\ Len(u) = n
      /\ \A i \in 1 .. n : u[i] = s[x + i]
  <2>1. u \in Seq(Nat) /\ Len(u) = n /\ \A i \in 1 .. n : u[i] = s[Len(s) - n + i]
    BY <1>1, RearIs
  <2>. QED BY <1>1, <2>1
<1>3. SubSeq(s, 1, x) \o u = SubSeq(s, 1, y)
  <2>1. y <= Len(s) /\ Len(u) = y - x /\ \A i \in 1 .. Len(u) : u[i] = s[x + i]
    BY <1>1, <1>2
  <2>. QED BY <1>2, <2>1, Continued
<1>4. SubSeq(s, 1, y) = s BY <1>1
<1>. QED BY <1>1, <1>3, <1>4

\* What a ring that holds a sequence is made of.
LEMMA HoldsParts ==
    ASSUME NEW b, NEW s, NEW k, NEW o, Holds(b, s, k, o)
    PROVE  /\ b \in Rings /\ b.size = Len(s) /\ Marks(s, k, o) /\ k \in 0 .. Len(b.nodes)
           /\ \A j \in 0 .. k - 1 :
                 /\ At(b, j) \in 1 .. Len(b.nodes) /\ b.nodes[At(b, j)] \in Nodes
                 /\ Piece(b.nodes[At(b, j)], s, o[j], o[j + 1])
                 /\ j > 0 => b.nodes[At(b, j)].rc = 0
           /\ \A j \in k .. Len(b.nodes) - 1 : Clear(b.nodes[At(b, j)])
<1>1. b \in Rings /\ Marks(s, k, o) /\ k <= Len(b.nodes) BY DEF Holds
<1>2. k \in 0 .. Len(b.nodes) /\ k \in Nat /\ Len(b.nodes) \in Nat
  BY <1>1, RingParts, MarksParts
<1>3. \A j \in 0 .. k - 1 :
          At(b, j) \in 1 .. Len(b.nodes) /\ b.nodes[At(b, j)] \in Nodes
  <2>. TAKE j \in 0 .. k - 1
  <2>1. j \in 0 .. Len(b.nodes) BY <1>1, <1>2, RingParts
  <2>2. At(b, j) \in 1 .. Len(b.nodes) BY <1>1, <2>1, AtIs
  <2>. QED BY <1>1, <2>2, RingParts
<1>4. b.size = Len(s) /\ \A j \in k .. Len(b.nodes) - 1 : Clear(b.nodes[At(b, j)])
  BY DEF Holds
<1>5. \A j \in 0 .. k - 1 : /\ Piece(b.nodes[At(b, j)], s, o[j], o[j + 1])
                            /\ j > 0 => b.nodes[At(b, j)].rc = 0
  BY DEF Holds
<1>. QED BY <1>1, <1>2, <1>3, <1>4, <1>5

\* What reading finds: the bytes of the first areas, all of them at most.
LEMMA PeekHolds ==
    ASSUME NEW b, NEW s, NEW k, NEW o, Holds(b, s, k, o), NEW most \in Nat
    PROVE  \E j \in 0 .. k : /\ Peek(b, b.size, most) = SubSeq(s, 1, o[j])
                             /\ j = k \/ j >= most
<1>1. /\ b \in Rings /\ b.size = Len(s) /\ Marks(s, k, o) /\ k \in 0 .. Len(b.nodes)
      /\ Len(b.nodes) \in Nat /\ DOMAIN b.nodes = 1 .. Len(b.nodes)
  BY HoldsParts, RingParts
<1>2. s \in Seq(Nat) /\ Len(s) \in Nat /\ k \in Nat /\ o[0] = 0 /\ o[k] = Len(s)
  BY <1>1, MarksParts
<1>3. ASSUME NEW j \in 0 .. k
      PROVE  SubSeq(s, 1, o[j]) \in Seq(Nat) /\ Len(SubSeq(s, 1, o[j])) = o[j]
  <2>1. PICK x : x = o[j] OBVIOUS
  <2>2. x \in Nat /\ x <= Len(s) BY <1>1, <2>1, MarksParts
  <2>3. SubSeq(s, 1, x) \in Seq(Nat) /\ Len(SubSeq(s, 1, x)) = x BY <1>2, <2>2
  <2>. QED BY <2>1, <2>3
<1>. DEFINE I == {t \in PeekStates(b) :
                     t.i \in 0 .. k /\ t.it = At(b, t.i) /\ t.out = SubSeq(s, 1, o[t.i])}
            start == [it |-> b.r, i |-> 0, out |-> <<>>]
<1>4. I \in SUBSET PeekStates(b) OBVIOUS
<1>5. start \in I
  <2>1. SubSeq(s, 1, o[0]) = <<>> BY <1>2
  <2>2. At(b, 0) = b.r /\ b.r \in DOMAIN b.nodes BY <1>1, AtIs, RingParts
  <2>3. start \in PeekStates(b) BY <2>2 DEF PeekStates
  <2>4. 0 \in 0 .. k BY <1>2
  <2>. QED BY <2>1, <2>2, <2>3, <2>4
<1>6. ASSUME NEW t \in I, Len(t.out) < Len(s) PROVE PeekTurn(b, Len(s), t) \in I
  <2>1. PICK i, x : i = t.i /\ x = PeekTurn(b, Len(s), t) OBVIOUS
  <2>2. t \in PeekStates(b) /\ i \in 0 .. k /\ t.it = At(b, i)
        /\ t.out = SubSeq(s, 1, o[i]) /\ Len(t.out) = o[i]
    BY <1>3, <2>1
  <2>3. i \in 0 .. k - 1 BY <1>2, <1>6, <2>2
  <2>4. PICK m \in Nat :
           /\ m = Lesser(Len(s) - Len(t.out), b.nodes[t.it].use)
           /\ x \in PeekStates(b) /\ x.it = After(b, t.it) /\ x.i = t.i + 1
           /\ x.out = t.out \o Unread(b.nodes[t.it], m)
    BY <1>1, <1>2, <1>6, <2>1, <2>2, PeekTurnIs
  <2>5. PICK nd, y, z : nd = b.nodes[t.it] /\ y = o[i] /\ z = o[i + 1] OBVIOUS
  <2>6. nd \in Nodes /\ Piece(nd, s, y, z) BY <2>2, <2>3, <2>5, HoldsParts
  <2>7. y \in Nat /\ z \in Nat /\ y < z /\ z <= Len(s)
    BY <1>1, <2>3, <2>5, MarksParts
  <2>8. nd.use = z - y /\ nd.rc + nd.use <= Cap
        /\ \A h \in 1 .. nd.use : nd.cell[nd.rc + h] = s[y + h]
    BY <2>6 DEF Piece
  <2>9. m = z - y
    <3>1. m = Lesser(Len(s) - y, nd.use) BY <2>2, <2>4, <2>5
    <3>. QED BY <1>2, <2>7, <2>8, <3>1 DEF Lesser
  <2>10. PICK u : u = Unread(nd, m) OBVIOUS
  <2>11. u \in Seq(Nat) /\ Len(u) = z - y /\ \A h \in 1 .. Len(u) : u[h] = s[y + h]
    <3>1. u \in Seq(Nat) /\ Len(u) = m BY <2>4, <2>6, <2>10, UnreadType
    <3>2. ASSUME NEW h \in 1 .. m PROVE u[h] = s[y + h]
      <4>1. nd.rc + m <= Cap BY <2>7, <2>8, <2>9, SMTT(60)
      <4>2. u[h] = nd.cell[nd.rc + h] BY <2>4, <2>6, <2>10, <4>1, UnreadType
      <4>. QED BY <2>7, <2>8, <2>9, <4>2
    <3>. QED BY <2>9, <3>1, <3>2
  <2>12. SubSeq(s, 1, y) \o u = SubSeq(s, 1, z)
    <3>1. y <= z /\ y \in Nat /\ z \in Nat /\ z <= Len(s) /\ s \in Seq(Nat)
      BY <1>2, <2>7
    <3>. QED BY <2>11, <3>1, Continued, SMTT(60)
  <2>13. x.out = SubSeq(s, 1, o[x.i]) BY <2>1, <2>2, <2>4, <2>5, <2>10, <2>12, ZenonT(60)
  <2>14. x.it = At(b, x.i)
    <3>1. i \in 0 .. Len(b.nodes) - 1 BY <1>1, <1>2, <2>3
    <3>2. At(b, i + 1) = After(b, At(b, i)) BY <1>1, <3>1, AtIs
    <3>. QED BY <2>1, <2>2, <2>4, <3>2
  <2>15. x.i \in 0 .. k BY <1>2, <2>1, <2>3, <2>4
  <2>. QED BY <2>1, <2>4, <2>13, <2>14, <2>15
<1>7. PICK t \in I : ~(t.i < most /\ Len(t.out) < Len(s)) /\ Peek(b, Len(s), most) = t.out
  <2>. HIDE DEF I
  <2>. QED BY <1>1, <1>2, <1>4, <1>5, <1>6, PeekKeeps
<1>8. PICK j : j = t.i OBVIOUS
<1>9. j \in 0 .. k /\ t.out = SubSeq(s, 1, o[j]) /\ Len(t.out) = o[j] BY <1>3, <1>8
<1>10. j = k \/ j >= most
  <2>1. ASSUME j # k PROVE Len(t.out) < Len(s)
    <3>1. j \in 0 .. k /\ k \in 0 .. k /\ j < k BY <1>2, <1>9, <2>1
    <3>2. o[j] < o[k] BY <1>1, <3>1 DEF Marks
    <3>. QED BY <1>2, <1>9, <3>2
  <2>2. t.i < most => ~(Len(t.out) < Len(s)) BY <1>7
  <2>3. ASSUME ~(j >= most) PROVE j = k
    <3>1. j < most BY <1>9, <2>3
    <3>. QED BY <1>8, <2>1, <2>2, <3>1
  <2>. QED BY <2>3
<1>. QED BY <1>1, <1>7, <1>9, <1>10

\* What is left of the marks when n bytes of the first node have been read.
LEMMA MarksDrop ==
    ASSUME NEW s, NEW k, NEW o, Marks(s, k, o), k > 0, NEW n, n = o[1],
           NEW u, u = [j \in 0 .. k - 1 |-> o[j + 1] - n]
    PROVE  Marks(Rear(s, Len(s) - n), k - 1, u)
<1>1. /\ s \in Seq(Nat) /\ Len(s) \in Nat /\ k \in Nat /\ o[0] = 0 /\ o[k] = Len(s)
      /\ \A j \in 0 .. k : o[j] \in Nat /\ o[j] <= Len(s)
  BY MarksParts
<1>2. n \in Nat /\ n <= Len(s) /\ Len(s) - n \in Nat /\ Len(s) - n <= Len(s)
  <2>1. 1 \in 0 .. k BY <1>1
  <2>. QED BY <1>1, <2>1
<1>3. PICK x : x = Rear(s, Len(s) - n) OBVIOUS
<1>4. x \in Seq(Nat) /\ Len(x) = Len(s) - n BY <1>1, <1>2, <1>3, RearIs
<1>5. ASSUME NEW j \in 0 .. k - 1 PROVE u[j] \in 0 .. Len(x) /\ u[j] = o[j + 1] - n
  <2>1. j + 1 \in 0 .. k /\ 1 \in 0 .. k /\ u[j] = o[j + 1] - n BY <1>1
  <2>2. o[j + 1] \in Nat /\ o[j + 1] <= Len(s) BY <1>1, <2>1
  <2>3. n <= o[j + 1]
    <3>1. CASE j = 0 BY <1>2, <3>1
    <3>2. CASE j # 0
      <4>1. 1 < j + 1 BY <3>2
      <4>2. o[1] < o[j + 1] BY <2>1, <4>1 DEF Marks
      <4>. QED BY <1>2, <2>2, <4>2
    <3>. QED BY <3>1, <3>2
  <2>. QED BY <1>2, <1>4, <2>1, <2>2, <2>3
<1>6. ASSUME NEW i \in 0 .. k - 1, NEW j \in 0 .. k - 1, i < j PROVE u[i] < u[j]
  <2>1. i + 1 \in 0 .. k /\ j + 1 \in 0 .. k /\ i + 1 < j + 1 BY <1>1, <1>6
  <2>2. o[i + 1] < o[j + 1] BY <2>1 DEF Marks
  <2>3. PICK y \in Nat, z \in Nat : y = o[i + 1] /\ z = o[j + 1] BY <1>1, <2>1
  <2>4. u[i] = y - n /\ u[j] = z - n BY <1>5, <2>3
  <2>. QED BY <1>2, <2>2, <2>3, <2>4, SMTT(60)
<1>7. u[0] = 0 /\ u[k - 1] = Len(x) /\ k - 1 \in Nat
  <2>1. 0 \in 0 .. k - 1 /\ k - 1 \in 0 .. k - 1 /\ 0 + 1 = 1 /\ (k - 1) + 1 = k BY <1>1
  <2>2. u[0] = o[1] - n /\ u[k - 1] = o[k] - n BY <1>5, <2>1
  <2>. QED BY <1>1, <1>2, <1>4, <2>1, <2>2
<1>8. u \in [0 .. k - 1 -> 0 .. Len(x)] BY <1>5
<1>. QED BY <1>3, <1>4, <1>6, <1>7, <1>8 DEF Marks

\* The marks when the first node has lost n of its bytes.
LEMMA MarksLess ==
    ASSUME NEW s, NEW k, NEW o, Marks(s, k, o), k > 0, NEW n \in Nat, n < o[1],
           NEW u, u = [j \in 0 .. k |-> IF j = 0 THEN 0 ELSE o[j] - n]
    PROVE  Marks(Rear(s, Len(s) - n), k, u)
<1>1. /\ s \in Seq(Nat) /\ Len(s) \in Nat /\ k \in Nat /\ o[0] = 0 /\ o[k] = Len(s)
      /\ \A j \in 0 .. k : o[j] \in Nat /\ o[j] <= Len(s)
  BY MarksParts
<1>2. ASSUME NEW j \in 1 .. k PROVE n < o[j] /\ u[j] = o[j] - n /\ j \in 0 .. k
  <2>1. j \in 0 .. k /\ 1 \in 0 .. k BY <1>1
  <2>2. n < o[j]
    <3>1. CASE j = 1 BY <3>1
    <3>2. CASE j # 1
      <4>1. 1 < j BY <3>2
      <4>2. o[1] < o[j] BY <2>1, <4>1 DEF Marks
      <4>3. o[1] \in Nat /\ o[j] \in Nat BY <1>1, <2>1
      <4>. QED BY <4>2, <4>3
    <3>. QED BY <3>1, <3>2
  <2>. QED BY <2>1, <2>2
<1>3. PICK x : x = Rear(s, Len(s) - n) OBVIOUS
<1>4. x \in Seq(Nat) /\ Len(x) = Len(s) - n /\ Len(x) \in Nat
  <2>1. k \in 1 .. k BY <1>1
  <2>2. n < Len(s) BY <1>1, <1>2, <2>1
  <2>3. Len(s) - n \in Nat /\ Len(s) - n <= Len(s) BY <1>1, <2>2
  <2>. QED BY <1>1, <1>3, <2>3, RearIs
<1>5. ASSUME NEW j \in 0 .. k PROVE u[j] \in 0 .. Len(x)
  <2>1. CASE j = 0 BY <1>4, <2>1
  <2>2. CASE j # 0
    <3>1. j \in 1 .. k BY <2>2
    <3>2. /\ o[j] \in Nat /\ o[j] <= Len(s) /\ n < o[j] /\ u[j] = o[j] - n
          /\ Len(s) \in Nat
      BY <1>1, <1>2, <3>1
    <3>. QED BY <1>4, <3>2, SMTT(60)
  <2>. QED BY <2>1, <2>2
<1>6. ASSUME NEW i \in 0 .. k, NEW j \in 0 .. k, i < j PROVE u[i] < u[j]
  <2>1. j \in 1 .. k BY <1>6
  <2>2. n < o[j] /\ u[j] = o[j] - n BY <1>2, <2>1
  <2>3. o[i] \in Nat /\ o[j] \in Nat BY <1>1
  <2>4. CASE i = 0 BY <2>2, <2>3, <2>4
  <2>5. CASE i # 0
    <3>1. i \in 1 .. k BY <2>5
    <3>2. u[i] = o[i] - n /\ o[i] < o[j] BY <1>2, <1>6, <3>1 DEF Marks
    <3>. QED BY <2>2, <2>3, <3>2
  <2>. QED BY <2>4, <2>5
<1>7. u[0] = 0 /\ u[k] = Len(x)
  <2>1. k \in 1 .. k /\ 0 \in 0 .. k BY <1>1
  <2>2. u[k] = o[k] - n BY <1>2, <2>1
  <2>. QED BY <1>1, <1>4, <2>1, <2>2
<1>8. u \in [0 .. k -> 0 .. Len(x)] BY <1>5
<1>. QED BY <1>1, <1>3, <1>4, <1>6, <1>7, <1>8 DEF Marks

\* A node has the same bytes of a sequence that lost its first n.
LEMMA PieceRear ==
    ASSUME NEW nd \in Nodes, NEW s \in Seq(Nat), NEW x \in Nat, NEW y \in Nat,
           NEW n \in Nat, Piece(nd, s, x, y), n <= x, x <= y, y <= Len(s)
    PROVE  Piece(nd, Rear(s, Len(s) - n), x - n, y - n)
<1>1. PICK l, u : l = Len(s) - n /\ u = Rear(s, l) OBVIOUS
<1>2. l \in Nat /\ l <= Len(s) /\ Len(s) - l = n BY <1>1
<1>3. u \in Seq(Nat) /\ Len(u) = l /\ \A i \in 1 .. l : u[i] = s[n + i]
  <2>1. u \in Seq(Nat) /\ Len(u) = l /\ \A i \in 1 .. l : u[i] = s[Len(s) - l + i]
    BY <1>1, <1>2, RearIs
  <2>. QED BY <1>2, <2>1
<1>4. nd.use = y - x /\ nd.rc + nd.use <= Cap
      /\ \A i \in 1 .. nd.use : nd.cell[nd.rc + i] = s[x + i]
  BY DEF Piece
<1>5. ASSUME NEW i \in 1 .. nd.use PROVE nd.cell[nd.rc + i] = u[(x - n) + i]
  <2>1. i \in 1 .. y - x BY <1>4
  <2>2. (x - n) + i \in 1 .. l /\ n + ((x - n) + i) = x + i BY <1>2, <2>1
  <2>3. u[(x - n) + i] = s[n + ((x - n) + i)] BY <1>3, <2>2
  <2>. QED BY <1>4, <2>2, <2>3
<1>6. nd.use = (y - n) - (x - n) BY <1>4
<1>. QED BY <1>1, <1>4, <1>5, <1>6 DEF Piece

\* The node that is read has what is behind the n bytes that were consumed.
LEMMA PieceConsumed ==
    ASSUME NEW nd \in Nodes, NEW s \in Seq(Nat), NEW y \in Nat, NEW n \in Nat,
           Piece(nd, s, 0, y), n < y, y <= Len(s)
    PROVE  Piece(Consume(nd, n), Rear(s, Len(s) - n), 0, y - n)
<1>1. PICK l, u, x : l = Len(s) - n /\ u = Rear(s, l) /\ x = Consume(nd, n) OBVIOUS
<1>2. l \in Nat /\ l <= Len(s) /\ Len(s) - l = n BY <1>1
<1>3. u \in Seq(Nat) /\ Len(u) = l /\ \A i \in 1 .. l : u[i] = s[n + i]
  <2>1. u \in Seq(Nat) /\ Len(u) = l /\ \A i \in 1 .. l : u[i] = s[Len(s) - l + i]
    BY <1>1, <1>2, RearIs
  <2>. QED BY <1>2, <2>1
<1>4. nd.use = y /\ nd.rc + nd.use <= Cap
      /\ \A i \in 1 .. y : nd.cell[nd.rc + i] = s[i]
  BY DEF Piece
<1>5. x.use = y - n /\ x.rc = nd.rc + n /\ x.cell = nd.cell
  <2>1. n \in 0 .. nd.use /\ ~(nd.use = n) BY <1>4
  <2>. QED BY <1>1, <1>4, <2>1, ConsumeType
<1>6. nd.rc \in Nat /\ Cap \in Nat BY NodeParts, Sizes
<1>7. ASSUME NEW i \in 1 .. x.use PROVE x.cell[x.rc + i] = u[0 + i]
  <2>1. i \in 1 .. y - n BY <1>5
  <2>2. n + i \in 1 .. y /\ i \in 1 .. l /\ 0 + i = i BY <1>2, <2>1
  <2>3. x.rc + i = nd.rc + (n + i) BY <1>5, <1>6, <2>1
  <2>4. nd.cell[nd.rc + (n + i)] = s[n + i] BY <1>4, <2>2
  <2>. QED BY <1>3, <1>5, <2>2, <2>3, <2>4
<1>8. x.use = (y - n) - 0 /\ x.rc + x.use <= Cap BY <1>4, <1>5, <1>6, SMTT(60)
<1>. QED BY <1>1, <1>7, <1>8 DEF Piece

\* A ring of clear nodes holds the empty sequence.
LEMMA NothingHeld ==
    ASSUME NEW b \in Rings, b.size = 0, \A i \in 1 .. Len(b.nodes) : Clear(b.nodes[i]),
           NEW o, o = [j \in 0 .. 0 |-> 0]
    PROVE  Holds(b, <<>>, 0, o)
<1>1. PICK s \in Seq(Nat) : s = <<>> OBVIOUS
<1>2. Len(s) = 0 BY <1>1
<1>3. Marks(s, 0, o)
  <2>1. o \in [0 .. 0 -> 0 .. 0] /\ o[0] = 0 BY <1>2
  <2>2. \A i, j \in 0 .. 0 : ~(i < j) OBVIOUS
  <2>. QED BY <1>2, <2>1, <2>2 DEF Marks
<1>4. Len(b.nodes) \in Nat BY RingParts
<1>5. \A j \in 0 .. Len(b.nodes) - 1 : Clear(b.nodes[At(b, j)])
  <2>. TAKE j \in 0 .. Len(b.nodes) - 1
  <2>1. j \in 0 .. Len(b.nodes) BY <1>4
  <2>2. At(b, j) \in 1 .. Len(b.nodes) BY <2>1, AtIs
  <2>. QED BY <2>2
<1>6. Holds(b, s, 0, o)
  <2>1. \A j \in 0 .. 0 - 1 : FALSE OBVIOUS
  <2>. QED BY <1>2, <1>3, <1>4, <1>5, <2>1 DEF Holds
<1>. QED BY <1>1, <1>6

\* Places seen from the next node.
LEMMA AheadNext ==
    ASSUME NEW l \in Nat \ {0}, NEW i \in 1 .. l, NEW j \in 0 .. l - 1
    PROVE  Ahead(l, Ahead(l, i, 1), j) = Ahead(l, i, j + 1)
BY DEF Ahead

\* A turn of reading leaves what is behind the bytes it read.
LEMMA ReadHolds ==
    ASSUME NEW c, NEW s, NEW k, NEW o, Holds(c, s, k, o), NEW goal \in Nat,
           goal < c.size, NEW d, d = ReadTurn(c, goal)
    PROVE  /\ d \in Rings /\ goal <= d.size /\ d.size < c.size
           /\ \E j, u : /\ Holds(d, Rear(s, d.size), j, u)
                        /\ Ends(c, k) => Ends(d, j)
                        /\ d.size = 0 => d.w = d.r
<1>1. /\ c \in Rings /\ c.size = Len(s) /\ Marks(s, k, o) /\ k \in 0 .. Len(c.nodes)
      /\ s \in Seq(Nat) /\ Len(s) \in Nat /\ k \in Nat /\ o[0] = 0 /\ o[k] = Len(s)
  BY HoldsParts, MarksParts
<1>2. PICK l : l = Len(c.nodes) OBVIOUS
<1>3. l \in Nat \ {0} /\ k \in 0 .. l /\ c.r \in 1 .. l BY <1>1, <1>2, RingParts
<1>4. k > 0
  <2>1. s # <<>> BY <1>1
  <2>. QED BY <1>1, <2>1, MarksParts
<1>5. PICK n \in Nat, nd \in Nodes :
         /\ n = Lesser(c.size - goal, c.nodes[c.r].use)
         /\ n <= c.nodes[c.r].use /\ n <= c.size - goal
         /\ nd = Consume(c.nodes[c.r], n) /\ nd.use + n = c.nodes[c.r].use
         /\ Becomes(c, d, c.r, nd) /\ d.w = c.w
         /\ d.r = IF c.nodes[c.r].use = n
                  THEN IF c.size = n THEN c.w ELSE After(c, c.r) ELSE c.r
         /\ d.size = c.size - n
  <2>1. c.size >= goal BY <1>1
  <2>. QED BY <1>1, <2>1, ReadTurnIs
<1>6. PICK a, y : a = c.nodes[c.r] /\ y = o[1] OBVIOUS
<1>7. /\ a \in Nodes /\ Piece(a, s, 0, y) /\ a.use = y /\ At(c, 0) = c.r
      /\ y \in Nat /\ 0 < y /\ y <= Len(s)
  <2>1. 0 \in 0 .. k - 1 /\ 0 + 1 = 1 BY <1>1, <1>4
  <2>2. At(c, 0) = c.r BY <1>1, AtIs
  <2>3. a \in Nodes /\ Piece(a, s, 0, y) BY <1>1, <1>6, <2>1, <2>2, HoldsParts, SMTT(60)
  <2>4. y \in Nat /\ 0 < y /\ y <= Len(s) BY <1>1, <1>6, <2>1, MarksParts
  <2>5. a.use = y BY <2>3, <2>4 DEF Piece
  <2>. QED BY <2>2, <2>3, <2>4, <2>5
<1>8. 0 < n /\ n <= y BY <1>1, <1>5, <1>6, <1>7 DEF Lesser
<1>9. d \in Rings /\ goal <= d.size /\ d.size < c.size /\ d.size = Len(s) - n
      /\ d.size \in Nat /\ Len(d.nodes) = l
  BY <1>1, <1>2, <1>5, <1>7, <1>8 DEF Becomes
<1>10. PICK x : x = Rear(s, Len(s) - n) OBVIOUS
<1>11. x \in Seq(Nat) /\ Len(x) = Len(s) - n /\ x = Rear(s, d.size)
  <2>1. Len(s) - n \in Nat /\ Len(s) - n <= Len(s) BY <1>1, <1>7, <1>8
  <2>. QED BY <1>1, <1>9, <1>10, <2>1, RearIs
<1>12. d.nodes[c.r] = nd BY <1>2, <1>3, <1>5 DEF Becomes
<1>13. ASSUME NEW h \in 1 .. l - 1
       PROVE  /\ d.nodes[At(c, h)] = c.nodes[At(c, h)] /\ At(c, h) \in 1 .. l
              /\ c.nodes[At(c, h)] \in Nodes
  <2>1. 0 \in 0 .. l - 1 /\ h \in 0 .. l - 1 /\ h \in 0 .. l /\ h # 0 BY <1>3
  <2>2. At(c, h) # At(c, 0) BY <1>1, <1>2, <2>1, AtIs
  <2>3. At(c, h) \in 1 .. l BY <1>1, <1>2, <2>1, AtIs
  <2>4. c.nodes[At(c, h)] \in Nodes BY <1>1, <1>2, <2>3, RingParts
  <2>. QED BY <1>2, <1>5, <1>7, <2>2, <2>3, <2>4 DEF Becomes
<1>14. ASSUME NEW h \in 1 .. k - 1
       PROVE  /\ h \in 1 .. l - 1 /\ c.nodes[At(c, h)].rc = 0
              /\ Piece(c.nodes[At(c, h)], x, o[h] - n, o[h + 1] - n)
  <2>1. h \in 0 .. k - 1 /\ h > 0 /\ h \in 1 .. l - 1 BY <1>3
  <2>2. PICK e, f, g : e = c.nodes[At(c, h)] /\ f = o[h] /\ g = o[h + 1] OBVIOUS
  <2>3. e \in Nodes /\ Piece(e, s, f, g) /\ e.rc = 0 BY <2>1, <2>2, HoldsParts
  <2>4. f \in Nat /\ g \in Nat /\ f <= g /\ g <= Len(s)
    <3>1. f \in Nat /\ g \in Nat /\ f < g /\ g <= Len(s)
      BY <1>1, <2>1, <2>2, MarksParts
    <3>. QED BY <3>1
  <2>5. n <= f
    <3>1. CASE h = 1 BY <1>6, <1>8, <2>2, <3>1
    <3>2. CASE h # 1
      <4>1. 1 < h /\ 1 \in 0 .. k /\ h \in 0 .. k BY <1>1, <3>2
      <4>2. o[1] < o[h] BY <1>1, <4>1 DEF Marks
      <4>. QED BY <1>6, <1>7, <1>8, <2>2, <2>4, <4>2
    <3>. QED BY <3>1, <3>2
  <2>6. Piece(e, x, f - n, g - n) BY <1>1, <1>10, <2>3, <2>4, <2>5, PieceRear
  <2>. QED BY <2>1, <2>2, <2>3, <2>6
<1>15. \A h \in k .. l - 1 : Clear(c.nodes[At(c, h)]) BY <1>2, HoldsParts
<1>. DEFINE Goal == \E j, u : /\ Holds(d, Rear(s, d.size), j, u)
                              /\ Ends(c, k) => Ends(d, j)
                              /\ d.size = 0 => d.w = d.r
<1>16. CASE n = y /\ Len(s) = n
  <2>1. k = 1
    <3>1. ASSUME k # 1 PROVE FALSE
      <4>1. 1 \in 0 .. k /\ k \in 0 .. k /\ 1 < k BY <1>1, <1>4, <3>1
      <4>2. o[1] < o[k] BY <1>1, <4>1, SMTT(60) DEF Marks
      <4>. QED BY <1>1, <1>6, <1>16, <4>2
    <3>. QED BY <3>1
  <2>2. Clear(nd)
    <3>1. n \in 0 .. a.use /\ a.use = n BY <1>5, <1>7, <1>16
    <3>. QED BY <1>5, <1>6, <1>7, <3>1, ConsumeType DEF Clear
  <2>3. ASSUME NEW i \in 1 .. l PROVE Clear(d.nodes[i])
    <3>1. PICK h \in 0 .. l - 1 : i = At(c, h) BY <1>1, <1>2, AtIs
    <3>2. CASE h = 0 BY <1>7, <1>12, <2>2, <3>1, <3>2
    <3>3. CASE h # 0
      <4>1. h \in 1 .. l - 1 /\ h \in k .. l - 1 BY <1>3, <2>1, <3>3
      <4>. QED BY <1>13, <1>15, <3>1, <4>1
    <3>. QED BY <3>2, <3>3
  <2>4. PICK u : u = [j \in 0 .. 0 |-> 0] OBVIOUS
  <2>5. d.size = 0 BY <1>9, <1>16
  <2>6. Holds(d, <<>>, 0, u) BY <1>9, <2>3, <2>4, <2>5, NothingHeld
  <2>7. x = <<>> BY <1>11, <1>16
  <2>8. d.w = d.r BY <1>1, <1>5, <1>6, <1>7, <1>16
  <2>9. Ends(d, 0) BY <2>8 DEF Ends
  <2>. QED BY <1>9, <1>11, <2>6, <2>7, <2>8, <2>9
<1>17. CASE n = y /\ Len(s) # n
  <2>1. d.r = After(c, c.r) BY <1>1, <1>5, <1>6, <1>7, <1>17
  <2>2. k - 1 > 0 /\ k - 1 \in Nat
    <3>1. k # 1 BY <1>1, <1>6, <1>17
    <3>. QED BY <1>1, <1>4, <3>1
  <2>3. ASSUME NEW j \in 0 .. l - 1 PROVE At(d, j) = At(c, j + 1)
    <3>1. At(c, 1) = After(c, c.r)
      <4>1. 0 \in 0 .. l - 1 /\ 0 + 1 = 1 BY <1>3
      <4>. QED BY <1>1, <1>2, <1>7, <4>1, AtIs
    <3>2. Ahead(l, Ahead(l, c.r, 1), j) = Ahead(l, c.r, j + 1) BY <1>3, AheadNext
    <3>. QED BY <1>2, <1>9, <2>1, <3>1, <3>2 DEF At
  <2>4. PICK u : u = [j \in 0 .. k - 1 |-> o[j + 1] - n] OBVIOUS
  <2>5. Marks(x, k - 1, u) BY <1>1, <1>4, <1>6, <1>10, <1>17, <2>4, MarksDrop
  <2>6. ASSUME NEW j \in 0 .. (k - 1) - 1
        PROVE  Piece(d.nodes[At(d, j)], x, u[j], u[j + 1]) /\ d.nodes[At(d, j)].rc = 0
    <3>1. j + 1 \in 1 .. k - 1 /\ j \in 0 .. l - 1 /\ j \in 0 .. k - 1 /\ j + 1 \in 0 .. k - 1
      BY <1>3
    <3>2. PICK h : h = j + 1 OBVIOUS
    <3>3. h \in 1 .. k - 1 /\ At(d, j) = At(c, h) BY <2>3, <3>1, <3>2
    <3>4. d.nodes[At(d, j)] = c.nodes[At(c, h)] BY <1>13, <1>14, <3>3
    <3>5. u[j] = o[h] - n /\ u[j + 1] = o[h + 1] - n BY <2>4, <3>1, <3>2
    <3>. QED BY <1>14, <3>3, <3>4, <3>5
  <2>7. ASSUME NEW j \in k - 1 .. l - 1 PROVE Clear(d.nodes[At(d, j)])
    <3>1. j \in 0 .. l - 1 BY <2>2
    <3>2. CASE j = l - 1
      <4>1. At(d, j) = c.r
        <5>1. j + 1 = l BY <1>3, <3>2
        <5>2. At(c, l) = c.r BY <1>1, <1>2, AtIs, SMTT(60)
        <5>. QED BY <2>3, <3>1, <5>1, <5>2
      <4>2. Clear(nd)
        <5>1. n \in 0 .. a.use /\ a.use = n BY <1>5, <1>7, <1>17
        <5>. QED BY <1>5, <1>6, <1>7, <5>1, ConsumeType DEF Clear
      <4>. QED BY <1>12, <4>1, <4>2
    <3>3. CASE j # l - 1
      <4>1. PICK h : h = j + 1 OBVIOUS
      <4>2. h \in k .. l - 1 /\ h \in 1 .. l - 1 BY <1>1, <1>3, <2>2, <3>1, <3>3, <4>1
      <4>3. At(d, j) = At(c, h) BY <2>3, <3>1, <4>1
      <4>. QED BY <1>13, <1>15, <4>2, <4>3
    <3>. QED BY <3>2, <3>3
  <2>8. Holds(d, x, k - 1, u)
    <3>1. k - 1 <= Len(d.nodes) /\ d.size = Len(x) BY <1>3, <1>9, <1>11
    <3>. QED BY <1>9, <2>5, <2>6, <2>7, <3>1 DEF Holds
  <2>9. ASSUME Ends(c, k) PROVE Ends(d, k - 1)
    <3>1. PICK j : j = (k - 1) - 1 OBVIOUS
    <3>2. j \in 0 .. l - 1 /\ j + 1 = k - 1 BY <1>3, <2>2, <3>1
    <3>3. At(d, j) = At(c, k - 1) BY <2>3, <3>2
    <3>4. c.w = At(c, k - 1) BY <1>4, <2>9 DEF Ends
    <3>. QED BY <1>5, <2>2, <3>1, <3>3, <3>4 DEF Ends
  <2>10. d.size # 0 BY <1>1, <1>9, <1>17
  <2>. QED BY <1>9, <1>11, <2>8, <2>9, <2>10
<1>18. CASE n < y
  <2>1. d.r = c.r BY <1>5, <1>6, <1>7, <1>18
  <2>2. \A j : At(d, j) = At(c, j) BY <1>2, <1>9, <2>1 DEF At
  <2>3. PICK u : u = [j \in 0 .. k |-> IF j = 0 THEN 0 ELSE o[j] - n] OBVIOUS
  <2>4. Marks(x, k, u) BY <1>1, <1>4, <1>6, <1>10, <1>18, <2>3, MarksLess
  <2>5. Piece(nd, x, 0, y - n)
    BY <1>1, <1>5, <1>6, <1>7, <1>10, <1>18, PieceConsumed
  <2>6. ASSUME NEW j \in 0 .. k - 1
        PROVE  /\ Piece(d.nodes[At(d, j)], x, u[j], u[j + 1])
               /\ j > 0 => d.nodes[At(d, j)].rc = 0
    <3>1. j \in 0 .. k /\ j + 1 \in 0 .. k /\ j + 1 # 0 BY <1>1
    <3>2. u[j + 1] = o[j + 1] - n BY <2>3, <3>1
    <3>3. CASE j = 0
      <4>1. At(d, j) = c.r /\ u[j] = 0 /\ j + 1 = 1 BY <1>7, <2>2, <2>3, <3>1, <3>3
      <4>2. u[j + 1] = y - n BY <1>6, <3>2, <4>1
      <4>. QED BY <1>12, <2>5, <3>3, <4>1, <4>2
    <3>4. CASE j # 0
      <4>1. j \in 1 .. k - 1 BY <3>4
      <4>2. u[j] = o[j] - n BY <2>3, <3>1, <3>4
      <4>3. d.nodes[At(d, j)] = c.nodes[At(c, j)] BY <1>13, <1>14, <2>2, <4>1
      <4>. QED BY <1>14, <3>2, <4>1, <4>2, <4>3
    <3>. QED BY <3>3, <3>4
  <2>7. ASSUME NEW j \in k .. l - 1 PROVE Clear(d.nodes[At(d, j)])
    <3>1. j \in 1 .. l - 1 BY <1>1, <1>4
    <3>. QED BY <1>13, <1>15, <2>2, <3>1
  <2>8. Holds(d, x, k, u)
    <3>1. k <= Len(d.nodes) /\ d.size = Len(x) BY <1>3, <1>9, <1>11
    <3>. QED BY <1>9, <2>4, <2>6, <2>7, <3>1 DEF Holds
  <2>9. Ends(c, k) => Ends(d, k) BY <1>5, <2>1, <2>2 DEF Ends
  <2>10. d.size # 0 BY <1>1, <1>7, <1>9, <1>18
  <2>. QED BY <1>9, <1>11, <2>8, <2>9, <2>10
<1>. QED BY <1>7, <1>8, <1>9, <1>16, <1>17, <1>18

\* MoveReadPos leaves what is behind the n bytes it was given.
LEMMA MoveReadHolds ==
    ASSUME NEW b, NEW s, NEW k, NEW o, Holds(b, s, k, o), s # <<>>, NEW n \in Nat,
           n <= Len(s), NEW x, x = MoveReadPos(b, n)
    PROVE  /\ x \in Rings /\ x.size = Len(s) - n
           /\ \E j, u : /\ Holds(x, Rear(s, Len(s) - n), j, u)
                        /\ Ends(b, k) => Ends(x, j)
                        /\ x.size = 0 => x.w = x.r
<1>1. /\ b \in Rings /\ b.size = Len(s) /\ s \in Seq(Nat) /\ Len(s) \in Nat /\ Len(s) > 0
  BY HoldsParts, MarksParts
<1>2. PICK goal : goal = b.size - Lesser(n, b.size) OBVIOUS
<1>3. goal \in Nat /\ goal = Len(s) - n /\ goal <= Len(s)
  <2>1. Lesser(n, Len(s)) = n BY <1>1 DEF Lesser
  <2>. QED BY <1>1, <1>2, <2>1
<1>. DEFINE Left2(c) == \E j, u : /\ Holds(c, Rear(s, c.size), j, u)
                                  /\ Ends(b, k) => Ends(c, j)
                                  /\ c.size = 0 => c.w = c.r
            I == {c \in Rings : goal <= c.size /\ c.size <= Len(s) /\ Left2(c)}
            r == [c \in I |-> c.size]
<1>4. r \in [I -> Nat] BY RingParts
<1>5. b \in I
  <2>1. Rear(s, b.size) = s BY <1>1 DEF Rear
  <2>2. b.size # 0 BY <1>1
  <2>3. Holds(b, Rear(s, b.size), k, o) /\ (Ends(b, k) => Ends(b, k))
        /\ (b.size = 0 => b.w = b.r)
    BY <2>1, <2>2
  <2>. QED BY <1>1, <1>3, <2>3
<1>6. ASSUME NEW c \in I, c.size > goal
      PROVE  ReadTurn(c, goal) \in I /\ Lower(r, r, ReadTurn(c, goal), c)
  <2>1. PICK d, p : d = ReadTurn(c, goal) /\ p = Rear(s, c.size) OBVIOUS
  <2>2. c \in Rings /\ goal <= c.size /\ c.size <= Len(s) /\ c.size \in Nat
    BY RingParts
  <2>3. PICK j, u : /\ Holds(c, p, j, u) /\ (Ends(b, k) => Ends(c, j))
    BY <2>1
  <2>4. goal < c.size BY <1>3, <1>6, <2>2
  <2>5. /\ d \in Rings /\ goal <= d.size /\ d.size < c.size
        /\ \E h, v : /\ Holds(d, Rear(p, d.size), h, v)
                     /\ Ends(c, j) => Ends(d, h)
                     /\ d.size = 0 => d.w = d.r
    BY <1>3, <2>1, <2>3, <2>4, ReadHolds
  <2>6. d.size \in Nat /\ d.size <= c.size /\ d.size <= Len(s)
    <3>1. d.size \in Nat BY <2>5, RingParts
    <3>. QED BY <1>1, <2>2, <2>5, <3>1
  <2>7. Rear(p, d.size) = Rear(s, d.size) BY <1>1, <2>1, <2>2, <2>6, RearRear
  <2>8. Left2(d) BY <2>3, <2>5, <2>7
  <2>9. d \in I BY <2>5, <2>6, <2>8
  <2>10. r[d] < r[c]
    <3>. HIDE DEF I
    <3>. QED BY <2>5, <2>9
  <2>. QED BY <2>1, <2>9, <2>10 DEF Lower
<1>7. I \in SUBSET Rings OBVIOUS
<1>8. x \in I /\ ~(x.size > goal)
  <2>. HIDE DEF I, r
  <2>. QED BY <1>1, <1>2, <1>4, <1>5, <1>6, <1>7, DropKeeps
<1>9. x.size = goal
  <2>1. x.size \in Nat /\ goal <= x.size BY <1>8, RingParts
  <2>. QED BY <1>3, <1>8, <2>1
<1>. QED BY <1>3, <1>8, <1>9

\* ReadBuffer returns what is held, the areas of writev a beginning of it.
LEMMA AllRead ==
    ASSUME NEW b, NEW s, NEW k, NEW o, Holds(b, s, k, o)
    PROVE  /\ ReadBuffer(b, b.size) = s
           /\ \E n \in 0 .. Len(s) : ReadAreas(b) = SubSeq(s, 1, n)
<1>1. /\ b \in Rings /\ b.size = Len(s) /\ Marks(s, k, o) /\ k \in 0 .. Len(b.nodes)
      /\ Len(b.nodes) \in Nat /\ b.nodes # <<>> /\ b.size \in Nat
  BY HoldsParts, RingParts DEF Rings
<1>2. s \in Seq(Nat) /\ k \in Nat /\ o[k] = Len(s) BY <1>1, MarksParts
<1>3. PICK l, z : l = Len(b.nodes) /\ z = b.size OBVIOUS
<1>4. PICK j \in 0 .. k : Peek(b, b.size, l) = SubSeq(s, 1, o[j]) /\ (j = k \/ j >= l)
  <2>1. l \in Nat BY <1>1, <1>3
  <2>. QED BY <2>1, PeekHolds
<1>5. j = k BY <1>1, <1>3, <1>4
<1>6. Peek(b, z, l) = s BY <1>2, <1>3, <1>4, <1>5
<1>7. Lesser(z, z) = z BY DEF Lesser
<1>8. ReadBuffer(b, b.size) = s BY <1>1, <1>3, <1>6, <1>7 DEF ReadBuffer
<1>9. PICK h \in 0 .. k : Peek(b, b.size, MaxIov) = SubSeq(s, 1, o[h])
  <2>1. MaxIov \in Nat BY Sizes
  <2>. QED BY <2>1, PeekHolds, SMTT(60)
<1>10. PICK n : n = o[h] OBVIOUS
<1>11. n \in 0 .. Len(s) BY <1>1, <1>10 DEF Marks
<1>12. ReadAreas(b) = SubSeq(s, 1, n) BY <1>9, <1>10 DEF ReadAreas
<1>. QED BY <1>8, <1>11, <1>12

\* A blank ring holds nothing, and one that holds nothing is blank.
LEMMA BlankHolds ==
    ASSUME NEW b \in Rings, Blank(b)
    PROVE  Holds(b, <<>>, 0, [j \in 0 .. 0 |-> 0]) /\ Ends(b, 0)
<1>1. PICK o : o = [j \in 0 .. 0 |-> 0] OBVIOUS
<1>2. b.size = 0 /\ b.w = b.r /\ \A i \in 1 .. Len(b.nodes) : Clear(b.nodes[i])
  BY RingParts DEF Blank
<1>3. Holds(b, <<>>, 0, o) BY <1>1, <1>2, NothingHeld
<1>. QED BY <1>1, <1>2, <1>3 DEF Ends

\* A ring that holds nothing, read where it is written, is blank.
LEMMA NothingLeft ==
    ASSUME NEW b, NEW k, NEW o, Holds(b, <<>>, k, o), b.w = b.r
    PROVE  Blank(b)
<1>1. PICK s : s = <<>> OBVIOUS
<1>2. /\ Holds(b, s, k, o) /\ b \in Rings /\ b.size = Len(s) /\ Marks(s, k, o)
  BY <1>1, HoldsParts
<1>3. k = 0 /\ b.size = 0
  <2>1. k = 0 <=> s = <<>> BY <1>2, MarksParts
  <2>. QED BY <1>1, <1>2, <2>1
<1>4. \A j \in 0 .. Len(b.nodes) - 1 : Clear(b.nodes[At(b, j)]) BY <1>2, <1>3, HoldsParts
<1>5. ASSUME NEW i \in DOMAIN b.nodes PROVE Clear(b.nodes[i])
  <2>1. i \in 1 .. Len(b.nodes) BY <1>2, RingParts
  <2>2. PICK j \in 0 .. Len(b.nodes) - 1 : i = At(b, j) BY <1>2, <2>1, AtIs
  <2>. QED BY <1>4, <2>2
<1>. QED BY <1>3, <1>5 DEF Blank

----------------------------------------------------------------------------
(* Bytes that are added to those held.                                     *)

\* The marks when one more node has bytes.
LEMMA MarksNew ==
    ASSUME NEW s, NEW k, NEW o, Marks(s, k, o), NEW y \in Seq(Nat), Len(s) < Len(y),
           NEW u, u = [j \in 0 .. k + 1 |-> IF j <= k THEN o[j] ELSE Len(y)]
    PROVE  Marks(y, k + 1, u)
<1>1. /\ Len(s) \in Nat /\ Len(y) \in Nat /\ k \in Nat /\ o[0] = 0 /\ o[k] = Len(s)
      /\ \A j \in 0 .. k : o[j] \in Nat /\ o[j] <= Len(s)
  BY MarksParts
<1>2. \A j \in 0 .. k + 1 : u[j] = IF j <= k THEN o[j] ELSE Len(y) BY <1>1
<1>3. ASSUME NEW j \in 0 .. k + 1 PROVE u[j] \in 0 .. Len(y)
  <2>1. CASE j <= k
    <3>1. j \in 0 .. k /\ u[j] = o[j] BY <1>1, <1>2, <2>1
    <3>2. o[j] \in Nat /\ o[j] <= Len(s) BY <1>1, <3>1
    <3>. QED BY <1>1, <3>1, <3>2
  <2>2. CASE ~(j <= k) BY <1>1, <1>2, <2>2
  <2>. QED BY <2>1, <2>2
<1>4. ASSUME NEW i \in 0 .. k + 1, NEW j \in 0 .. k + 1, i < j PROVE u[i] < u[j]
  <2>1. i \in 0 .. k /\ u[i] = o[i] /\ o[i] \in Nat /\ o[i] <= Len(s)
    BY <1>1, <1>2, <1>4
  <2>2. CASE j <= k
    <3>1. j \in 0 .. k /\ u[j] = o[j] BY <1>1, <1>2, <2>2
    <3>. QED BY <1>4, <2>1, <3>1 DEF Marks
  <2>3. CASE ~(j <= k)
    <3>1. u[j] = Len(y) BY <1>2, <2>3
    <3>. QED BY <1>1, <2>1, <3>1
  <2>. QED BY <2>2, <2>3
<1>5. u[0] = 0 /\ u[k + 1] = Len(y) /\ k + 1 \in Nat
  <2>1. 0 \in 0 .. k + 1 /\ 0 <= k /\ k + 1 \in 0 .. k + 1 /\ ~(k + 1 <= k) BY <1>1
  <2>. QED BY <1>1, <1>2, <2>1
<1>6. u \in [0 .. k + 1 -> 0 .. Len(y)] BY <1>3
<1>. QED BY <1>4, <1>5, <1>6 DEF Marks

\* The marks when the last node has more bytes.
LEMMA MarksMore ==
    ASSUME NEW s, NEW k, NEW o, Marks(s, k, o), k > 0, NEW y \in Seq(Nat), Len(s) <= Len(y),
           NEW u, u = [j \in 0 .. k |-> IF j < k THEN o[j] ELSE Len(y)]
    PROVE  Marks(y, k, u)
<1>1. /\ Len(s) \in Nat /\ Len(y) \in Nat /\ k \in Nat /\ o[0] = 0 /\ o[k] = Len(s)
      /\ \A j \in 0 .. k : o[j] \in Nat /\ o[j] <= Len(s)
  BY MarksParts
<1>2. \A j \in 0 .. k : u[j] = IF j < k THEN o[j] ELSE Len(y) BY <1>1
<1>3. ASSUME NEW j \in 0 .. k PROVE u[j] \in 0 .. Len(y)
  <2>1. o[j] \in Nat /\ o[j] <= Len(s) BY <1>1
  <2>. QED BY <1>1, <1>2, <2>1
<1>4. ASSUME NEW i \in 0 .. k, NEW j \in 0 .. k, i < j PROVE u[i] < u[j]
  <2>1. i < k /\ u[i] = o[i] /\ o[i] \in Nat BY <1>1, <1>2, <1>4
  <2>2. o[i] < o[j] /\ o[j] \in Nat /\ o[j] <= Len(s) BY <1>1, <1>4 DEF Marks
  <2>. QED BY <1>1, <1>2, <2>1, <2>2
<1>5. u[0] = 0 /\ u[k] = Len(y)
  <2>1. 0 \in 0 .. k /\ 0 < k /\ k \in 0 .. k /\ ~(k < k) BY <1>1
  <2>. QED BY <1>1, <1>2, <2>1
<1>6. u \in [0 .. k -> 0 .. Len(y)] BY <1>3
<1>. QED BY <1>1, <1>4, <1>5, <1>6 DEF Marks

\* Two sequences of bytes, one behind the other.
LEMMA Joined ==
    ASSUME NEW s \in Seq(Nat), NEW bytes \in Seq(Nat)
    PROVE  /\ s \o bytes \in Seq(Nat) /\ Len(s \o bytes) = Len(s) + Len(bytes)
           /\ \A i \in 1 .. Len(s) : (s \o bytes)[i] = s[i]
           /\ \A i \in 1 .. Len(bytes) : (s \o bytes)[Len(s) + i] = bytes[i]
<1>1. PICK y : y = s \o bytes OBVIOUS
<1>2. /\ y \in Seq(Nat) /\ Len(y) = Len(s) + Len(bytes)
      /\ \A i \in 1 .. Len(s) + Len(bytes) :
            y[i] = IF i <= Len(s) THEN s[i] ELSE bytes[i - Len(s)]
  BY <1>1, ConcatProperties
<1>3. ASSUME NEW i \in 1 .. Len(bytes) PROVE y[Len(s) + i] = bytes[i]
  <2>1. PICK j : j = Len(s) + i OBVIOUS
  <2>2. j \in 1 .. Len(s) + Len(bytes) /\ ~(j <= Len(s)) /\ j - Len(s) = i BY <2>1
  <2>3. y[j] = bytes[j - Len(s)] BY <1>2, <2>2
  <2>. QED BY <2>1, <2>2, <2>3
<1>4. ASSUME NEW i \in 1 .. Len(s) PROVE y[i] = s[i]
  <2>1. i \in 1 .. Len(s) + Len(bytes) /\ i <= Len(s) OBVIOUS
  <2>. QED BY <1>2, <2>1
<1>. QED BY <1>1, <1>2, <1>3, <1>4

\* A node has the same bytes of a sequence that went on.
LEMMA PieceKept ==
    ASSUME NEW nd \in Nodes, NEW s \in Seq(Nat), NEW bytes \in Seq(Nat), NEW x \in Nat,
           NEW z \in Nat, z <= Len(s), Piece(nd, s, x, z)
    PROVE  Piece(nd, s \o bytes, x, z)
<1>1. nd.use = z - x /\ nd.rc + nd.use <= Cap
      /\ \A i \in 1 .. nd.use : nd.cell[nd.rc + i] = s[x + i]
  BY DEF Piece
<1>2. PICK y : y = s \o bytes OBVIOUS
<1>3. \A i \in 1 .. Len(s) : y[i] = s[i] BY <1>2, Joined
<1>4. ASSUME NEW i \in 1 .. nd.use PROVE nd.cell[nd.rc + i] = y[x + i]
  <2>1. x + i \in 1 .. Len(s) BY <1>1
  <2>. QED BY <1>1, <1>3, <2>1
<1>. QED BY <1>1, <1>2, <1>4 DEF Piece

\* A clear node takes bytes that go on.
LEMMA PieceNew ==
    ASSUME NEW nd \in Nodes, Clear(nd), NEW s \in Seq(Nat), NEW bytes \in Seq(Nat),
           Len(bytes) <= Cap
    PROVE  /\ Piece(Store(nd, bytes), s \o bytes, Len(s), Len(s) + Len(bytes))
           /\ Store(nd, bytes).rc = 0 /\ Store(nd, bytes) \in Nodes
           /\ Store(nd, bytes).use = nd.use + Len(bytes)
<1>1. nd.use = 0 /\ nd.rc = 0 /\ Room(nd) = Cap BY Sizes DEF Clear, Room
<1>2. PICK x, y : x = Store(nd, bytes) /\ y = s \o bytes OBVIOUS
<1>3. /\ x \in Nodes /\ x.use = Len(bytes) /\ x.rc = 0
      /\ \A i \in 1 .. Cap :
            x.cell[i] = IF i - nd.use \in 1 .. Len(bytes) THEN bytes[i - nd.use]
                        ELSE nd.cell[i]
  <2>1. Len(bytes) <= Room(nd) BY <1>1
  <2>2. /\ x \in Nodes /\ x.use = nd.use + Len(bytes) /\ x.rc = nd.rc
        /\ \A i \in 1 .. Cap :
              x.cell[i] = IF i - nd.use \in 1 .. Len(bytes) THEN bytes[i - nd.use]
                          ELSE nd.cell[i]
    BY <1>2, <2>1, StoreType
  <2>3. nd.use + Len(bytes) = Len(bytes) BY <1>1
  <2>. QED BY <1>1, <2>2, <2>3
<1>4. ASSUME NEW i \in 1 .. Len(bytes) PROVE x.cell[0 + i] = y[Len(s) + i]
  <2>1. i \in 1 .. Cap /\ i - nd.use = i /\ 0 + i = i BY <1>1, Sizes
  <2>2. x.cell[i] = bytes[i] BY <1>3, <2>1
  <2>3. y[Len(s) + i] = bytes[i] BY <1>2, Joined
  <2>. QED BY <2>1, <2>2, <2>3
<1>5. x.use = (Len(s) + Len(bytes)) - Len(s) /\ x.rc + x.use <= Cap BY <1>3
<1>. QED BY <1>1, <1>2, <1>3, <1>4, <1>5 DEF Piece

\* The last node takes bytes that go on.
LEMMA PieceMore ==
    ASSUME NEW nd \in Nodes, nd.rc = 0, NEW s \in Seq(Nat), NEW bytes \in Seq(Nat),
           Len(bytes) <= Room(nd), NEW x \in Nat, x <= Len(s), Piece(nd, s, x, Len(s))
    PROVE  /\ Piece(Store(nd, bytes), s \o bytes, x, Len(s) + Len(bytes))
           /\ Store(nd, bytes).rc = 0 /\ Store(nd, bytes) \in Nodes
           /\ Store(nd, bytes).use = nd.use + Len(bytes)
<1>1. /\ nd.use = Len(s) - x /\ nd.use \in Nat
      /\ \A i \in 1 .. nd.use : nd.cell[nd.rc + i] = s[x + i]
  BY DEF Piece
<1>2. PICK q, y : q = Store(nd, bytes) /\ y = s \o bytes OBVIOUS
<1>3. /\ q \in Nodes /\ q.use = nd.use + Len(bytes) /\ q.rc = 0
      /\ \A i \in 1 .. Cap :
            q.cell[i] = IF i - nd.use \in 1 .. Len(bytes) THEN bytes[i - nd.use]
                        ELSE nd.cell[i]
  BY <1>2, StoreType
<1>4. nd.use + Len(bytes) <= Cap BY <1>1, Sizes DEF Room
<1>5. ASSUME NEW i \in 1 .. q.use PROVE q.cell[0 + i] = y[x + i]
  <2>1. i \in 1 .. nd.use + Len(bytes) /\ i \in 1 .. Cap /\ 0 + i = i
    BY <1>1, <1>3, <1>4, Sizes
  <2>2. CASE i <= nd.use
    <3>1. i - nd.use \notin 1 .. Len(bytes) /\ i \in 1 .. nd.use /\ nd.rc + i = i
      BY <1>1, <2>1, <2>2
    <3>2. q.cell[i] = s[x + i] BY <1>1, <1>3, <2>1, <3>1
    <3>3. x + i \in 1 .. Len(s) BY <1>1, <2>1, <2>2
    <3>4. y[x + i] = s[x + i] BY <1>2, <3>3, Joined
    <3>. QED BY <2>1, <3>2, <3>4
  <2>3. CASE ~(i <= nd.use)
    <3>1. PICK h : h = i - nd.use OBVIOUS
    <3>2. h \in 1 .. Len(bytes) /\ Len(s) + h = x + i BY <1>1, <2>1, <2>3, <3>1
    <3>3. q.cell[i] = bytes[h] BY <1>3, <2>1, <3>1, <3>2
    <3>4. y[Len(s) + h] = bytes[h] BY <1>2, <3>2, Joined
    <3>. QED BY <2>1, <3>2, <3>3, <3>4
  <2>. QED BY <2>2, <2>3
<1>6. q.use = (Len(s) + Len(bytes)) - x /\ q.rc + q.use <= Cap BY <1>1, <1>3, <1>4
<1>. QED BY <1>2, <1>3, <1>5, <1>6 DEF Piece

\* Bytes put into the first node that has none.
LEMMA HoldsNew ==
    ASSUME NEW c, NEW s, NEW k, NEW o, Holds(c, s, k, o), k < Len(c.nodes),
           NEW bytes \in Seq(Nat), bytes # <<>>, Len(bytes) <= Cap,
           NEW t, t = At(c, k), NEW nd, nd = Store(c.nodes[t], bytes),
           NEW d, Becomes(c, d, t, nd), d.r = c.r, d.size = c.size + Len(bytes)
    PROVE  \E u : Holds(d, s \o bytes, k + 1, u)
<1>1. /\ c \in Rings /\ c.size = Len(s) /\ Marks(s, k, o)
      /\ s \in Seq(Nat) /\ Len(s) \in Nat /\ k \in Nat /\ o[k] = Len(s)
  BY HoldsParts, MarksParts
<1>2. PICK l, y : l = Len(c.nodes) /\ y = s \o bytes OBVIOUS
<1>3. l \in Nat \ {0} /\ k \in 0 .. l - 1 BY <1>1, <1>2, RingParts
<1>4. /\ d \in Rings /\ Len(d.nodes) = l /\ \A j : At(d, j) = At(c, j)
      /\ \A i \in 1 .. l : d.nodes[i] = IF i = t THEN nd ELSE c.nodes[i]
  BY <1>2 DEF Becomes, At
<1>5. \A j \in 0 .. l - 1 : At(c, j) \in 1 .. l /\ (j # k => At(c, j) # t)
  <2>. TAKE j \in 0 .. l - 1
  <2>1. j \in 0 .. l BY <1>3
  <2>2. At(c, j) \in 1 .. l BY <1>1, <1>2, <2>1, AtIs
  <2>3. j # k => At(c, j) # At(c, k) BY <1>1, <1>2, <1>3, AtIs
  <2>. QED BY <2>2, <2>3
<1>6. t \in 1 .. l /\ d.nodes[t] = nd BY <1>3, <1>4, <1>5
<1>7. /\ y \in Seq(Nat) /\ Len(y) = Len(s) + Len(bytes) /\ Len(s) < Len(y)
      /\ Len(bytes) \in Nat
  <2>1. y \in Seq(Nat) /\ Len(y) = Len(s) + Len(bytes) BY <1>1, <1>2, Joined
  <2>2. Len(bytes) \in Nat /\ Len(bytes) > 0 OBVIOUS
  <2>. QED BY <1>1, <2>1, <2>2
<1>8. PICK u : u = [j \in 0 .. k + 1 |-> IF j <= k THEN o[j] ELSE Len(y)] OBVIOUS
<1>9. Marks(y, k + 1, u) BY <1>1, <1>7, <1>8, MarksNew
<1>10. \A j \in 0 .. k + 1 : u[j] = IF j <= k THEN o[j] ELSE Len(y) BY <1>1, <1>8
<1>11. Piece(nd, y, Len(s), Len(y)) /\ nd.rc = 0
  <2>1. PICK e : e = c.nodes[t] OBVIOUS
  <2>2. k \in k .. Len(c.nodes) - 1 BY <1>2, <1>3
  <2>3. Clear(e) BY <2>1, <2>2, HoldsParts
  <2>4. e \in Nodes BY <1>1, <1>2, <1>6, <2>1, RingParts
  <2>5. Piece(nd, y, Len(s), Len(s) + Len(bytes)) /\ nd.rc = 0
    BY <1>1, <1>2, <2>1, <2>3, <2>4, PieceNew
  <2>. QED BY <1>7, <2>5
<1>12. ASSUME NEW j \in 0 .. (k + 1) - 1
       PROVE  /\ Piece(d.nodes[At(d, j)], y, u[j], u[j + 1])
              /\ j > 0 => d.nodes[At(d, j)].rc = 0
  <2>1. CASE j = k
    <3>1. At(d, j) = t /\ u[j] = Len(s) /\ u[j + 1] = Len(y)
      <4>1. k \in 0 .. k + 1 /\ k <= k /\ k + 1 \in 0 .. k + 1 /\ ~(k + 1 <= k) BY <1>1
      <4>. QED BY <1>1, <1>4, <1>10, <2>1, <4>1
    <3>. QED BY <1>6, <1>11, <3>1
  <2>2. CASE j # k
    <3>1. j \in 0 .. k - 1 /\ j \in 0 .. l - 1 BY <1>1, <1>3, <2>2, SMTT(60)
    <3>2. u[j] = o[j] /\ u[j + 1] = o[j + 1]
      <4>1. j \in 0 .. k + 1 /\ j <= k /\ j + 1 \in 0 .. k + 1 /\ j + 1 <= k BY <1>1, <3>1
      <4>. QED BY <1>10, <4>1
    <3>3. PICK e, f, g : e = c.nodes[At(c, j)] /\ f = o[j] /\ g = o[j + 1] OBVIOUS
    <3>4. e \in Nodes /\ Piece(e, s, f, g) /\ (j > 0 => e.rc = 0)
      BY <3>1, <3>3, HoldsParts
    <3>5. f \in Nat /\ g \in Nat /\ g <= Len(s) BY <1>1, <3>1, <3>3, MarksParts
    <3>6. Piece(e, y, f, g) BY <1>1, <1>2, <3>4, <3>5, PieceKept
    <3>7. d.nodes[At(d, j)] = e BY <1>4, <1>5, <2>2, <3>1, <3>3
    <3>. QED BY <3>2, <3>3, <3>4, <3>6, <3>7
  <2>. QED BY <2>1, <2>2
<1>13. ASSUME NEW j \in k + 1 .. l - 1 PROVE Clear(d.nodes[At(d, j)])
  <2>1. j \in 0 .. l - 1 /\ j # k /\ j \in k .. Len(c.nodes) - 1 BY <1>1, <1>2
  <2>2. Clear(c.nodes[At(c, j)]) BY <2>1, HoldsParts
  <2>. QED BY <1>4, <1>5, <2>1, <2>2
<1>14. k + 1 <= l /\ d.size = Len(y) BY <1>1, <1>3, <1>7
<1>15. Holds(d, y, k + 1, u) BY <1>4, <1>9, <1>12, <1>13, <1>14 DEF Holds
<1>. QED BY <1>2, <1>15

\* Bytes put behind those of the last node, of which nothing has been read.
LEMMA HoldsMore ==
    ASSUME NEW c, NEW s, NEW k, NEW o, Holds(c, s, k, o), k > 0,
           NEW bytes \in Seq(Nat), NEW t, t = At(c, k - 1), c.nodes[t].rc = 0,
           Len(bytes) <= Room(c.nodes[t]), NEW nd, nd = Store(c.nodes[t], bytes),
           NEW d, Becomes(c, d, t, nd), d.r = c.r, d.size = c.size + Len(bytes)
    PROVE  \E u : Holds(d, s \o bytes, k, u)
<1>1. /\ c \in Rings /\ c.size = Len(s) /\ Marks(s, k, o) /\ k \in 0 .. Len(c.nodes)
      /\ s \in Seq(Nat) /\ Len(s) \in Nat /\ k \in Nat /\ o[k] = Len(s)
  BY HoldsParts, MarksParts
<1>2. PICK l, y, m : l = Len(c.nodes) /\ y = s \o bytes /\ m = k - 1 OBVIOUS
<1>3. /\ l \in Nat \ {0} /\ k \in 0 .. l /\ m \in 0 .. k - 1 /\ m \in 0 .. l - 1
      /\ m + 1 = k /\ t = At(c, m)
  BY <1>1, <1>2, RingParts
<1>4. /\ d \in Rings /\ Len(d.nodes) = l /\ \A j : At(d, j) = At(c, j)
      /\ \A i \in 1 .. l : d.nodes[i] = IF i = t THEN nd ELSE c.nodes[i]
  BY <1>2 DEF Becomes, At
<1>5. \A j \in 0 .. l - 1 : At(c, j) \in 1 .. l /\ (j # m => At(c, j) # t)
  <2>. TAKE j \in 0 .. l - 1
  <2>1. j \in 0 .. l BY <1>3
  <2>2. At(c, j) \in 1 .. l BY <1>1, <1>2, <2>1, AtIs
  <2>3. j # m => At(c, j) # At(c, m) BY <1>1, <1>2, <1>3, AtIs
  <2>. QED BY <1>3, <2>2, <2>3
<1>6. t \in 1 .. l /\ d.nodes[t] = nd BY <1>3, <1>4, <1>5
<1>7. /\ y \in Seq(Nat) /\ Len(y) = Len(s) + Len(bytes) /\ Len(s) <= Len(y)
      /\ Len(bytes) \in Nat
  <2>1. y \in Seq(Nat) /\ Len(y) = Len(s) + Len(bytes) BY <1>1, <1>2, Joined
  <2>2. Len(bytes) \in Nat OBVIOUS
  <2>. QED BY <1>1, <2>1, <2>2
<1>8. PICK u : u = [j \in 0 .. k |-> IF j < k THEN o[j] ELSE Len(y)] OBVIOUS
<1>9. Marks(y, k, u) BY <1>1, <1>7, <1>8, MarksMore
<1>10. \A j \in 0 .. k : u[j] = IF j < k THEN o[j] ELSE Len(y) BY <1>1, <1>8
<1>11. Piece(nd, y, o[m], Len(y)) /\ nd.rc = 0
  <2>1. PICK e, f : e = c.nodes[t] /\ f = o[m] OBVIOUS
  <2>2. Piece(e, s, f, Len(s)) /\ e \in Nodes /\ e.rc = 0
    BY <1>1, <1>3, <2>1, HoldsParts, SMTT(60)
  <2>3. f \in Nat /\ f <= Len(s) BY <1>1, <1>3, <2>1, MarksParts
  <2>4. Len(bytes) <= Room(e) /\ nd = Store(e, bytes) BY <2>1
  <2>5. Piece(nd, y, f, Len(s) + Len(bytes)) /\ nd.rc = 0
    BY <1>1, <1>2, <2>2, <2>3, <2>4, PieceMore
  <2>. QED BY <1>7, <2>1, <2>5
<1>12. ASSUME NEW j \in 0 .. k - 1
       PROVE  /\ Piece(d.nodes[At(d, j)], y, u[j], u[j + 1])
              /\ j > 0 => d.nodes[At(d, j)].rc = 0
  <2>1. CASE j = m
    <3>1. At(d, j) = t /\ u[j] = o[m] /\ u[j + 1] = Len(y)
      <4>1. m \in 0 .. k /\ m < k /\ k \in 0 .. k /\ ~(k < k) BY <1>1, <1>3
      <4>. QED BY <1>3, <1>4, <1>10, <2>1, <4>1
    <3>. QED BY <1>6, <1>11, <3>1
  <2>2. CASE j # m
    <3>1. j \in 0 .. l - 1 BY <1>1, <1>3
    <3>2. u[j] = o[j] /\ u[j + 1] = o[j + 1]
      <4>1. j \in 0 .. k /\ j < k /\ j + 1 \in 0 .. k /\ j + 1 < k BY <1>1, <1>3, <2>2
      <4>. QED BY <1>10, <4>1
    <3>3. PICK e, f, g : e = c.nodes[At(c, j)] /\ f = o[j] /\ g = o[j + 1] OBVIOUS
    <3>4. e \in Nodes /\ Piece(e, s, f, g) /\ (j > 0 => e.rc = 0)
      BY <3>3, HoldsParts
    <3>5. f \in Nat /\ g \in Nat /\ g <= Len(s) BY <1>1, <3>3, MarksParts
    <3>6. Piece(e, y, f, g) BY <1>1, <1>2, <3>4, <3>5, PieceKept
    <3>7. d.nodes[At(d, j)] = e BY <1>4, <1>5, <2>2, <3>1, <3>3
    <3>. QED BY <3>2, <3>3, <3>4, <3>6, <3>7
  <2>. QED BY <2>1, <2>2
<1>13. ASSUME NEW j \in k .. l - 1 PROVE Clear(d.nodes[At(d, j)])
  <2>1. j \in 0 .. l - 1 /\ j # m /\ j \in k .. Len(c.nodes) - 1 BY <1>1, <1>2, <1>3
  <2>2. Clear(c.nodes[At(c, j)]) BY <2>1, HoldsParts
  <2>. QED BY <1>4, <1>5, <2>1, <2>2
<1>14. k <= l /\ d.size = Len(y) BY <1>1, <1>3, <1>7
<1>15. Holds(d, y, k, u) BY <1>4, <1>9, <1>12, <1>13, <1>14 DEF Holds
<1>. QED BY <1>2, <1>15

\* What is still to be read is s: what was written last is in the last node
\* with bytes; a buffer without any is blank.
Queue(b, s) == IF s = <<>> THEN Blank(b) ELSE \E k, o : Holds(b, s, k, o) /\ Ends(b, k)

\* The node that is written is the first without bytes.
Open(c, k) == c.w = At(c, k) /\ k < Len(c.nodes)

\* The space that is left is never negative.
LEMMA LeftNat ==
    ASSUME NEW b, BufferOK(b)
    PROVE  Left(b) \in Nat
<1>1. PICK l : l = Len(b.nodes) OBVIOUS
<1>2. /\ l \in Nat /\ DOMAIN b.nodes = 1 .. l /\ b.size \in Nat
      /\ b.size = Cardinality(Used(b))
  BY <1>1 DEF BufferOK, Buffers
<1>3. Used(b) \in SUBSET ((1 .. l) \X (1 .. Cap)) BY <1>2 DEF Used
<1>4. /\ IsFiniteSet(1 .. l) /\ Cardinality(1 .. l) = l
      /\ IsFiniteSet(1 .. Cap) /\ Cardinality(1 .. Cap) = Cap
  <2>1. \A n \in Nat : IsFiniteSet(1 .. n) /\ Cardinality(1 .. n) = n
    <3>. TAKE n \in Nat
    <3>. QED BY FS_Interval
  <2>. QED BY <1>2, <2>1, Sizes
<1>5. /\ IsFiniteSet((1 .. l) \X (1 .. Cap))
      /\ Cardinality((1 .. l) \X (1 .. Cap)) = l * Cap
  <2>1. PICK S, T : S = 1 .. l /\ T = 1 .. Cap OBVIOUS
  <2>2. /\ IsFiniteSet(S) /\ IsFiniteSet(T) /\ Cardinality(S) = l
        /\ Cardinality(T) = Cap
    BY <1>4, <2>1
  <2>3. IsFiniteSet(S \X T) /\ Cardinality(S \X T) = Cardinality(S) * Cardinality(T)
    BY <2>2, FS_Product
  <2>. QED BY <2>1, <2>2, <2>3
<1>6. PICK m : m = l * Cap OBVIOUS
<1>7. m \in Nat BY <1>2, <1>6, Sizes
<1>8. b.size <= m BY <1>2, <1>3, <1>5, <1>6, FS_Subset
<1>9. m - b.size \in Nat BY <1>2, <1>7, <1>8
<1>. QED BY <1>1, <1>6, <1>9 DEF Left

\* At most a node of bytes needs at most one node more.
LEMMA ReserveOnce ==
    ASSUME NEW b, BufferOK(b), NEW n \in Nat, n <= Cap
    PROVE  IF Left(b) < n THEN Reserve(b, n) = Expand(b) ELSE Reserve(b, n) = b
<1>1. b \in Buffers /\ Left(b) \in Nat BY LeftNat DEF BufferOK
<1>2. CASE ~(Left(b) < n)
  <2>. DEFINE I == {b}
              r == [c \in I |-> 0]
  <2>1. I \in SUBSET Buffers /\ r \in [I -> Nat] /\ b \in I BY <1>1
  <2>2. \A c \in I : Left(c) < n => Expand(c) \in I /\ r[Expand(c)] < r[c] BY <1>2
  <2>3. Reserve(b, n) \in I
    <3>. HIDE DEF I, r
    <3>. QED BY <2>1, <2>2, ReserveKeeps
  <2>. QED BY <1>2, <2>3
<1>3. CASE Left(b) < n
  <2>1. PICK x : x = Expand(b) OBVIOUS
  <2>2. x \in Buffers BY <1>1, <2>1, ExpandType, RingParts
  <2>3. Left(x) = Left(b) + Cap BY <2>1, ExpandOK
  <2>4. ~(Left(x) < n) BY <1>1, <2>3, Sizes
  <2>5. x # b BY <1>3, <2>4
  <2>. DEFINE I == {b, x}
              r == [c \in I |-> IF c = b THEN 1 ELSE 0]
  <2>6. I \in SUBSET Buffers /\ r \in [I -> Nat] /\ b \in I BY <1>1, <2>2
  <2>7. \A c \in I : Left(c) < n => Expand(c) \in I /\ r[Expand(c)] < r[c]
    BY <2>1, <2>4, <2>5
  <2>8. Reserve(b, n) \in I /\ ~(Left(Reserve(b, n)) < n)
    <3>. HIDE DEF I, r
    <3>. QED BY <2>6, <2>7, ReserveKeeps
  <2>. QED BY <1>3, <2>1, <2>8
<1>. QED BY <1>2, <1>3

\* The new node behind the one that is written holds nothing.
LEMMA ExpandBehindHolds ==
    ASSUME NEW b, NEW s, NEW k, NEW o, Holds(b, s, k, o), Ends(b, k), k > 0,
           ~(b.w = b.r /\ b.nodes[b.w].use > 0), NEW x, x = Expand(b)
    PROVE  Holds(x, s, k, o) /\ Ends(x, k)
<1>1. /\ b \in Rings /\ b.size = Len(s) /\ Marks(s, k, o) /\ k \in 0 .. Len(b.nodes)
      /\ s \in Seq(Nat) /\ Len(s) \in Nat /\ k \in Nat
  BY HoldsParts, MarksParts
<1>2. PICK l, w, h, m : /\ l = Len(b.nodes) /\ w = b.w
                        /\ h = IF b.r > w THEN b.r + 1 ELSE b.r
                        /\ m = InsertAt(b.nodes, w + 1, EmptyNode)
  OBVIOUS
<1>3. l \in Nat \ {0} /\ b.r \in 1 .. l /\ k \in 1 .. l /\ w \in 1 .. l
      /\ b.nodes \in Seq(Nodes)
  BY <1>1, <1>2, RingParts
<1>4. x = [nodes |-> m, w |-> w, r |-> h, size |-> b.size] BY <1>1, <1>2, ExpandBehind
<1>5. x.nodes = m /\ x.w = w /\ x.r = h /\ x.size = b.size BY <1>4
<1>6. x \in Rings /\ Len(x.nodes) = l + 1 BY <1>1, <1>2, ExpandType, RingParts
<1>7. \A j : At(x, j) = Ahead(l + 1, h, j) BY <1>5, <1>6 DEF At
<1>8. \A j : At(b, j) = Ahead(l, b.r, j) BY <1>2 DEF At
<1>9. w = Ahead(l, b.r, k - 1) BY <1>2, <1>8 DEF Ends
<1>10. /\ At(x, k) = w + 1
       /\ \A j \in 0 .. k - 1 : At(x, j) = IF At(b, j) <= w THEN At(b, j) ELSE At(b, j) + 1
       /\ \A j \in k .. l - 1 : At(x, j + 1) = IF At(b, j) <= w THEN At(b, j)
                                               ELSE At(b, j) + 1
  <2>1. PICK i : i = b.r OBVIOUS
  <2>2. i \in 1 .. l /\ w = Ahead(l, i, k - 1) /\ h = IF i > w THEN i + 1 ELSE i
    BY <1>2, <1>3, <1>9, <2>1
  <2>3. Ahead(l + 1, h, k) = w + 1 BY <1>3, <2>2 DEF Ahead
  <2>4. \A j \in 0 .. k - 1 :
            Ahead(l + 1, h, j) = IF Ahead(l, i, j) <= w THEN Ahead(l, i, j)
                                 ELSE Ahead(l, i, j) + 1
    BY <1>3, <2>2 DEF Ahead
  <2>5. \A j \in k .. l - 1 :
            Ahead(l + 1, h, j + 1) = IF Ahead(l, i, j) <= w THEN Ahead(l, i, j)
                                     ELSE Ahead(l, i, j) + 1
    BY <1>3, <2>2 DEF Ahead
  <2>. QED BY <1>7, <1>8, <2>1, <2>3, <2>4, <2>5
<1>11. ASSUME NEW i \in 1 .. l
       PROVE  m[IF i <= w THEN i ELSE i + 1] = b.nodes[i]
  <2>1. PICK q, e, g, p : /\ q = b.nodes /\ e = EmptyNode /\ g = w + 1
                          /\ p = IF i <= w THEN i ELSE i + 1
    OBVIOUS
  <2>2. /\ q \in Seq(Nodes) /\ e \in Nodes /\ g \in 1 .. Len(q) + 1
        /\ p \in 1 .. Len(q) + 1
    BY <1>2, <1>3, <2>1, EmptyNodeType, SMTT(60)
  <2>3. PICK y : y = InsertAt(q, g, e)[p] OBVIOUS
  <2>4. y = IF p < g THEN q[p] ELSE IF p = g THEN e ELSE q[p - 1]
    BY <2>2, <2>3, InsertedNode
  <2>5. y = q[i]
    <3>1. CASE i <= w
      <4>1. p = i /\ p < g BY <1>3, <2>1, <3>1
      <4>. QED BY <2>4, <4>1
    <3>2. CASE ~(i <= w)
      <4>1. ~(p < g) /\ p # g /\ p - 1 = i BY <1>3, <2>1, <3>2
      <4>. QED BY <2>4, <4>1
    <3>. QED BY <3>1, <3>2
  <2>. QED BY <1>2, <2>1, <2>3, <2>5
<1>12. m[w + 1] = EmptyNode
  <2>1. PICK q, e, g : q = b.nodes /\ e = EmptyNode /\ g = w + 1 OBVIOUS
  <2>2. q \in Seq(Nodes) /\ e \in Nodes /\ g \in 1 .. Len(q) + 1
    BY <1>2, <1>3, <2>1, EmptyNodeType
  <2>3. PICK y : y = InsertAt(q, g, e)[g] OBVIOUS
  <2>4. y = IF g < g THEN q[g] ELSE IF g = g THEN e ELSE q[g - 1]
    BY <2>2, <2>3, InsertedNode
  <2>5. ~(g < g) BY <1>3, <2>1
  <2>. QED BY <1>2, <2>1, <2>3, <2>4, <2>5
<1>13. \A j \in 0 .. l - 1 : At(b, j) \in 1 .. l
  <2>. TAKE j \in 0 .. l - 1
  <2>1. j \in 0 .. l BY <1>3
  <2>. QED BY <1>1, <1>2, <2>1, AtIs
<1>14. ASSUME NEW j \in 0 .. k - 1
       PROVE  x.nodes[At(x, j)] = b.nodes[At(b, j)]
  <2>1. j \in 0 .. l - 1 BY <1>3
  <2>. QED BY <1>5, <1>10, <1>11, <1>13, <2>1
<1>15. ASSUME NEW j \in 0 .. k - 1
       PROVE  /\ Piece(x.nodes[At(x, j)], s, o[j], o[j + 1])
              /\ j > 0 => x.nodes[At(x, j)].rc = 0
  BY <1>14, HoldsParts
<1>16. ASSUME NEW j \in k .. (l + 1) - 1 PROVE Clear(x.nodes[At(x, j)])
  <2>1. CASE j = k BY <1>5, <1>10, <1>12, <2>1, EmptyNodeType DEF Clear
  <2>2. CASE j # k
    <3>1. PICK i : i = j - 1 OBVIOUS
    <3>2. i \in k .. l - 1 /\ i + 1 = j /\ i \in 0 .. l - 1 BY <1>1, <1>3, <2>2, <3>1
    <3>3. x.nodes[At(x, j)] = b.nodes[At(b, i)] BY <1>5, <1>10, <1>11, <1>13, <3>2
    <3>4. Clear(b.nodes[At(b, i)]) BY <1>2, <3>2, HoldsParts
    <3>. QED BY <3>3, <3>4
  <2>. QED BY <2>1, <2>2
<1>17. Holds(x, s, k, o)
  <2>1. k <= Len(x.nodes) /\ x.size = Len(s) BY <1>1, <1>3, <1>5, <1>6
  <2>. QED BY <1>1, <1>6, <1>15, <1>16, <2>1 DEF Holds
<1>18. Ends(x, k)
  <2>1. k - 1 \in 0 .. k - 1 BY <1>3
  <2>2. At(b, k - 1) = w BY <1>8, <1>9
  <2>3. At(x, k - 1) = w BY <1>3, <1>10, <2>1, <2>2
  <2>. QED BY <1>3, <1>5, <2>3 DEF Ends
<1>. QED BY <1>17, <1>18

\* The one node of the ring is both read and written: nothing has wrapped
\* round in it, so the node put before it is the next to be written.
LEMMA ExpandBeforeHolds ==
    ASSUME NEW b, NEW s, NEW k, NEW o, Holds(b, s, k, o), Ends(b, k), k > 0, b.w = b.r,
           BufferOK(b), Left(b) < Cap, NEW x, x = Expand(b)
    PROVE  Holds(x, s, k, o) /\ Open(x, k)
<1>1. /\ b \in Rings /\ b.size = Len(s) /\ Marks(s, k, o) /\ k \in 0 .. Len(b.nodes)
      /\ s \in Seq(Nat) /\ Len(s) \in Nat /\ k \in Nat /\ o[0] = 0 /\ o[k] = Len(s)
  BY HoldsParts, MarksParts
<1>2. PICK l : l = Len(b.nodes) OBVIOUS
<1>3. l \in Nat \ {0} /\ b.r \in 1 .. l /\ k \in 1 .. l BY <1>1, <1>2, RingParts
<1>4. k = 1
  <2>1. k - 1 \in 0 .. l - 1 /\ 0 \in 0 .. l - 1 BY <1>3
  <2>2. At(b, k - 1) = b.w BY <1>3 DEF Ends
  <2>3. At(b, 0) = b.r BY <1>1, AtIs
  <2>4. k - 1 = 0 BY <1>1, <1>2, <2>1, <2>2, <2>3, AtIs
  <2>. QED BY <1>3, <2>4
<1>5. PICK e, y : e = b.nodes[b.w] /\ y = o[1] OBVIOUS
<1>6. /\ e \in Nodes /\ Piece(e, s, 0, y) /\ y = Len(s) /\ e.use = y /\ 0 < y
      /\ e.rc + e.use <= Cap /\ e.rc \in Nat /\ y <= Cap
  <2>1. 0 \in 0 .. k - 1 /\ 0 + 1 = 1 BY <1>4
  <2>2. At(b, 0) = b.w BY <1>1, AtIs
  <2>3. e \in Nodes /\ Piece(e, s, 0, y) BY <1>1, <1>5, <2>1, <2>2, HoldsParts
  <2>4. y \in Nat /\ 0 < y /\ y = Len(s) BY <1>1, <1>4, <1>5, <2>1, MarksParts
  <2>5. e.use = y /\ e.rc + e.use <= Cap BY <2>3, <2>4 DEF Piece
  <2>6. e.rc \in Nat /\ e.use \in 0 .. Cap BY <2>3, NodeParts
  <2>7. y <= Cap BY <2>4, <2>5, <2>6, Sizes
  <2>. QED BY <2>3, <2>4, <2>5, <2>6, <2>7
<1>7. l = 1
  <2>1. ASSUME l # 1 PROVE FALSE
    <3>1. PICK m : m = l * Cap OBVIOUS
    <3>2. PICK n \in Nat : l = n + 2
      <4>1. l - 2 \in Nat /\ l = (l - 2) + 2 BY <1>3, <2>1
      <4>. QED BY <4>1
    <3>3. n * Cap \in Nat BY <3>2, Sizes
    <3>4. m = n * Cap + (Cap + Cap) BY <3>1, <3>2, Sizes
    <3>5. Left(b) = m - Len(s) BY <1>1, <1>2, <3>1 DEF Left
    <3>6. PICK g \in Nat : g = n * Cap BY <3>3
    <3>. QED BY <1>6, <3>4, <3>5, <3>6, Sizes
  <2>. QED BY <2>1
<1>8. b.w = 1 /\ b.r = 1 /\ Len(b.nodes) = 1 BY <1>2, <1>3, <1>7
<1>9. PICK n, nd, q, new : /\ n = Wrapped(e) /\ nd = [e EXCEPT !.use = @ - n]
                           /\ q = [b.nodes EXCEPT ![b.w] = nd] /\ new = Moved(e, n)
  OBVIOUS
<1>10. n = 0
  <2>1. ~(Cap - e.rc < e.use) BY <1>6, Sizes
  <2>. QED BY <1>9, <2>1 DEF Wrapped
<1>11. /\ x = [nodes |-> InsertAt(q, b.w, new), w |-> b.w, r |-> b.r + 1, size |-> b.size]
       /\ nd \in Nodes /\ nd.use = e.use - n /\ nd.rc = e.rc /\ nd.cell = e.cell
  <2>1. b.nodes[b.w].use > 0 BY <1>5, <1>6
  <2>. QED BY <1>1, <1>5, <1>9, <2>1, ExpandBefore, ZenonT(60)
<1>12. PICK m : m = InsertAt(q, 1, new) OBVIOUS
<1>13. x.nodes = m /\ x.w = 1 /\ x.r = 2 /\ x.size = b.size BY <1>8, <1>11, <1>12
<1>14. q \in Seq(Nodes) /\ Len(q) = 1 /\ q[1] = nd
  <2>1. 1 \in 1 .. Len(b.nodes) BY <1>8
  <2>. QED BY <1>1, <1>8, <1>9, <1>11, <2>1, NodeChanged
<1>15. new \in Nodes /\ Clear(new)
  <2>1. 0 \in 0 .. Cap BY Sizes
  <2>. QED BY <1>6, <1>9, <1>10, <2>1, MovedType DEF Clear
<1>16. m[1] = new /\ m[2] = nd
  <2>1. PICK g, h : g = 1 /\ h = 2 OBVIOUS
  <2>2. g \in 1 .. Len(q) + 1 /\ h \in 1 .. Len(q) + 1 /\ m = InsertAt(q, g, new)
    BY <1>12, <1>14, <2>1
  <2>9. q \in Seq(Nodes) /\ new \in Nodes BY <1>14, <1>15
  <2>3. PICK f : f = InsertAt(q, g, new)[g] OBVIOUS
  <2>4. f = IF g < g THEN q[g] ELSE IF g = g THEN new ELSE q[g - 1]
    BY <2>2, <2>3, <2>9, InsertedNode, SMTT(60)
  <2>5. PICK z : z = InsertAt(q, g, new)[h] OBVIOUS
  <2>7. z = IF h < g THEN q[h] ELSE IF h = g THEN new ELSE q[h - 1]
    BY <2>2, <2>5, <2>9, InsertedNode, SMTT(60)
  <2>8. ~(g < g) /\ ~(h < g) /\ h # g /\ h - 1 = 1 BY <2>1
  <2>. QED BY <1>14, <2>1, <2>2, <2>3, <2>4, <2>5, <2>7, <2>8
<1>17. x \in Rings /\ Len(x.nodes) = 2
  <2>1. b \in Buffers BY <1>1, RingParts
  <2>2. x \in Rings /\ Len(x.nodes) = Len(b.nodes) + 1 BY <2>1, ExpandType
  <2>. QED BY <1>8, <2>2
<1>18. At(x, 0) = 2 /\ At(x, 1) = 1 BY <1>13, <1>17 DEF At, Ahead
<1>19. Piece(nd, s, 0, y)
  <2>1. nd.use = e.use BY <1>6, <1>10, <1>11
  <2>. QED BY <1>6, <1>11, <2>1 DEF Piece
<1>20. ASSUME NEW j \in 0 .. k - 1
       PROVE  /\ Piece(x.nodes[At(x, j)], s, o[j], o[j + 1])
              /\ j > 0 => x.nodes[At(x, j)].rc = 0
  <2>1. j = 0 /\ j + 1 = 1 BY <1>4
  <2>2. x.nodes[At(x, j)] = nd BY <1>13, <1>16, <1>18, <2>1
  <2>. QED BY <1>1, <1>5, <1>19, <2>1, <2>2
<1>21. ASSUME NEW j \in k .. Len(x.nodes) - 1 PROVE Clear(x.nodes[At(x, j)])
  <2>1. j = 1 BY <1>4, <1>17
  <2>. QED BY <1>13, <1>15, <1>16, <1>18, <2>1
<1>22. Holds(x, s, k, o)
  <2>1. k <= Len(x.nodes) /\ x.size = Len(s) BY <1>1, <1>4, <1>13, <1>17
  <2>. QED BY <1>1, <1>17, <1>20, <1>21, <2>1 DEF Holds
<1>23. Open(x, k) BY <1>4, <1>13, <1>17, <1>18 DEF Open
<1>. QED BY <1>22, <1>23

\* The space for at most a node of bytes is behind the last node with bytes,
\* or in it.
LEMMA ReserveHolds ==
    ASSUME NEW b, BufferOK(b), NEW s \in Seq(Nat), Queue(b, s),
           NEW n \in Nat, n > 0, n <= Cap, NEW c, c = Reserve(b, n)
    PROVE  \E k, o : Holds(c, s, k, o) /\ (Ends(c, k) \/ Open(c, k))
<1>1. /\ b \in Buffers /\ c \in Rings /\ c.size = b.size
      /\ Blank(b) => Blank(c)
  BY ReserveOK DEF BufferOK
<1>2. CASE s = <<>>
  <2>1. Blank(c) BY <1>1, <1>2 DEF Queue
  <2>. QED BY <1>1, <1>2, <2>1, BlankHolds
<1>3. CASE s # <<>>
  <2>1. PICK k, o : Holds(b, s, k, o) /\ Ends(b, k) BY <1>3 DEF Queue
  <2>2. b \in Rings /\ k \in Nat /\ k # 0 BY <1>3, <2>1, HoldsParts, MarksParts
  <2>3. k > 0 BY <2>2
  <2>4. CASE ~(Left(b) < n)
    <3>1. c = b BY <2>4, ReserveOnce
    <3>. QED BY <2>1, <3>1
  <2>5. CASE Left(b) < n
    <3>1. c = Expand(b) BY <2>5, ReserveOnce
    <3>2. CASE b.w = b.r /\ b.nodes[b.w].use > 0
      <4>1. Left(b) < Cap
        <5>1. Left(b) \in Nat BY LeftNat
        <5>. QED BY <2>5, <5>1, Sizes
      <4>2. Holds(c, s, k, o) /\ Open(c, k)
        BY <2>1, <2>3, <3>1, <3>2, <4>1, ExpandBeforeHolds
      <4>. QED BY <4>2
    <3>3. CASE ~(b.w = b.r /\ b.nodes[b.w].use > 0)
      <4>1. Holds(c, s, k, o) /\ Ends(c, k)
        BY <2>1, <2>3, <3>1, <3>3, ExpandBehindHolds
      <4>. QED BY <4>1
    <3>. QED BY <3>2, <3>3
  <2>. QED BY <2>4, <2>5
<1>. QED BY <1>2, <1>3

\* A turn of WriteBuffer for bytes that fit in the node: all of them are stored.
LEMMA FillWhole ==
    ASSUME NEW c \in Rings, NEW bytes \in Seq(Nat), NEW goal \in Nat, c.size <= goal,
           goal - c.size = Len(bytes), Len(bytes) <= Room(c.nodes[Target(c)])
    PROVE  \E t \in 1 .. Len(c.nodes), nd \in Nodes :
              /\ t = Target(c) /\ nd = Store(c.nodes[t], bytes)
              /\ Becomes(c, FillTurn(c, bytes, goal), t, nd)
              /\ FillTurn(c, bytes, goal).w = t /\ FillTurn(c, bytes, goal).r = c.r
              /\ FillTurn(c, bytes, goal).size = c.size + Len(bytes)
<1>1. goal - c.size <= Len(bytes) BY RingParts
<1>2. PICK d : d = FillTurn(c, bytes, goal) OBVIOUS
<1>3. PICK t \in 1 .. Len(c.nodes), n \in Nat, nd \in Nodes :
         /\ t = Target(c) /\ n = Lesser(goal - c.size, Room(c.nodes[t]))
         /\ nd = Store(c.nodes[t], SubSeq(bytes, 1, n))
         /\ Becomes(c, d, t, nd) /\ d.w = t /\ d.r = c.r /\ d.size = c.size + n
  BY <1>1, <1>2, FillTurnIs
<1>4. n = Len(bytes)
  <2>1. Room(c.nodes[t]) \in 0 .. Cap BY RingParts
  <2>2. n = Lesser(Len(bytes), Room(c.nodes[t])) BY <1>3
  <2>. QED BY <1>3, <2>1, <2>2, Sizes DEF Lesser
<1>5. SubSeq(bytes, 1, n) = bytes BY <1>4
<1>. QED BY <1>2, <1>3, <1>4, <1>5

\* A turn of WriteBuffer whose bytes fit in their place.
LEMMA FillHolds ==
    ASSUME NEW c, NEW s, NEW k, NEW o, Holds(c, s, k, o), Ends(c, k) \/ Open(c, k),
           NEW bytes \in Seq(Nat), bytes # <<>>, InPlace(c, Len(bytes)),
           NEW goal \in Nat, goal = c.size + Len(bytes),
           NEW d, d = FillTurn(c, bytes, goal)
    PROVE  Queue(d, s \o bytes) /\ d.size = goal /\ d \in Rings
<1>1. /\ c \in Rings /\ c.size = Len(s) /\ Marks(s, k, o) /\ k \in 0 .. Len(c.nodes)
      /\ s \in Seq(Nat) /\ Len(s) \in Nat /\ k \in Nat
  BY HoldsParts, MarksParts
<1>2. PICK l, y, m : l = Len(c.nodes) /\ y = s \o bytes /\ m = Len(bytes) OBVIOUS
<1>3. /\ l \in Nat \ {0} /\ c.w \in 1 .. l /\ c.r \in 1 .. l /\ m \in Nat /\ m > 0
      /\ k \in 0 .. l
  BY <1>1, <1>2, RingParts
<1>4. y # <<>>
  <2>1. Len(y) = Len(s) + Len(bytes) BY <1>1, <1>2, Joined
  <2>2. Len(y) # 0 BY <1>1, <1>2, <1>3, <2>1
  <2>. QED BY <2>2
<1>5. PICK t \in 1 .. Len(c.nodes), nd \in Nodes :
         /\ t = Target(c) /\ nd = Store(c.nodes[t], bytes)
         /\ Becomes(c, d, t, nd) /\ d.w = t /\ d.r = c.r /\ d.size = c.size + m
  <2>1. c.size <= goal /\ goal - c.size = Len(bytes) BY <1>1
  <2>2. Len(bytes) <= Room(c.nodes[Target(c)]) BY DEF InPlace
  <2>. QED BY <1>1, <1>2, <2>1, <2>2, FillWhole
<1>6. PICK e : e = c.nodes[t] OBVIOUS
<1>7. /\ e \in Nodes /\ m <= Room(e) /\ Room(e) \in 0 .. Cap
      /\ e.use = 0 \/ (t = c.w /\ e.rc = 0)
  BY <1>1, <1>2, <1>5, <1>6, RingParts DEF InPlace
<1>10. nd = Store(e, bytes) /\ d.size = c.size + Len(bytes) /\ d \in Rings
  BY <1>2, <1>5, <1>6 DEF Becomes
<1>11. \A j : At(d, j) = At(c, j) BY <1>5 DEF Becomes, At
<1>12. \A j \in 0 .. k - 1 : c.nodes[At(c, j)].use > 0
  <2>. TAKE j \in 0 .. k - 1
  <2>1. PICK f, g, a : f = o[j] /\ g = o[j + 1] /\ a = c.nodes[At(c, j)] OBVIOUS
  <2>2. f \in Nat /\ g \in Nat /\ f < g BY <1>1, <2>1, MarksParts
  <2>3. Piece(a, s, f, g) BY <2>1, HoldsParts
  <2>. QED BY <2>1, <2>2, <2>3 DEF Piece
<1>13. \A j \in k .. l - 1 : c.nodes[At(c, j)].use = 0 BY <1>2, HoldsParts DEF Clear
<1>14. t = IF Room(c.nodes[c.w]) = 0 THEN After(c, c.w) ELSE c.w BY <1>5 DEF Target
<1>15. At(c, 0) = c.r /\ At(c, l) = c.r BY <1>1, <1>2, AtIs
<1>16. ASSUME NEW a, a.use = 0 PROVE Room(a) # 0 BY <1>16, Sizes DEF Room
<1>17. (k < l /\ t = At(c, k)) \/ (k > 0 /\ t = At(c, k - 1) /\ e.rc = 0)
  <2>1. CASE Open(c, k)
    <3>1. c.w = At(c, k) /\ k \in k .. l - 1 /\ k < l BY <1>1, <1>2, <1>3, <2>1 DEF Open
    <3>2. c.nodes[c.w].use = 0 BY <1>13, <3>1
    <3>. QED BY <1>14, <1>16, <3>1, <3>2
  <2>2. CASE Ends(c, k) /\ k = 0
    <3>1. c.w = At(c, 0) /\ k \in k .. l - 1 /\ k < l
      BY <1>1, <1>3, <1>15, <2>2 DEF Ends
    <3>2. c.nodes[c.w].use = 0 BY <1>13, <2>2, <3>1
    <3>. QED BY <1>14, <1>16, <2>2, <3>1, <3>2
  <2>3. CASE Ends(c, k) /\ k # 0
    <3>1. c.w = At(c, k - 1) /\ k > 0 /\ k - 1 \in 0 .. k - 1 /\ k - 1 \in 0 .. l - 1
      BY <1>1, <1>3, <2>3 DEF Ends
    <3>2. CASE t = c.w
      <4>1. e.use > 0 BY <1>6, <1>12, <3>1, <3>2
      <4>2. e.rc = 0 BY <1>7, <4>1
      <4>. QED BY <3>1, <3>2, <4>2
    <3>3. CASE t # c.w
      <4>1. t = After(c, c.w) /\ e.use = 0 BY <1>7, <1>14, <3>3
      <4>2. At(c, (k - 1) + 1) = After(c, c.w) BY <1>1, <1>2, <3>1, AtIs
      <4>3. t = At(c, k) BY <1>1, <4>1, <4>2
      <4>4. k # l
        <5>1. ASSUME k = l PROVE FALSE
          <6>1. t = At(c, 0) /\ 0 \in 0 .. k - 1 BY <1>3, <1>15, <3>1, <4>3, <5>1
          <6>2. e.use > 0 BY <1>6, <1>12, <6>1
          <6>. QED BY <4>1, <6>2
        <5>. QED BY <5>1
      <4>. QED BY <1>3, <4>3, <4>4
    <3>. QED BY <3>2, <3>3
  <2>. QED BY <2>1, <2>2, <2>3
<1>18. \E h, u : Holds(d, y, h, u) /\ Ends(d, h)
  <2>1. CASE k < l /\ t = At(c, k)
    <3>1. Len(bytes) <= Cap BY <1>2, <1>3, <1>7, Sizes
    <3>2. \E u : Holds(d, y, k + 1, u)
      BY <1>2, <1>5, <1>6, <1>10, <2>1, <3>1, HoldsNew
    <3>3. Ends(d, k + 1)
      <4>1. k + 1 # 0 /\ (k + 1) - 1 = k BY <1>1
      <4>. QED BY <1>5, <1>11, <2>1, <4>1 DEF Ends
    <3>. QED BY <3>2, <3>3
  <2>2. CASE k > 0 /\ t = At(c, k - 1) /\ e.rc = 0
    <3>1. \E u : Holds(d, y, k, u)
      BY <1>2, <1>5, <1>6, <1>7, <1>10, <2>2, HoldsMore
    <3>2. Ends(d, k) BY <1>1, <1>5, <1>11, <2>2 DEF Ends
    <3>. QED BY <3>1, <3>2
  <2>. QED BY <1>17, <2>1, <2>2
<1>19. d.size = goal BY <1>10
<1>. QED BY <1>2, <1>4, <1>10, <1>18, <1>19 DEF Queue

\* WriteBuffer adds its bytes to those held when they fit in their place.
LEMMA WriteHolds ==
    ASSUME NEW b, BufferOK(b), NEW s \in Seq(Nat), Queue(b, s),
           NEW bytes \in Seq(Nat), bytes # <<>>,
           InPlace(Reserve(b, Len(bytes)), Len(bytes))
    PROVE  Queue(WriteBuffer(b, bytes), s \o bytes)
<1>1. PICK n, c, goal : n = Len(bytes) /\ c = Reserve(b, n) /\ goal = b.size + n OBVIOUS
<1>2. b \in Buffers /\ b.size \in Nat /\ n \in Nat /\ n > 0 /\ goal \in Nat
  BY <1>1 DEF BufferOK, Buffers
<1>3. BufferOK(c) /\ c \in Rings /\ c.size = b.size BY <1>1, <1>2, ReserveOK
<1>4. n <= Cap
  <2>1. n <= Room(c.nodes[Target(c)]) BY <1>1 DEF InPlace
  <2>2. Target(c) \in 1 .. Len(c.nodes) BY <1>3, TargetOf
  <2>3. Room(c.nodes[Target(c)]) \in 0 .. Cap BY <1>3, <2>2, RingParts
  <2>. QED BY <1>2, <2>1, <2>3, Sizes
<1>5. PICK k, o : Holds(c, s, k, o) /\ (Ends(c, k) \/ Open(c, k))
  BY <1>1, <1>2, <1>4, ReserveHolds
<1>6. PICK d : d = FillTurn(c, bytes, goal) OBVIOUS
<1>7. Queue(d, s \o bytes) /\ d.size = goal /\ d \in Rings
  <2>1. goal = c.size + Len(bytes) /\ InPlace(c, Len(bytes)) BY <1>1, <1>3
  <2>. QED BY <1>2, <1>5, <1>6, <2>1, FillHolds
<1>. DEFINE I == {c, d}
            r == [x \in I |-> IF x = c THEN 1 ELSE 0]
<1>8. c # d /\ c.size < goal /\ ~(d.size < goal) BY <1>1, <1>2, <1>3, <1>7
<1>9. I \in SUBSET Growing(b)
  <2>1. c.size >= b.size /\ d.size >= b.size BY <1>1, <1>2, <1>3, <1>7
  <2>. QED BY <1>3, <1>7, <2>1 DEF Growing
<1>10. r \in [I -> Nat] /\ Reserve(b, Len(bytes)) \in I BY <1>1
<1>11. \A x \in I : x.size < goal => /\ FillTurn(x, bytes, goal) \in I
                                     /\ Lower(r, r, FillTurn(x, bytes, goal), x)
  BY <1>6, <1>8 DEF Lower
<1>12. /\ WriteBuffer(b, bytes) \in I /\ ~(WriteBuffer(b, bytes).size < goal)
  <2>1. goal = b.size + Len(bytes) BY <1>1
  <2>. HIDE DEF I, r
  <2>. QED BY <1>2, <1>9, <1>10, <1>11, <2>1, FillKeeps
<1>13. WriteBuffer(b, bytes) = d BY <1>8, <1>12
<1>. QED BY <1>7, <1>13

\* AdvanceTurnIs for a named result.
LEMMA AdvanceWhole ==
    ASSUME NEW c \in Rings, NEW bytes \in Seq(Nat), NEW goal \in Nat, c.size <= goal,
           goal - c.size <= Len(bytes), NEW d, d = AdvanceTurn(c, bytes, goal)
    PROVE  \E done \in Nat, n \in Nat, nd \in Nodes :
              /\ done = Len(bytes) - (goal - c.size)
              /\ n = Lesser(goal - c.size, Room(c.nodes[c.w])) /\ done + n <= Len(bytes)
              /\ nd = Store(c.nodes[c.w], SubSeq(bytes, done + 1, done + n))
              /\ nd.use = c.nodes[c.w].use + n
              /\ Becomes(c, d, c.w, nd)
              /\ d.w = After(c, c.w) /\ d.r = c.r /\ d.size = c.size + n
<1>1. PICK done \in Nat, n \in Nat, nd \in Nodes :
         /\ done = Len(bytes) - (goal - c.size)
         /\ n = Lesser(goal - c.size, Room(c.nodes[c.w])) /\ done + n <= Len(bytes)
         /\ nd = Store(c.nodes[c.w], SubSeq(bytes, done + 1, done + n))
         /\ nd.use = c.nodes[c.w].use + n
         /\ Becomes(c, AdvanceTurn(c, bytes, goal), c.w, nd)
         /\ AdvanceTurn(c, bytes, goal).w = After(c, c.w)
         /\ AdvanceTurn(c, bytes, goal).r = c.r
         /\ AdvanceTurn(c, bytes, goal).size = c.size + n
  BY AdvanceTurnIs
<1>. QED BY <1>1

\* A turn of MoveWritePos: the next node is filled as far as there are bytes.
LEMMA AdvanceHolds ==
    ASSUME NEW c, NEW bytes \in Seq(Nat), NEW m \in Nat, m < Len(bytes),
           NEW k, NEW o, Holds(c, SubSeq(bytes, 1, m), k, o), BufferOK(c),
           c.w = At(c, k), k < Len(c.nodes), NEW d, d = AdvanceTurn(c, bytes, Len(bytes))
    PROVE  /\ BufferOK(d) /\ d \in Rings /\ Len(d.nodes) = Len(c.nodes)
           /\ d.size = m + Lesser(Len(bytes) - m, Cap) /\ d.w = At(d, k + 1)
           /\ \E u : Holds(d, SubSeq(bytes, 1, d.size), k + 1, u)
<1>1. PICK s, l, goal : s = SubSeq(bytes, 1, m) /\ l = Len(c.nodes) /\ goal = Len(bytes)
  OBVIOUS
<1>2. goal \in Nat /\ m < goal /\ s \in Seq(Nat) /\ Len(s) = m BY <1>1
<1>3. /\ c \in Rings /\ c.size = m /\ k \in Nat /\ Holds(c, s, k, o)
      /\ l \in Nat \ {0} /\ k \in 0 .. l - 1 /\ c.w \in 1 .. l
  <2>1. Holds(c, s, k, o) BY <1>1
  <2>2. c \in Rings /\ c.size = m /\ k \in Nat BY <1>2, <2>1, HoldsParts, MarksParts
  <2>3. l \in Nat \ {0} /\ c.w \in 1 .. l BY <1>1, <2>2, RingParts
  <2>. QED BY <1>1, <2>1, <2>2, <2>3
<1>4. PICK done \in Nat, n \in Nat, nd \in Nodes :
         /\ done = goal - (goal - c.size)
         /\ n = Lesser(goal - c.size, Room(c.nodes[c.w]))
         /\ done + n <= goal
         /\ nd = Store(c.nodes[c.w], SubSeq(bytes, done + 1, done + n))
         /\ nd.use = c.nodes[c.w].use + n
         /\ Becomes(c, d, c.w, nd)
         /\ d.w = After(c, c.w) /\ d.r = c.r /\ d.size = c.size + n
  <2>1. c.size <= goal /\ goal - c.size <= Len(bytes) /\ goal \in Nat
    BY <1>1, <1>2, <1>3
  <2>2. d = AdvanceTurn(c, bytes, goal) /\ c \in Rings BY <1>1, <1>3
  <2>3. \E done \in Nat, n \in Nat, nd \in Nodes :
         /\ done = Len(bytes) - (goal - c.size)
         /\ n = Lesser(goal - c.size, Room(c.nodes[c.w]))
         /\ done + n <= Len(bytes)
         /\ nd = Store(c.nodes[c.w], SubSeq(bytes, done + 1, done + n))
         /\ nd.use = c.nodes[c.w].use + n
         /\ Becomes(c, d, c.w, nd)
         /\ d.w = After(c, c.w) /\ d.r = c.r /\ d.size = c.size + n
    BY <2>1, <2>2, AdvanceWhole, SMTT(180)
  <2>. QED BY <1>1, <2>3
<1>5. PICK t, e : t = c.w /\ e = c.nodes[t] OBVIOUS
<1>6. e \in Nodes /\ Clear(e) /\ Room(e) = Cap /\ t \in 1 .. l /\ t = At(c, k)
  <2>1. k \in k .. Len(c.nodes) - 1 BY <1>1, <1>3
  <2>2. Clear(c.nodes[At(c, k)]) BY <1>3, <2>1, HoldsParts
  <2>3. e \in Nodes BY <1>1, <1>3, <1>5, RingParts
  <2>. QED BY <1>3, <1>5, <2>2, <2>3, Sizes DEF Clear, Room
<1>7. done = m /\ n = Lesser(goal - m, Cap) /\ n > 0 /\ n <= Cap /\ m + n <= goal
  <2>1. done = m BY <1>2, <1>3, <1>4
  <2>2. n = Lesser(goal - m, Cap) BY <1>3, <1>4, <1>5, <1>6
  <2>3. n > 0 /\ n <= Cap BY <1>2, <2>2, Sizes DEF Lesser
  <2>. QED BY <1>4, <2>1, <2>2, <2>3
<1>8. PICK z, part : z = m + n /\ part = SubSeq(bytes, m + 1, z) OBVIOUS
<1>9. z \in Nat /\ m <= z /\ z <= Len(bytes) /\ z - m = n
  <2>1. n \in Nat /\ goal = Len(bytes) /\ z = m + n /\ m + n <= goal
    BY <1>1, <1>4, <1>7, <1>8
  <2>. QED BY <2>1
<1>10. /\ part \in Seq(Nat) /\ Len(part) = n
       /\ \A i \in 1 .. Len(part) : part[i] = bytes[m + i]
  <2>1. PICK a : a = m + 1 OBVIOUS
  <2>2. a \in Nat \ {0} /\ a <= z + 1 /\ z - a + 1 = n BY <1>9, <2>1
  <2>3. /\ part \in Seq(Nat) /\ Len(part) = z - a + 1
        /\ \A i \in 1 .. z - a + 1 : part[i] = bytes[a + i - 1]
    BY <1>8, <1>9, <2>1, <2>2, SubSeqOf
  <2>4. \A i \in 1 .. n : a + i - 1 = m + i BY <1>9, <2>1
  <2>. QED BY <2>2, <2>3, <2>4
<1>11. s \o part = SubSeq(bytes, 1, z)
  <2>1. Len(part) = z - m BY <1>9, <1>10
  <2>2. SubSeq(bytes, 1, m) \o part = SubSeq(bytes, 1, z)
    BY <1>9, <1>10, <2>1, Continued, SMTT(180)
  <2>. QED BY <1>1, <2>2
<1>12. nd = Store(e, part) /\ Becomes(c, d, t, nd) /\ d.size = c.size + Len(part)
       /\ part # <<>>
  <2>1. SubSeq(bytes, done + 1, done + n) = part BY <1>7, <1>8
  <2>2. part # <<>>
    <3>1. Len(part) # 0 BY <1>7, <1>10
    <3>. QED BY <3>1
  <2>. QED BY <1>4, <1>5, <1>10, <2>1, <2>2
<1>13. \E u : Holds(d, s \o part, k + 1, u)
  <2>1. k < Len(c.nodes) /\ Len(part) <= Cap BY <1>7, <1>10
  <2>. QED BY <1>3, <1>4, <1>5, <1>6, <1>10, <1>12, <2>1, HoldsNew
<1>14. BufferOK(d)
  <2>1. t \in 1 .. Len(c.nodes) /\ nd.use = c.nodes[t].use + n BY <1>1, <1>4, <1>5, <1>6
  <2>. QED BY <1>3, <1>4, <1>12, <2>1, MoreOK
<1>15. d \in Rings /\ Len(d.nodes) = l /\ d.size = z
  BY <1>1, <1>3, <1>4, <1>8 DEF Becomes
<1>16. d.w = At(d, k + 1)
  <2>1. \A j : At(d, j) = At(c, j) BY <1>1, <1>4, <1>15 DEF At
  <2>2. At(c, k + 1) = After(c, At(c, k)) BY <1>1, <1>3, AtIs
  <2>. QED BY <1>4, <2>1, <2>2
<1>. QED BY <1>1, <1>7, <1>8, <1>11, <1>13, <1>14, <1>15, <1>16

\* What readv put into a blank buffer is held by it.
LEMMA MoveWriteHolds ==
    ASSUME NEW b \in Rings, BufferOK(b), Blank(b), NEW bytes \in Seq(Nat),
           bytes # <<>>, Len(bytes) <= Left(b), NEW x, x = MoveWritePos(b, bytes)
    PROVE  BufferOK(x) /\ \E k, o : Holds(x, bytes, k, o)
<1>1. PICK l, goal : l = Len(b.nodes) /\ goal = Len(bytes) OBVIOUS
<1>2. l \in Nat \ {0} /\ goal \in Nat /\ goal > 0 /\ b.size = 0 /\ goal = b.size + Len(bytes)
  BY <1>1, RingParts DEF Blank
<1>3. goal <= l * Cap
  <2>1. PICK m : m = l * Cap OBVIOUS
  <2>2. m \in Nat BY <1>2, <2>1, Sizes
  <2>. QED BY <1>1, <1>2, <2>1, <2>2 DEF Left
<1>. DEFINE Fore(n) == SubSeq(bytes, 1, n)
            Full(c) == \E k, o : /\ Holds(c, Fore(c.size), k, o)
                                 /\ c.size < goal => c.w = At(c, k) /\ c.size = k * Cap
            I == {c \in Growing(b) : /\ BufferOK(c) /\ Len(c.nodes) = l
                                     /\ c.size <= goal /\ Full(c)}
            r == [c \in I |-> goal - c.size]
<1>4. \A c \in I : c \in Rings /\ c.size \in Nat /\ c.size <= goal
  <2>. TAKE c \in I
  <2>1. c \in Rings BY DEF Growing
  <2>. QED BY <2>1, RingParts
<1>5. r \in [I -> Nat] BY <1>2, <1>4
<1>6. b \in I
  <2>1. PICK o : o = [j \in 0 .. 0 |-> 0] OBVIOUS
  <2>2. Holds(b, <<>>, 0, o) /\ Ends(b, 0) BY <2>1, BlankHolds
  <2>3. Fore(b.size) = <<>> BY <1>2
  <2>4. b.w = At(b, 0) BY <2>2, AtIs DEF Ends
  <2>5. b.size = 0 * Cap BY <1>2, Sizes
  <2>6. Full(b) BY <2>2, <2>3, <2>4, <2>5
  <2>7. b \in Growing(b) BY <1>2 DEF Growing
  <2>. QED BY <1>1, <1>2, <2>6, <2>7
<1>7. ASSUME NEW c \in I, c.size < goal
      PROVE  AdvanceTurn(c, bytes, goal) \in I /\ r[AdvanceTurn(c, bytes, goal)] < r[c]
  <2>1. PICK d, m : d = AdvanceTurn(c, bytes, goal) /\ m = c.size OBVIOUS
  <2>2. PICK k, o : Holds(c, Fore(m), k, o) /\ c.w = At(c, k) /\ m = k * Cap
    BY <1>7, <2>1
  <2>3. c \in Rings /\ m \in Nat /\ m < Len(bytes) /\ BufferOK(c) /\ Len(c.nodes) = l
    BY <1>1, <1>4, <1>7, <2>1
  <2>4. k \in Nat BY <2>2, HoldsParts, MarksParts
  <2>5. k < l
    <3>1. ASSUME ~(k < l) PROVE FALSE
      <4>1. PICK h \in Nat : k = l + h
        <5>1. k - l \in Nat /\ k = l + (k - l) BY <1>2, <2>4, <3>1
        <5>. QED BY <5>1
      <4>2. h * Cap \in Nat /\ l * Cap \in Nat BY <1>2, <4>1, Sizes
      <4>3. m = l * Cap + h * Cap BY <1>2, <2>2, <4>1, Sizes
      <4>4. PICK f \in Nat, g \in Nat : f = h * Cap /\ g = l * Cap BY <4>2
      <4>. QED BY <1>1, <1>2, <1>3, <2>3, <4>3, <4>4
    <3>. QED BY <3>1
  <2>6. /\ BufferOK(d) /\ d \in Rings /\ Len(d.nodes) = l
        /\ d.size = m + Lesser(goal - m, Cap) /\ d.w = At(d, k + 1)
        /\ \E u : Holds(d, Fore(d.size), k + 1, u)
    <3>1. d = AdvanceTurn(c, bytes, Len(bytes)) /\ k < Len(c.nodes) BY <1>1, <2>1, <2>3, <2>5
    <3>2. /\ BufferOK(d) /\ d \in Rings /\ Len(d.nodes) = Len(c.nodes)
          /\ d.size = m + Lesser(Len(bytes) - m, Cap) /\ d.w = At(d, k + 1)
          /\ \E u : Holds(d, SubSeq(bytes, 1, d.size), k + 1, u)
      BY <2>2, <2>3, <3>1, AdvanceHolds
    <3>. QED BY <1>1, <2>3, <3>2
  <2>7. m < d.size /\ d.size <= goal /\ (d.size < goal => d.size = m + Cap)
    BY <1>1, <1>2, <2>3, <2>6, Sizes DEF Lesser
  <2>8. m + Cap = (k + 1) * Cap BY <2>2, <2>4, Sizes
  <2>9. Full(d) BY <2>6, <2>7, <2>8
  <2>10. d \in Growing(b)
    <3>1. d.size \in Nat BY <2>6, RingParts
    <3>2. d.size >= b.size BY <1>2, <3>1
    <3>. QED BY <2>6, <3>2 DEF Growing
  <2>11. d \in I BY <2>6, <2>7, <2>9, <2>10
  <2>12. r[d] = goal - d.size /\ r[c] = goal - m
    <3>. HIDE DEF I
    <3>. QED BY <2>1, <2>11
  <2>13. d.size \in Nat BY <2>6, RingParts
  <2>14. r[d] < r[c] BY <1>2, <2>3, <2>7, <2>12, <2>13
  <2>. HIDE DEF I, r
  <2>. QED BY <2>1, <2>11, <2>14
<1>8. I \in SUBSET Growing(b) OBVIOUS
<1>9. x \in I /\ ~(x.size < goal)
  <2>. HIDE DEF I, r
  <2>. QED BY <1>2, <1>5, <1>6, <1>7, <1>8, AdvanceKeeps
<1>10. x.size = goal
  <2>1. x.size \in Nat /\ x.size <= goal BY <1>4, <1>9
  <2>. QED BY <1>2, <1>9, <2>1
<1>11. Fore(x.size) = bytes BY <1>1, <1>10
<1>. QED BY <1>9, <1>11

----------------------------------------------------------------------------
(* The inductive invariant.                                                *)

\* The bytes of the peer the connecter has taken from the socket.
Upto(n) == [i \in 1 .. n |-> i]

Streams ==
    got \in Seq(Nat) /\ written \in Seq(Nat) /\ sent \in Seq(Nat) /\ taken <= arrived

\* What is read is in the buffer from readv to the callback, and nowhere else.
Received ==
    IF pc = "readcb"
    THEN \E s, k, o : s # <<>> /\ Holds(rbuf, s, k, o) /\ got \o s = Upto(taken)
    ELSE Blank(rbuf) /\ got = Upto(taken)

\* The buffer has room for what readv is about to be asked for.
SpaceReady ==
    pc = "readv" =>
        rbuf \in Rings /\ unread > 0 /\ Lesser(MaxIov * Cap, unread) <= Left(rbuf)

\* What is written and not sent is queued.
Unsent == ~spoilt => \E s \in Seq(Nat) : Queue(wbuf, s) /\ sent \o s = written

CInv ==
    /\ TypeOK /\ BufferOK(rbuf) /\ BufferOK(wbuf)
    /\ Streams /\ Received /\ SpaceReady /\ Unsent

----------------------------------------------------------------------------
(* What the conjuncts of the property are.                                 *)

\* Nothing is read out of a blank buffer.
LEMMA BlankRead ==
    ASSUME NEW b \in Buffers, Blank(b)
    PROVE  /\ ReadBuffer(b, b.size) = <<>>
           /\ \A i \in DOMAIN b.nodes : b.nodes[i].rc + b.nodes[i].use <= Cap
<1>1. CASE b.nodes = <<>> BY <1>1 DEF ReadBuffer
<1>2. CASE b.nodes # <<>>
  <2>1. b \in Rings BY <1>2 DEF Rings
  <2>2. Holds(b, <<>>, 0, [j \in 0 .. 0 |-> 0]) BY <2>1, BlankHolds
  <2>3. PICK k, o : Holds(b, <<>>, k, o) BY <2>2
  <2>4. ReadBuffer(b, b.size) = <<>> BY <2>3, AllRead
  <2>5. \A i \in DOMAIN b.nodes : Clear(b.nodes[i]) BY DEF Blank
  <2>. QED BY <2>4, <2>5, Sizes DEF Clear
<1>. QED BY <1>1, <1>2

\* No node of a buffer that holds a sequence is read beyond its end.
LEMMA HoldsFits ==
    ASSUME NEW b, NEW s, NEW k, NEW o, Holds(b, s, k, o)
    PROVE  \A i \in DOMAIN b.nodes : b.nodes[i].rc + b.nodes[i].use <= Cap
<1>1. b \in Rings /\ k \in Nat BY HoldsParts, MarksParts
<1>2. DOMAIN b.nodes = 1 .. Len(b.nodes) /\ Len(b.nodes) \in Nat BY <1>1, RingParts
<1>3. ASSUME NEW j \in 0 .. Len(b.nodes) - 1, NEW e, e = b.nodes[At(b, j)]
      PROVE  e.rc + e.use <= Cap
  <2>1. CASE j < k
    <3>1. j \in 0 .. k - 1 BY <1>1, <1>2, <2>1
    <3>2. Piece(e, s, o[j], o[j + 1]) BY <1>3, <3>1, HoldsParts
    <3>. QED BY <3>2 DEF Piece
  <2>2. CASE ~(j < k)
    <3>1. j \in k .. Len(b.nodes) - 1 BY <1>1, <1>2, <2>2
    <3>2. Clear(e) BY <1>3, <3>1, HoldsParts
    <3>. QED BY <3>2, Sizes DEF Clear
  <2>. QED BY <2>1, <2>2
<1>4. ASSUME NEW i \in 1 .. Len(b.nodes) PROVE b.nodes[i].rc + b.nodes[i].use <= Cap
  <2>1. PICK j \in 0 .. Len(b.nodes) - 1 : i = At(b, j) BY <1>1, AtIs
  <2>2. PICK e : e = b.nodes[At(b, j)] OBVIOUS
  <2>3. e.rc + e.use <= Cap BY <1>3, <2>2
  <2>. QED BY <2>1, <2>2, <2>3
<1>. QED BY <1>2, <1>4

\* The invariant is all the property needs.
LEMMA InOrder == CInv => BytesInOrder
<1>1. SUFFICES ASSUME CInv PROVE BytesInOrder OBVIOUS
<1>2. BufferOK(rbuf) /\ BufferOK(wbuf) /\ taken <= arrived /\ got \in Seq(Nat)
      /\ rbuf \in Buffers /\ wbuf \in Buffers /\ sent \in Seq(Nat)
  BY <1>1 DEF CInv, Streams, BufferOK
<1>3. got \o ReadBuffer(rbuf, rbuf.size) = [i \in 1 .. taken |-> i]
  <2>1. CASE pc = "readcb"
    <3>1. PICK s, k, o : Holds(rbuf, s, k, o) /\ got \o s = Upto(taken)
      BY <1>1, <2>1 DEF CInv, Received
    <3>2. ReadBuffer(rbuf, rbuf.size) = s BY <3>1, AllRead
    <3>. QED BY <3>1, <3>2 DEF Upto
  <2>2. CASE pc # "readcb"
    <3>1. Blank(rbuf) /\ got = Upto(taken) BY <1>1, <2>2 DEF CInv, Received
    <3>2. ReadBuffer(rbuf, rbuf.size) = <<>> BY <1>2, <3>1, BlankRead
    <3>3. got \o <<>> = got BY <1>2
    <3>. QED BY <3>1, <3>2, <3>3 DEF Upto
  <2>. QED BY <2>1, <2>2
<1>4. ASSUME ~spoilt
      PROVE  /\ sent \o ReadBuffer(wbuf, wbuf.size) = written
             /\ \A i \in DOMAIN wbuf.nodes :
                   wbuf.nodes[i].rc + wbuf.nodes[i].use <= Cap
  <2>1. PICK s \in Seq(Nat) : Queue(wbuf, s) /\ sent \o s = written
    BY <1>1, <1>4 DEF CInv, Unsent
  <2>2. CASE s = <<>>
    <3>1. Blank(wbuf) BY <2>1, <2>2 DEF Queue
    <3>. QED BY <1>2, <2>1, <2>2, <3>1, BlankRead
  <2>3. CASE s # <<>>
    <3>1. PICK k, o : Holds(wbuf, s, k, o) BY <2>1, <2>3 DEF Queue
    <3>2. ReadBuffer(wbuf, wbuf.size) = s BY <3>1, AllRead
    <3>3. \A i \in DOMAIN wbuf.nodes : wbuf.nodes[i].rc + wbuf.nodes[i].use <= Cap
      BY <3>1, HoldsFits
    <3>. QED BY <2>1, <3>2, <3>3
  <2>. QED BY <2>2, <2>3
<1>. QED BY <1>2, <1>3, <1>4 DEF BytesInOrder

----------------------------------------------------------------------------
(* Init and the steps.                                                     *)

\* A new buffer.
LEMMA EmptyBlank ==
    EmptyBuffer \in Buffers /\ BufferOK(EmptyBuffer) /\ Blank(EmptyBuffer)
<1>1. EmptyBuffer \in Buffers BY DEF EmptyBuffer, Buffers
<1>2. Used(EmptyBuffer) = {} BY DEF EmptyBuffer, Used
<1>3. Cardinality({}) = 0 BY FS_EmptySet
<1>4. EmptyBuffer.size = 0 BY DEF EmptyBuffer
<1>5. Blank(EmptyBuffer) BY DEF EmptyBuffer, Blank
<1>. QED BY <1>1, <1>2, <1>3, <1>4, <1>5 DEF BufferOK

\* The invariant holds at first.
LEMMA InitCInv == Init => CInv
<1>1. SUFFICES ASSUME Init PROVE CInv OBVIOUS
<1>2. /\ rbuf = EmptyBuffer /\ wbuf = EmptyBuffer /\ got = <<>> /\ written = <<>>
      /\ sent = <<>> /\ taken = 0 /\ arrived = 0 /\ pc \in {"connect", "wait"}
  BY <1>1 DEF Init
<1>3. TypeOK
  <2>1. {unread, arrived, taken, room} \subseteq Nat
    BY <1>1, SizesAssumption DEF Init
  <2>2. {attached, pending, eof, spoilt} \subseteq BOOLEAN BY <1>1 DEF Init
  <2>3. app \in {"echo", "client", "direct"} BY <1>1 DEF Init
  <2>4. mask \subseteq {"R", "W"} /\ curEv \subseteq {"R", "W"} BY <1>1 DEF Init
  <2>. QED BY <1>2, <2>1, <2>2, <2>3, <2>4 DEF TypeOK
<1>4. BufferOK(rbuf) /\ BufferOK(wbuf) /\ Blank(rbuf) /\ Blank(wbuf) BY <1>2, EmptyBlank
<1>5. <<>> \in Seq(Nat) /\ <<>> \o <<>> = <<>> OBVIOUS
<1>6. Streams BY <1>2, <1>5 DEF Streams
<1>7. Upto(0) = <<>> BY DEF Upto
<1>8. Received BY <1>2, <1>4, <1>7 DEF Received
<1>9. SpaceReady BY <1>2 DEF SpaceReady
<1>10. Unsent BY <1>2, <1>4, <1>5 DEF Unsent, Queue
<1>. QED BY <1>3, <1>4, <1>6, <1>8, <1>9, <1>10 DEF CInv

\* EPOLL_CTL_MOD leaves an interest that epoll knows.
LEMMA ModifyType ==
    ASSUME TypeOK, NEW m, m \subseteq {"R", "W"}, NEW tk, NEW rm, Modify(m, tk, rm)
    PROVE  mask' \subseteq {"R", "W"} /\ pending' \in BOOLEAN
<1>1. CASE attached
  <2>1. mask' = m /\ pending' = (pending \/ Ready(tk, rm) \cap m # {})
    BY <1>1 DEF Modify
  <2>. QED BY <2>1
<1>2. CASE ~attached
  <2>1. mask' = mask /\ pending' = pending BY <1>2 DEF Modify
  <2>2. pending \in BOOLEAN /\ mask \subseteq {"R", "W"} BY DEF TypeOK
  <2>. QED BY <2>1, <2>2
<1>. QED BY <1>1, <1>2

\* A write queues the bytes behind the unsent ones, unless it went astray.
LEMMA WriteOutKeeps ==
    ASSUME CInv, NEW bytes \in Seq(Nat), WriteOut(bytes), sent' = sent
    PROVE  /\ BufferOK(wbuf') /\ written' \in Seq(Nat) /\ spoilt' \in BOOLEAN /\ Unsent'
           /\ mask' \subseteq {"R", "W"} /\ pending' \in BOOLEAN
<1>1. /\ TypeOK /\ BufferOK(wbuf) /\ sent \in Seq(Nat) /\ written \in Seq(Nat)
      /\ mask \subseteq {"R", "W"} /\ pending \in BOOLEAN /\ spoilt \in BOOLEAN
  BY DEF CInv, Streams, TypeOK
<1>2. written' = written \o bytes /\ written' \in Seq(Nat) BY <1>1 DEF WriteOut
<1>3. CASE bytes = <<>>
  <2>1. wbuf' = wbuf /\ spoilt' = spoilt /\ mask' = mask /\ pending' = pending
    BY <1>1, <1>3 DEF WriteOut
  <2>2. written' = written BY <1>1, <1>2, <1>3
  <2>3. Unsent' BY <2>1, <2>2 DEF CInv, Unsent
  <2>. QED BY <1>1, <1>2, <2>1, <2>3
<1>4. CASE bytes # <<>>
  <2>1. /\ wbuf' = WriteBuffer(wbuf, bytes) /\ spoilt' = (spoilt \/ ~Fits(bytes))
        /\ Modify(mask \cup {"W"}, taken, room)
    BY <1>4 DEF WriteOut
  <2>2. mask' \subseteq {"R", "W"} /\ pending' \in BOOLEAN
    <3>1. PICK m : m = mask \cup {"W"} OBVIOUS
    <3>2. m \subseteq {"R", "W"} BY <1>1, <3>1
    <3>. QED BY <1>1, <2>1, <3>1, <3>2, ModifyType
  <2>3. BufferOK(wbuf') BY <1>1, <1>4, <2>1, WriteOK
  <2>4. spoilt' \in BOOLEAN BY <2>1
  <2>5. ASSUME ~spoilt'
        PROVE  \E s \in Seq(Nat) : Queue(wbuf', s) /\ sent' \o s = written'
    <3>1. ~spoilt /\ Fits(bytes) BY <2>1, <2>5
    <3>2. PICK s \in Seq(Nat) : Queue(wbuf, s) /\ sent \o s = written
      BY <3>1 DEF CInv, Unsent
    <3>3. Queue(wbuf', s \o bytes) BY <1>1, <1>4, <2>1, <3>1, <3>2, WriteHolds DEF Fits
    <3>4. s \o bytes \in Seq(Nat) /\ sent \o (s \o bytes) = (sent \o s) \o bytes
      BY <1>1, ConcatAssociative, ConcatProperties, SMTT(60)
    <3>5. PICK y : y = s \o bytes OBVIOUS
    <3>6. y \in Seq(Nat) /\ Queue(wbuf', y) /\ sent' \o y = written'
      BY <1>2, <3>2, <3>3, <3>4, <3>5
    <3>. QED BY <3>6
  <2>6. Unsent' BY <2>5 DEF Unsent
  <2>. QED BY <1>2, <2>2, <2>3, <2>4, <2>6
<1>. QED BY <1>3, <1>4

Pcs == {"connect", "wait", "handle", "readv", "readcb", "reply", "write"}

\* TypeOK, a variable at a time.
LEMMA TypeParts ==
    TypeOK <=> /\ app \in {"echo", "client", "direct"} /\ pc \in Pcs
               /\ attached \in BOOLEAN /\ pending \in BOOLEAN
               /\ eof \in BOOLEAN /\ spoilt \in BOOLEAN
               /\ mask \subseteq {"R", "W"} /\ curEv \subseteq {"R", "W"}
               /\ unread \in Nat /\ arrived \in Nat /\ taken \in Nat /\ room \in Nat
<1>1. {attached, pending, eof, spoilt} \subseteq BOOLEAN
      <=> attached \in BOOLEAN /\ pending \in BOOLEAN /\ eof \in BOOLEAN
          /\ spoilt \in BOOLEAN
  OBVIOUS
<1>2. {unread, arrived, taken, room} \subseteq Nat
      <=> unread \in Nat /\ arrived \in Nat /\ taken \in Nat /\ room \in Nat
  OBVIOUS
<1>. QED BY <1>1, <1>2 DEF TypeOK, Pcs

\* A step that leaves the buffers and the bytes alone.
LEMMA Quiet ==
    ASSUME CInv, TypeOK', arrived <= arrived',
           rbuf' = rbuf, wbuf' = wbuf, taken' = taken, got' = got, written' = written,
           sent' = sent, spoilt' = spoilt, pc' = "readcb" <=> pc = "readcb",
           pc' = "readv" => pc = "readv" /\ unread' = unread
    PROVE  CInv'
<1>1. TypeOK /\ Streams /\ Received /\ SpaceReady /\ Unsent /\ BufferOK(rbuf)
      /\ BufferOK(wbuf)
  BY DEF CInv
<1>2. BufferOK(rbuf') /\ BufferOK(wbuf') BY <1>1
<1>3. Streams'
  <2>1. taken \in Nat /\ arrived \in Nat /\ arrived' \in Nat
    BY <1>1, TypeParts DEF TypeOK
  <2>. QED BY <1>1, <2>1 DEF Streams
<1>4. Received' BY <1>1 DEF Received
<1>5. SpaceReady' BY <1>1 DEF SpaceReady
<1>6. Unsent' BY <1>1 DEF Unsent
<1>. QED BY <1>2, <1>3, <1>4, <1>5, <1>6 DEF CInv

\* The steps of the peer and those of the loop that touch no buffer.
LEMMA ArriveStep ==
    ASSUME CInv, NEW n \in 1 .. MaxBytes, Arrive(n)
    PROVE  CInv'
<1>1. TypeOK BY DEF CInv
<1>2. /\ app' = app /\ pc' = pc /\ attached' = attached /\ eof' = eof
      /\ mask' = mask /\ curEv' = curEv /\ unread' = unread /\ room' = room
      /\ rbuf' = rbuf /\ wbuf' = wbuf /\ taken' = taken /\ got' = got
      /\ written' = written /\ sent' = sent /\ spoilt' = spoilt
      /\ arrived' = arrived + n /\ pending' \in BOOLEAN
  BY <1>1, TypeParts DEF Arrive, loop
<1>3. n \in Nat /\ arrived \in Nat /\ arrived' \in Nat /\ arrived <= arrived'
  BY <1>1, <1>2, TypeParts, SizesAssumption
<1>4. TypeOK' BY <1>1, <1>2, <1>3, TypeParts DEF TypeOK
<1>. QED BY <1>2, <1>3, <1>4, Quiet

LEMMA PeerClosesStep ==
    ASSUME CInv, PeerCloses
    PROVE  CInv'
<1>1. TypeOK BY DEF CInv
<1>2. /\ app' = app /\ pc' = pc /\ attached' = attached /\ eof' \in BOOLEAN
      /\ mask' = mask /\ curEv' = curEv /\ unread' = unread /\ room' = room
      /\ rbuf' = rbuf /\ wbuf' = wbuf /\ taken' = taken /\ got' = got
      /\ written' = written /\ sent' = sent /\ spoilt' = spoilt
      /\ arrived' = arrived /\ pending' \in BOOLEAN
  BY <1>1, TypeParts DEF PeerCloses, loop
<1>3. arrived <= arrived' BY <1>1, <1>2, TypeParts
<1>4. TypeOK' BY <1>1, <1>2, TypeParts DEF TypeOK
<1>. QED BY <1>2, <1>3, <1>4, Quiet

LEMMA PeerReadsStep ==
    ASSUME CInv, NEW n \in 1 .. Space, PeerReads(n)
    PROVE  CInv'
<1>1. TypeOK BY DEF CInv
<1>2. /\ app' = app /\ pc' = pc /\ attached' = attached /\ eof' = eof
      /\ mask' = mask /\ curEv' = curEv /\ unread' = unread /\ room' = room + n
      /\ rbuf' = rbuf /\ wbuf' = wbuf /\ taken' = taken /\ got' = got
      /\ written' = written /\ sent' = sent /\ spoilt' = spoilt
      /\ arrived' = arrived /\ pending' \in BOOLEAN
  BY <1>1, TypeParts DEF PeerReads, loop, peer
<1>3. arrived <= arrived' /\ n \in Nat /\ room' \in Nat
  BY <1>1, <1>2, TypeParts, SizesAssumption
<1>4. TypeOK' BY <1>1, <1>2, <1>3, TypeParts DEF TypeOK
<1>. QED BY <1>2, <1>3, <1>4, Quiet

LEMMA ConnectFailsStep ==
    ASSUME CInv, ConnectFails
    PROVE  CInv'
<1>1. TypeOK BY DEF CInv
<1>2. /\ app' = app /\ pc = "connect" /\ pc' = "wait" /\ attached' = FALSE /\ eof' = eof
      /\ mask' = mask /\ curEv' = curEv /\ unread' = unread /\ room' = room
      /\ rbuf' = rbuf /\ wbuf' = wbuf /\ taken' = taken /\ got' = got
      /\ written' = written /\ sent' = sent /\ spoilt' = spoilt
      /\ arrived' = arrived /\ pending' = pending
  BY DEF ConnectFails, peer
<1>3. arrived <= arrived' BY <1>1, <1>2, TypeParts
<1>4. TypeOK' BY <1>1, <1>2, TypeParts DEF TypeOK, Pcs
<1>. QED BY <1>2, <1>3, <1>4, Quiet

LEMMA ReportStep ==
    ASSUME CInv, Report
    PROVE  CInv'
<1>1. TypeOK BY DEF CInv
<1>2. /\ app' = app /\ pc = "wait" /\ pc' \in {"wait", "handle"} /\ attached' = attached
      /\ eof' = eof /\ mask' = mask /\ curEv' = Ready(taken, room) \cap mask
      /\ unread' = unread /\ room' = room
      /\ rbuf' = rbuf /\ wbuf' = wbuf /\ taken' = taken /\ got' = got
      /\ written' = written /\ sent' = sent /\ spoilt' = spoilt
      /\ arrived' = arrived /\ pending' = FALSE
  BY DEF Report, peer
<1>3. arrived <= arrived' /\ curEv' \subseteq {"R", "W"}
  BY <1>1, <1>2, TypeParts
<1>4. TypeOK' BY <1>1, <1>2, <1>3, TypeParts DEF TypeOK, Pcs
<1>. QED BY <1>2, <1>3, <1>4, Quiet

LEMMA ReadvEofStep ==
    ASSUME CInv, ReadvEof
    PROVE  CInv'
<1>1. TypeOK BY DEF CInv
<1>2. /\ app' = app /\ pc = "readv" /\ pc' = "write" /\ attached' = FALSE /\ eof' = eof
      /\ mask' = mask /\ curEv' = curEv /\ unread' = unread /\ room' = room
      /\ rbuf' = rbuf /\ wbuf' = wbuf /\ taken' = taken /\ got' = got
      /\ written' = written /\ sent' = sent /\ spoilt' = spoilt
      /\ arrived' = arrived /\ pending' = pending
  BY DEF ReadvEof, peer
<1>3. arrived <= arrived' BY <1>1, <1>2, TypeParts
<1>4. TypeOK' BY <1>1, <1>2, TypeParts DEF TypeOK, Pcs
<1>. QED BY <1>2, <1>3, <1>4, Quiet

LEMMA NothingToWriteStep ==
    ASSUME CInv, NothingToWrite
    PROVE  CInv'
<1>1. TypeOK BY DEF CInv
<1>2. /\ app' = app /\ pc \in {"write", "handle"} /\ pc' = "wait" /\ attached' = attached
      /\ eof' = eof /\ mask' = mask /\ curEv' = {} /\ unread' = 0 /\ room' = room
      /\ rbuf' = rbuf /\ wbuf' = wbuf /\ taken' = taken /\ got' = got
      /\ written' = written /\ sent' = sent /\ spoilt' = spoilt
      /\ arrived' = arrived /\ pending' = pending
  BY DEF NothingToWrite, HandleWriteDue, Handled, peer
<1>3. arrived <= arrived' BY <1>1, <1>2, TypeParts
<1>4. TypeOK' BY <1>1, <1>2, TypeParts DEF TypeOK, Pcs
<1>. QED BY <1>2, <1>3, <1>4, Quiet

\* The write of the client's connect callback.
LEMMA ConnectStep ==
    ASSUME CInv, NEW n \in FirstWrites, Connect(n)
    PROVE  CInv'
<1>1. TypeOK /\ Streams /\ Received BY DEF CInv
<1>2. /\ app' = app /\ pc = "connect" /\ pc' = "wait" /\ attached' = attached
      /\ eof' = eof /\ curEv' = curEv /\ unread' = unread /\ room' = room
      /\ rbuf' = rbuf /\ taken' = taken /\ got' = got /\ sent' = sent
      /\ arrived' = arrived
  BY DEF Connect, peer
<1>3. PICK bytes : bytes = [i \in 1 .. n |-> i] OBVIOUS
<1>4. bytes \in Seq(Nat) /\ WriteOut(bytes)
  <2>1. n \in Nat BY SizesAssumption
  <2>2. bytes \in Seq(Nat) BY <1>3, <2>1
  <2>. QED BY <1>3, <2>2 DEF Connect
<1>5. /\ BufferOK(wbuf') /\ written' \in Seq(Nat) /\ spoilt' \in BOOLEAN /\ Unsent'
      /\ mask' \subseteq {"R", "W"} /\ pending' \in BOOLEAN
  BY <1>2, <1>4, WriteOutKeeps
<1>6. TypeOK' BY <1>1, <1>2, <1>5, TypeParts DEF TypeOK, Pcs
<1>7. BufferOK(rbuf') BY <1>2 DEF CInv
<1>8. Streams' /\ Received' /\ SpaceReady'
  <2>1. Streams' BY <1>1, <1>2, <1>5 DEF Streams
  <2>2. Received' BY <1>1, <1>2 DEF Received
  <2>3. SpaceReady' BY <1>2 DEF SpaceReady
  <2>. QED BY <2>1, <2>2, <2>3
<1>. QED BY <1>5, <1>6, <1>7, <1>8 DEF CInv

\* What is cut out of a sequence, also when there is nothing to cut.
LEMMA CutOut ==
    ASSUME NEW s \in Seq(Nat), NEW m \in Nat
    PROVE  SubSeq(s, m + 1, Len(s)) \in Seq(Nat)
<1>1. PICK i, j : i = m + 1 /\ j = Len(s) OBVIOUS
<1>2. i \in Nat \ {0} /\ j \in Nat /\ j <= Len(s) BY <1>1
<1>3. CASE i <= j + 1
  <2>1. SubSeq(s, i, j) \in Seq(Nat) BY <1>2, <1>3, SubSeqOf
  <2>. QED BY <1>1, <2>1
<1>4. CASE ~(i <= j + 1)
  <2>1. SubSeq(s, i, j) = <<>> BY <1>2, <1>4
  <2>. QED BY <1>1, <2>1
<1>. QED BY <1>3, <1>4

\* The echo of the server.
LEMMA ReplyStep ==
    ASSUME CInv, Reply
    PROVE  CInv'
<1>1. TypeOK /\ Streams /\ Received BY DEF CInv
<1>2. /\ app' = app /\ pc = "reply" /\ pc' = "write" /\ attached' = attached
      /\ eof' = eof /\ curEv' = curEv /\ unread' = unread
      /\ rbuf' = rbuf /\ taken' = taken /\ got' = got /\ sent' = sent
      /\ arrived' = arrived
      /\ room' = IF app = "direct" /\ room > 0 THEN room - 1 ELSE room
  BY DEF Reply, peer
<1>3. PICK bytes : bytes = SubSeq(got, Len(written) + 1, Len(got)) OBVIOUS
<1>4. bytes \in Seq(Nat) /\ WriteOut(bytes)
  <2>1. PICK m : m = Len(written) OBVIOUS
  <2>2. m \in Nat /\ got \in Seq(Nat) BY <1>1, <2>1 DEF Streams
  <2>3. SubSeq(got, m + 1, Len(got)) \in Seq(Nat) BY <2>2, CutOut
  <2>. QED BY <1>3, <2>1, <2>3 DEF Reply
<1>5. /\ BufferOK(wbuf') /\ written' \in Seq(Nat) /\ spoilt' \in BOOLEAN /\ Unsent'
      /\ mask' \subseteq {"R", "W"} /\ pending' \in BOOLEAN
  BY <1>2, <1>4, WriteOutKeeps
<1>6. room' \in Nat
  <2>1. room \in Nat BY <1>1, TypeParts
  <2>. QED BY <1>2, <2>1
<1>7. TypeOK' BY <1>1, <1>2, <1>5, <1>6, TypeParts DEF TypeOK, Pcs
<1>8. BufferOK(rbuf') BY <1>2 DEF CInv
<1>9. Streams' /\ Received' /\ SpaceReady'
  <2>1. Streams' BY <1>1, <1>2, <1>5 DEF Streams
  <2>2. Received' BY <1>1, <1>2 DEF Received
  <2>3. SpaceReady' BY <1>2 DEF SpaceReady
  <2>. QED BY <2>1, <2>2, <2>3
<1>. QED BY <1>5, <1>7, <1>8, <1>9 DEF CInv

\* GetWriteBuffer can give out at least a byte.
LEMMA AreasMost == MaxIov * Cap \in Nat \ {0}
<1>1. PICK x \in Nat \ {0}, y \in Nat \ {0} : x = MaxIov /\ y = Cap BY Sizes
<1>2. x * y \in Nat /\ x * y > 0 BY <1>1
<1>. QED BY <1>1, <1>2

\* HandleRead makes room for what it is going to read.
LEMMA AskUnreadStep ==
    ASSUME CInv, AskUnread
    PROVE  CInv'
<1>1. TypeOK /\ Streams /\ Received /\ Unsent /\ BufferOK(rbuf) /\ BufferOK(wbuf)
  BY DEF CInv
<1>2. PICK n : n = Lesser(MaxIov * Cap, unread') OBVIOUS
<1>3. /\ app' = app /\ pc = "handle" /\ pc' = "readv" /\ attached' = attached
      /\ eof' = eof /\ mask' = mask /\ pending' = pending /\ curEv' = curEv
      /\ unread' = IF arrived = taken THEN MaxSingleRead ELSE arrived - taken
      /\ room' = room /\ rbuf' = Reserve(rbuf, n) /\ wbuf' = wbuf /\ taken' = taken
      /\ got' = got /\ written' = written /\ sent' = sent /\ spoilt' = spoilt
      /\ arrived' = arrived
  BY <1>2 DEF AskUnread, peer
<1>4. unread' \in Nat /\ unread' > 0
  <2>1. arrived \in Nat /\ taken \in Nat /\ taken <= arrived
    BY <1>1, TypeParts DEF Streams
  <2>2. MaxSingleRead \in Nat \ {0} BY SizesAssumption
  <2>. QED BY <1>3, <2>1, <2>2
<1>5. n \in Nat /\ n > 0
  <2>1. PICK x \in Nat \ {0} : x = MaxIov * Cap BY AreasMost
  <2>2. n = Lesser(x, unread') BY <1>2, <2>1
  <2>. QED BY <1>4, <2>1, <2>2 DEF Lesser
<1>6. Blank(rbuf) /\ got = Upto(taken) BY <1>1, <1>3 DEF Received
<1>7. BufferOK(rbuf') /\ rbuf' \in Rings /\ Left(rbuf') >= n /\ Blank(rbuf')
  BY <1>1, <1>3, <1>5, <1>6, ReserveOK
<1>8. TypeOK' BY <1>1, <1>3, <1>4, TypeParts DEF TypeOK, Pcs
<1>9. Streams' BY <1>1, <1>3 DEF Streams
<1>10. Received' BY <1>3, <1>6, <1>7 DEF Received
<1>11. SpaceReady'
  <2>1. Left(rbuf') \in Nat BY <1>7, LeftNat
  <2>2. n <= Left(rbuf') BY <1>5, <1>7, <2>1
  <2>. QED BY <1>2, <1>4, <1>7, <2>2 DEF SpaceReady
<1>12. Unsent' BY <1>1, <1>3 DEF Unsent
<1>13. BufferOK(wbuf') BY <1>1, <1>3
<1>. QED BY <1>7, <1>8, <1>9, <1>10, <1>11, <1>12, <1>13 DEF CInv

\* The bytes taken so far and n more.
LEMMA UptoMore ==
    ASSUME NEW m \in Nat, NEW n \in Nat, NEW bytes, bytes = [i \in 1 .. n |-> m + i]
    PROVE  /\ bytes \in Seq(Nat) /\ Len(bytes) = n /\ Upto(m) \in Seq(Nat)
           /\ Upto(m) \o bytes = Upto(m + n)
<1>1. bytes \in Seq(Nat) /\ Len(bytes) = n OBVIOUS
<1>2. Upto(m) \in Seq(Nat) /\ Len(Upto(m)) = m BY DEF Upto
<1>3. PICK z : z = m + n OBVIOUS
<1>4. Upto(z) \in Seq(Nat) /\ Len(Upto(z)) = z BY <1>3 DEF Upto
<1>5. PICK u, y : u = Upto(m) /\ y = u \o bytes OBVIOUS
<1>6. /\ y \in Seq(Nat) /\ Len(y) = z /\ u \in Seq(Nat) /\ Len(u) = m
      /\ \A i \in 1 .. m : y[i] = u[i]
      /\ \A i \in 1 .. n : y[m + i] = bytes[i]
  <2>1. u \in Seq(Nat) /\ Len(u) = m BY <1>2, <1>5
  <2>2. /\ y \in Seq(Nat) /\ Len(y) = Len(u) + Len(bytes)
        /\ \A i \in 1 .. Len(u) : y[i] = u[i]
        /\ \A i \in 1 .. Len(bytes) : y[Len(u) + i] = bytes[i]
    BY <1>1, <1>5, <2>1, Joined, ZenonT(60)
  <2>. QED BY <1>1, <1>3, <2>1, <2>2
<1>7. ASSUME NEW i \in 1 .. z PROVE y[i] = Upto(z)[i]
  <2>1. Upto(z)[i] = i BY DEF Upto
  <2>2. CASE i <= m
    <3>1. i \in 1 .. m /\ u[i] = i BY <1>5, <2>2 DEF Upto
    <3>. QED BY <1>6, <2>1, <3>1
  <2>3. CASE ~(i <= m)
    <3>1. PICK h \in 1 .. n : i = m + h
      <4>1. i - m \in 1 .. n /\ i = m + (i - m) BY <1>3, <2>3
      <4>. QED BY <4>1
    <3>2. bytes[h] = i BY <3>1
    <3>. QED BY <1>6, <2>1, <3>1, <3>2
  <2>. QED BY <2>2, <2>3
<1>8. y = Upto(z) BY <1>4, <1>6, <1>7, SameSeq
<1>. QED BY <1>1, <1>2, <1>3, <1>5, <1>8

\* readv into the areas: the bytes go on where those taken before end.
LEMMA ReadvStep ==
    ASSUME CInv, Readv
    PROVE  CInv'
<1>1. /\ TypeOK /\ Streams /\ Received /\ SpaceReady /\ Unsent /\ BufferOK(rbuf)
      /\ BufferOK(wbuf) /\ pc = "readv"
  BY DEF CInv, Readv
<1>2. PICK n : n = Lesser(arrived - taken, GetWriteBuffer(rbuf, unread)) OBVIOUS
<1>3. PICK bytes : bytes = [i \in 1 .. n |-> taken + i] OBVIOUS
<1>4. /\ app' = app /\ n > 0 /\ pc' = "readcb" /\ attached' = attached
      /\ eof' = eof /\ curEv' = curEv /\ unread' = unread
      /\ room' = room /\ rbuf' = MoveWritePos(rbuf, bytes) /\ wbuf' = wbuf
      /\ taken' = taken + n
      /\ got' = got /\ written' = written /\ sent' = sent /\ spoilt' = spoilt
      /\ arrived' = arrived
      /\ IF unread > n THEN Modify(mask \cup {"R"}, taken + n, room)
         ELSE UNCHANGED <<mask, pending>>
  BY <1>2, <1>3 DEF Readv, peer
<1>5. /\ arrived \in Nat /\ taken \in Nat /\ taken <= arrived /\ unread \in Nat
      /\ got \in Seq(Nat) /\ mask \subseteq {"R", "W"} /\ pending \in BOOLEAN
  BY <1>1, TypeParts DEF Streams
<1>6. rbuf \in Rings /\ Lesser(MaxIov * Cap, unread) <= Left(rbuf)
      /\ Left(rbuf) \in Nat
  BY <1>1, LeftNat DEF SpaceReady
<1>7. n \in Nat /\ n <= arrived - taken /\ n <= Left(rbuf)
  <2>1. PICK x, y : x = arrived - taken /\ y = GetWriteBuffer(rbuf, unread) OBVIOUS
  <2>2. x \in Nat BY <1>5, <2>1
  <2>3. PICK z : z = Lesser(MaxIov * Cap, unread) OBVIOUS
  <2>4. y \in Nat /\ y <= z BY <1>5, <1>6, <2>1, <2>3, SpaceTaken
  <2>5. z \in Nat
    <3>1. PICK m \in Nat : m = MaxIov * Cap BY AreasMost
    <3>. QED BY <1>5, <2>3, <3>1, LesserOf
  <2>6. n = Lesser(x, y) BY <1>2, <2>1
  <2>7. n \in Nat /\ n <= x /\ n <= y BY <2>2, <2>4, <2>6, LesserOf
  <2>. QED BY <1>6, <2>1, <2>3, <2>4, <2>5, <2>7
<1>8. /\ bytes \in Seq(Nat) /\ Len(bytes) = n /\ bytes # <<>>
      /\ Upto(taken) \o bytes = Upto(taken + n)
  <2>1. bytes \in Seq(Nat) /\ Len(bytes) = n /\ Upto(taken) \o bytes = Upto(taken + n)
    BY <1>3, <1>5, <1>7, UptoMore
  <2>2. Len(bytes) # 0 BY <1>4, <1>7, <2>1
  <2>. QED BY <2>1, <2>2
<1>9. Blank(rbuf) /\ got = Upto(taken) BY <1>1 DEF Received
<1>10. BufferOK(rbuf') /\ \E k, o : Holds(rbuf', bytes, k, o)
  <2>1. Len(bytes) <= Left(rbuf) BY <1>7, <1>8
  <2>. QED BY <1>1, <1>4, <1>6, <1>8, <1>9, <2>1, MoveWriteHolds
<1>11. mask' \subseteq {"R", "W"} /\ pending' \in BOOLEAN
  <2>1. CASE unread > n
    <3>1. PICK m, tk : m = mask \cup {"R"} /\ tk = taken + n OBVIOUS
    <3>2. m \subseteq {"R", "W"} /\ Modify(m, tk, room) BY <1>4, <1>5, <2>1, <3>1
    <3>. QED BY <1>1, <3>2, ModifyType
  <2>2. CASE ~(unread > n) BY <1>4, <1>5, <2>2
  <2>. QED BY <2>1, <2>2
<1>12. taken' \in Nat /\ taken' <= arrived' BY <1>4, <1>5, <1>7
<1>13. TypeOK' BY <1>1, <1>4, <1>11, <1>12, TypeParts DEF TypeOK, Pcs
<1>14. Streams' BY <1>1, <1>4, <1>12 DEF Streams
<1>15. Received' BY <1>4, <1>8, <1>9, <1>10 DEF Received
<1>16. SpaceReady' BY <1>4 DEF SpaceReady
<1>17. Unsent' BY <1>1, <1>4 DEF Unsent
<1>18. BufferOK(wbuf') BY <1>1, <1>4
<1>. QED BY <1>10, <1>13, <1>14, <1>15, <1>16, <1>17, <1>18 DEF CInv

\* The callback gets all the read buffer holds, and leaves it blank.
LEMMA ReadCbStep ==
    ASSUME CInv, ReadCb
    PROVE  CInv'
<1>1. /\ TypeOK /\ Streams /\ Received /\ Unsent /\ BufferOK(rbuf) /\ BufferOK(wbuf)
      /\ pc = "readcb"
  BY DEF CInv, ReadCb
<1>2. /\ app' = app /\ pc' \in {"write", "reply"} /\ attached' = attached
      /\ eof' = eof /\ mask' = mask /\ pending' = pending /\ curEv' = curEv
      /\ unread' = unread /\ room' = room /\ rbuf' = MoveReadPos(rbuf, rbuf.size)
      /\ wbuf' = wbuf /\ taken' = taken /\ written' = written /\ sent' = sent
      /\ spoilt' = spoilt /\ arrived' = arrived
      /\ got' = got \o ReadBuffer(rbuf, rbuf.size)
  BY DEF ReadCb, peer
<1>3. PICK s, k, o : s # <<>> /\ Holds(rbuf, s, k, o) /\ got \o s = Upto(taken)
  BY <1>1 DEF Received
<1>4. rbuf \in Rings /\ rbuf.size = Len(s) /\ s \in Seq(Nat) /\ Len(s) \in Nat
  BY <1>3, HoldsParts, MarksParts
<1>5. got' = Upto(taken') BY <1>2, <1>3, AllRead
<1>6. BufferOK(rbuf')
  <2>1. PICK n \in Nat : n = rbuf.size BY <1>4
  <2>. QED BY <1>1, <1>2, <1>4, <2>1, ReadOK
<1>7. Blank(rbuf')
  <2>1. PICK n \in Nat : n = rbuf.size BY <1>4
  <2>2. PICK x : x = MoveReadPos(rbuf, n) OBVIOUS
  <2>3. n <= Len(s) /\ n = Len(s) BY <1>4, <2>1
  <2>4. x.size = Len(s) - n BY <1>3, <2>2, <2>3, MoveReadHolds
  <2>5. PICK j, u : /\ Holds(x, Rear(s, Len(s) - n), j, u)
                    /\ x.size = 0 => x.w = x.r
    BY <1>3, <2>2, <2>3, MoveReadHolds
  <2>6. Len(s) - n = 0 BY <1>4, <2>3
  <2>7. Rear(s, 0) = <<>>
    <3>1. 0 <= Len(s) BY <1>4
    <3>2. Rear(s, 0) \in Seq(Nat) /\ Len(Rear(s, 0)) = 0 BY <1>4, <3>1, RearIs
    <3>. QED BY <3>2
  <2>8. Holds(x, <<>>, j, u) /\ x.w = x.r BY <2>4, <2>5, <2>6, <2>7
  <2>. QED BY <1>2, <2>1, <2>2, <2>8, NothingLeft
<1>8. Streams'
  <2>1. taken' \in Nat BY <1>1, <1>2, TypeParts
  <2>2. Upto(taken') \in Seq(Nat) BY <2>1 DEF Upto
  <2>. QED BY <1>1, <1>2, <1>5, <2>2 DEF Streams
<1>9. TypeOK' BY <1>1, <1>2, TypeParts DEF TypeOK, Pcs
<1>10. Received' BY <1>2, <1>5, <1>7 DEF Received
<1>11. SpaceReady' BY <1>2 DEF SpaceReady
<1>12. Unsent' BY <1>1, <1>2 DEF Unsent
<1>13. BufferOK(wbuf') BY <1>1, <1>2
<1>. QED BY <1>6, <1>8, <1>9, <1>10, <1>11, <1>12, <1>13 DEF CInv

\* A buffer with bytes has nodes.
LEMMA BytesRing ==
    ASSUME NEW b, BufferOK(b), b.size > 0
    PROVE  b \in Rings
<1>1. b \in Buffers BY DEF BufferOK
<1>2. CASE b.nodes = <<>>
  <2>1. Used(b) = {} BY <1>2 DEF Used
  <2>2. b.size = Cardinality({}) BY <2>1 DEF BufferOK
  <2>. QED BY <2>2, FS_EmptySet
<1>. QED BY <1>1, <1>2 DEF Rings

\* What writev took of n bytes.
Taken(b, n, part) == n <= Len(ReadAreas(b)) /\ part = SubSeq(ReadAreas(b), 1, n)

\* What writev took is off the queue, from its front.
LEMMA SentHolds ==
    ASSUME NEW b \in Rings, NEW s \in Seq(Nat), Queue(b, s), b.size > 0,
           NEW n \in Nat, NEW x, x = MoveReadPos(b, n),
           NEW part, Taken(b, n, part)
    PROVE  \E y \in Seq(Nat) : Queue(x, y) /\ s = part \o y
<1>1. s # <<>>
  <2>1. b.size \in Nat BY RingParts
  <2>. QED BY <2>1 DEF Queue, Blank
<1>2. PICK k, o : Holds(b, s, k, o) /\ Ends(b, k) BY <1>1 DEF Queue
<1>3. PICK m \in 0 .. Len(s) : ReadAreas(b) = SubSeq(s, 1, m) BY <1>2, AllRead
<1>4. PICK out : out = ReadAreas(b) OBVIOUS
<1>5. /\ out \in Seq(Nat) /\ Len(out) = m
      /\ \A i \in 1 .. m : out[i] = s[i]
  BY <1>3, <1>4
<1>6. n <= m /\ n <= Len(s) BY <1>4, <1>5 DEF Taken
<1>7. SubSeq(out, 1, n) = SubSeq(s, 1, n) /\ SubSeq(s, 1, n) \in Seq(Nat)
  <2>1. PICK a, z : a = SubSeq(out, 1, n) /\ z = SubSeq(s, 1, n) OBVIOUS
  <2>2. a \in Seq(Nat) /\ Len(a) = n /\ \A i \in 1 .. n : a[i] = out[i]
    BY <1>5, <1>6, <2>1
  <2>3. z \in Seq(Nat) /\ Len(z) = n /\ \A i \in 1 .. n : z[i] = s[i]
    BY <1>6, <2>1
  <2>4. \A i \in 1 .. n : a[i] = z[i]
    <3>1. m \in Nat OBVIOUS
    <3>2. \A i \in 1 .. n : i \in 1 .. m BY <1>6, <3>1
    <3>. QED BY <1>5, <2>2, <2>3, <3>2
  <2>. QED BY <2>1, <2>2, <2>3, <2>4, SameSeq
<1>8. PICK f : f = Len(s) - n OBVIOUS
<1>9. f \in Nat /\ f <= Len(s) /\ Len(s) - f = n BY <1>6, <1>8
<1>10. SubSeq(s, 1, n) \o Rear(s, f) = s
  <2>1. SubSeq(s, 1, Len(s) - f) \o Rear(s, f) = s BY <1>9, FrontRear
  <2>. QED BY <1>9, <2>1
<1>11. Rear(s, f) \in Seq(Nat) /\ Len(Rear(s, f)) = f BY <1>9, RearIs
<1>12. PICK j, u : /\ Holds(x, Rear(s, f), j, u) /\ Ends(x, j)
                   /\ x.size = 0 => x.w = x.r
  <2>1. \E j, u : /\ Holds(x, Rear(s, Len(s) - n), j, u)
                  /\ Ends(b, k) => Ends(x, j)
                  /\ x.size = 0 => x.w = x.r
    BY <1>1, <1>2, <1>6, MoveReadHolds
  <2>. QED BY <1>2, <1>8, <2>1
<1>13. x.size = f BY <1>1, <1>2, <1>6, <1>8, MoveReadHolds
<1>14. Queue(x, Rear(s, f))
  <2>1. CASE Rear(s, f) = <<>>
    <3>1. f = 0 BY <1>11, <2>1
    <3>2. Holds(x, <<>>, j, u) /\ x.w = x.r BY <1>12, <1>13, <2>1, <3>1
    <3>3. Blank(x) BY <3>2, NothingLeft
    <3>. QED BY <2>1, <3>3 DEF Queue
  <2>2. CASE Rear(s, f) # <<>> BY <1>12, <2>2 DEF Queue
  <2>. QED BY <2>1, <2>2
<1>. QED BY <1>4, <1>7, <1>10, <1>11, <1>14 DEF Taken

\* writev takes bytes off the front of the queue.
LEMMA HandleWriteStep ==
    ASSUME CInv, HandleWrite
    PROVE  CInv'
<1>1. /\ TypeOK /\ Streams /\ Received /\ Unsent /\ BufferOK(rbuf) /\ BufferOK(wbuf)
      /\ wbuf.size > 0 /\ pc \in {"write", "handle"}
  BY DEF CInv, HandleWrite, HandleWriteDue
<1>2. PICK out, n : out = ReadAreas(wbuf) /\ n = Lesser(room, Len(out)) OBVIOUS
<1>3. /\ app' = app /\ pc' = "wait" /\ attached' = attached
      /\ eof' = eof /\ curEv' = {} /\ unread' = 0
      /\ room' = room - n /\ rbuf' = rbuf /\ wbuf' = MoveReadPos(wbuf, n)
      /\ taken' = taken /\ got' = got /\ written' = written
      /\ sent' = sent \o SubSeq(out, 1, n)
      /\ spoilt' = spoilt /\ arrived' = arrived
      /\ Modify(IF wbuf'.size = 0 THEN mask \ {"W"} ELSE mask \cup {"W"},
                taken, room - n)
  BY <1>2 DEF HandleWrite, Handled, peer
<1>4. wbuf \in Rings BY <1>1, BytesRing
<1>5. out \in Seq(Nat)
  <2>1. PICK m \in Nat : m = wbuf.size BY <1>4, RingParts
  <2>2. Peek(wbuf, m, MaxIov) \in Seq(Nat) BY <1>4, Sizes, PeekType
  <2>. QED BY <1>2, <2>1, <2>2 DEF ReadAreas
<1>6. n \in Nat /\ n <= room /\ n <= Len(out) /\ room' \in Nat
  <2>1. room \in Nat /\ Len(out) \in Nat BY <1>1, <1>5, TypeParts
  <2>2. n \in Nat /\ n <= room /\ n <= Len(out) BY <1>2, <2>1, LesserOf
  <2>. QED BY <1>3, <2>1, <2>2
<1>7. BufferOK(wbuf') BY <1>1, <1>3, <1>4, <1>6, ReadOK
<1>8. mask' \subseteq {"R", "W"} /\ pending' \in BOOLEAN
  <2>1. mask \subseteq {"R", "W"} BY <1>1, TypeParts
  <2>2. PICK m, rm : /\ m = IF wbuf'.size = 0 THEN mask \ {"W"} ELSE mask \cup {"W"}
                     /\ rm = room - n
    OBVIOUS
  <2>3. m \subseteq {"R", "W"} /\ Modify(m, taken, rm) BY <1>3, <2>1, <2>2
  <2>. QED BY <1>1, <2>3, ModifyType
<1>9. PICK part : part = SubSeq(out, 1, n) OBVIOUS
<1>10. part \in Seq(Nat) BY <1>5, <1>6, <1>9
<1>11. sent \in Seq(Nat) /\ sent' \in Seq(Nat) /\ sent' = sent \o part
  BY <1>1, <1>3, <1>9, <1>10 DEF Streams
<1>12. ASSUME ~spoilt'
       PROVE  \E y \in Seq(Nat) : Queue(wbuf', y) /\ sent' \o y = written'
  <2>1. PICK s \in Seq(Nat) : Queue(wbuf, s) /\ sent \o s = written
    BY <1>1, <1>3, <1>12 DEF Unsent
  <2>2. PICK y \in Seq(Nat) : Queue(wbuf', y) /\ part \o y = s
    <3>1. n <= Len(ReadAreas(wbuf)) /\ wbuf' = MoveReadPos(wbuf, n) BY <1>2, <1>3, <1>6
    <3>2. PICK h \in Nat : h = n BY <1>6
    <3>3. PICK b, x : b = wbuf /\ x = MoveReadPos(b, h) OBVIOUS
    <3>4. b \in Rings /\ Queue(b, s) /\ b.size > 0 /\ Taken(b, h, part)
      BY <1>1, <1>2, <1>4, <1>9, <2>1, <3>1, <3>2, <3>3 DEF Taken
    <3>5. x = MoveReadPos(b, h) BY <3>3
    <3>6. \E y \in Seq(Nat) : Queue(x, y) /\ s = part \o y
      BY <3>4, <3>5, SentHolds
    <3>. QED BY <3>1, <3>2, <3>3, <3>6
  <2>3. (sent \o part) \o y = sent \o (part \o y)
    BY <1>10, <1>11, ConcatAssociative, SMTT(60)
  <2>. QED BY <1>3, <1>11, <2>1, <2>2, <2>3
<1>13. Unsent' BY <1>12 DEF Unsent
<1>14. TypeOK' BY <1>1, <1>3, <1>6, <1>8, TypeParts DEF TypeOK, Pcs
<1>15. Streams' BY <1>1, <1>3, <1>11 DEF Streams
<1>16. Received' BY <1>1, <1>3 DEF Received
<1>17. SpaceReady' BY <1>3 DEF SpaceReady
<1>18. BufferOK(rbuf') BY <1>1, <1>3
<1>. QED BY <1>7, <1>13, <1>14, <1>15, <1>16, <1>17, <1>18 DEF CInv

\* After EAGAIN the unsent bytes are gone, and spoilt says so.
LEMMA HandleWriteAgainStep ==
    ASSUME CInv, HandleWriteAgain
    PROVE  CInv'
<1>1. /\ TypeOK /\ Streams /\ Received /\ Unsent /\ BufferOK(rbuf) /\ BufferOK(wbuf)
      /\ wbuf.size > 0 /\ pc \in {"write", "handle"}
  BY DEF CInv, HandleWriteAgain, HandleWriteDue
<1>2. /\ app' = app /\ pc' = "wait" /\ attached' = attached
      /\ eof' = eof /\ curEv' = {} /\ unread' = 0
      /\ room' = room /\ rbuf' = rbuf /\ wbuf' = MoveReadPos(wbuf, wbuf.size)
      /\ taken' = taken /\ got' = got /\ written' = written /\ sent' = sent
      /\ spoilt' = TRUE /\ arrived' = arrived /\ Modify(mask \ {"W"}, taken, room)
  BY DEF HandleWriteAgain, Handled, peer
<1>3. BufferOK(wbuf')
  <2>1. wbuf \in Rings BY <1>1, BytesRing
  <2>2. PICK n \in Nat : n = wbuf.size BY <2>1, RingParts
  <2>. QED BY <1>1, <1>2, <2>1, <2>2, ReadOK
<1>4. mask' \subseteq {"R", "W"} /\ pending' \in BOOLEAN
  <2>1. mask \subseteq {"R", "W"} BY <1>1, TypeParts
  <2>2. PICK m : m = mask \ {"W"} OBVIOUS
  <2>3. m \subseteq {"R", "W"} BY <2>1, <2>2
  <2>. QED BY <1>1, <1>2, <2>2, <2>3, ModifyType
<1>5. TypeOK' BY <1>1, <1>2, <1>4, TypeParts DEF TypeOK, Pcs
<1>6. Streams' BY <1>1, <1>2 DEF Streams
<1>7. Received' BY <1>1, <1>2 DEF Received
<1>8. SpaceReady' BY <1>2 DEF SpaceReady
<1>9. Unsent' BY <1>2 DEF Unsent
<1>10. BufferOK(rbuf') BY <1>1, <1>2
<1>. QED BY <1>3, <1>5, <1>6, <1>7, <1>8, <1>9, <1>10 DEF CInv

\* Nothing happens.
LEMMA StutterStep ==
    ASSUME CInv, UNCHANGED vars
    PROVE  CInv'
<1>1. TypeOK BY DEF CInv
<1>2. /\ app' = app /\ pc' = pc /\ attached' = attached /\ eof' = eof
      /\ mask' = mask /\ curEv' = curEv /\ unread' = unread /\ room' = room
      /\ rbuf' = rbuf /\ wbuf' = wbuf /\ taken' = taken /\ got' = got
      /\ written' = written /\ sent' = sent /\ spoilt' = spoilt
      /\ arrived' = arrived /\ pending' = pending
  BY DEF vars
<1>3. arrived <= arrived' BY <1>1, <1>2, TypeParts
<1>4. TypeOK' BY <1>1, <1>2, TypeParts DEF TypeOK
<1>. QED BY <1>2, <1>3, <1>4, Quiet

\* Every step keeps the invariant.
LEMMA NextCInv == CInv /\ [Next]_vars => CInv'
<1>1. SUFFICES ASSUME CInv, [Next]_vars PROVE CInv' OBVIOUS
<1>2. CASE \E n \in FirstWrites : Connect(n) BY <1>1, <1>2, ConnectStep
<1>3. CASE ConnectFails BY <1>1, <1>3, ConnectFailsStep
<1>4. CASE Report BY <1>1, <1>4, ReportStep
<1>5. CASE AskUnread BY <1>1, <1>5, AskUnreadStep
<1>6. CASE Readv BY <1>1, <1>6, ReadvStep
<1>7. CASE ReadvEof BY <1>1, <1>7, ReadvEofStep
<1>8. CASE ReadCb BY <1>1, <1>8, ReadCbStep
<1>9. CASE Reply BY <1>1, <1>9, ReplyStep
<1>10. CASE NothingToWrite BY <1>1, <1>10, NothingToWriteStep
<1>11. CASE HandleWrite BY <1>1, <1>11, HandleWriteStep
<1>12. CASE HandleWriteAgain BY <1>1, <1>12, HandleWriteAgainStep
<1>13. CASE \E n \in 1 .. MaxBytes : Arrive(n) BY <1>1, <1>13, ArriveStep
<1>14. CASE PeerCloses BY <1>1, <1>14, PeerClosesStep
<1>15. CASE \E n \in 1 .. Space : PeerReads(n) BY <1>1, <1>15, PeerReadsStep
<1>16. CASE UNCHANGED vars BY <1>1, <1>16, StutterStep
<1>. QED
  BY <1>1, <1>2, <1>3, <1>4, <1>5, <1>6, <1>7, <1>8, <1>9, <1>10, <1>11, <1>12,
     <1>13, <1>14, <1>15, <1>16
  DEF Next, Loop, Peer

\* The invariant of the connecter.
LEMMA Invariant == Spec => []CInv
<1>. QED BY InitCInv, NextCInv, PTL DEF Spec

----------------------------------------------------------------------------
(* The theorems.                                                           *)

\* The state of the connecter has its type: Connecter, Event.cpp.
THEOREM TypeCorrect == Spec => []TypeOK
<1>1. CInv => TypeOK BY DEF CInv
<1>. QED BY <1>1, Invariant, PTL

\* Every byte of the peer reaches the read callback once and in order, and as
\* long as no write went astray the bytes given to the socket and the buffered
\* ones are the bytes that were written: for every size of the nodes, number of
\* areas and number of bytes (Buffer.cpp, HandleRead and HandleWrite).
THEOREM BytesStayInOrder == Spec => []BytesInOrder
<1>. QED BY Invariant, InOrder, PTL
=============================================================================
