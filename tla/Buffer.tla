------------------------------- MODULE Buffer -------------------------------
(***************************************************************************)
(* src/common/net/Buffer: the ring of nodes a Connecter keeps unread and   *)
(* unsent bytes in.  A buffer is a record: the nodes of m_buffList, the    *)
(* positions w and r of m_wNodeIt and m_rNodeIt (0 for end()), and size,   *)
(* m_useSize.  A node holds Cap cells, the offset rc of its readCursor and *)
(* use, its useSize.  Bytes are numbers; 0 is what nobody wrote.           *)
(***************************************************************************)
EXTENDS Integers, Sequences, SequencesExt

CONSTANTS
    Cap,     \* BUFFER_INIT_SIZE
    MaxIov   \* MAX_IOVEC

ASSUME BufferAssumption == {Cap, MaxIov} \subseteq Nat \ {0}

EmptyNode   == [cell |-> [i \in 1..Cap |-> 0], rc |-> 0, use |-> 0]
EmptyBuffer == [nodes |-> <<>>, w |-> 0, r |-> 0, size |-> 0]

Nodes == [cell : [1..Cap -> Nat], rc : Nat, use : 0..Cap]

\* Both iterators are end() or both point into m_buffList.
Buffers ==
    {b \in [nodes : Seq(Nodes), w : Nat, r : Nat, size : Nat] :
        IF b.nodes = <<>> THEN b.w = 0 /\ b.r = 0
        ELSE {b.w, b.r} \subseteq DOMAIN b.nodes}
Rings == {b \in Buffers : b.nodes # <<>>}

Lesser(m, n) == IF m < n THEN m ELSE n

Left(b)      == Len(b.nodes) * Cap - b.size
Room(nd)     == Cap - nd.use
After(b, it) == IF it = Len(b.nodes) THEN 1 ELSE it + 1

\* GetNextRNodeIt: an empty buffer is read where it is written.
NextR(b) == IF b.size = 0 THEN b.w ELSE After(b, b.r)

----------------------------------------------------------------------------
(* Growing.                                                                *)

\* Cells of the old node that have wrapped round to its start move to the new;
\* a cursor beyond its end makes the unsigned realUseSize huge: none move.
Wrapped(nd) == IF nd.rc <= Cap /\ Cap - nd.rc < nd.use THEN nd.use - (Cap - nd.rc)
               ELSE 0

\* The new node that takes the first n cells of nd.
Moved(nd, n) ==
    [EmptyNode EXCEPT !.cell = [i \in 1..Cap |-> IF i <= n THEN nd.cell[i] ELSE 0],
                      !.use = n]

\* The new node before the one that is written.
Split(b) ==
    LET n == Wrapped(b.nodes[b.w])
    IN  InsertAt([b.nodes EXCEPT ![b.w].use = @ - n], b.w, Moved(b.nodes[b.w], n))

\* The new node stands before a node that is both read and written, else
\* behind the one that is written.
Expand(b) ==
    IF b.nodes = <<>> THEN [b EXCEPT !.nodes = <<EmptyNode>>, !.w = 1, !.r = 1]
    ELSE IF b.w = b.r /\ b.nodes[b.w].use > 0
    THEN [b EXCEPT !.nodes = Split(b), !.r = @ + 1]
    ELSE [b EXCEPT !.nodes = InsertAt(@, b.w + 1, EmptyNode),
                   !.r = IF @ > b.w THEN @ + 1 ELSE @]

\* The loop that makes space for n bytes.
Reserve(b, n) ==
    LET Grow[c \in Buffers] == IF Left(c) < n THEN Grow[Expand(c)] ELSE c
    IN  Grow[b]

----------------------------------------------------------------------------
(* Writing.  A loop ends when m_useSize is what it will be, goal.          *)

\* Mutant: the bytes go behind the cursor of the reader.
Store_AtCursor(nd, bytes) ==
    [nd EXCEPT !.cell = [i \in 1..Cap |->
                  IF i - nd.rc \in DOMAIN bytes THEN bytes[i - nd.rc] ELSE @[i]],
               !.use = @ + Len(bytes)]

\* Bytes are stored useSize cells behind the start of the node.
Store(nd, bytes) ==
    [nd EXCEPT !.cell = [i \in 1..Cap |->
                  IF i - nd.use \in DOMAIN bytes THEN bytes[i - nd.use] ELSE @[i]],
               !.use = @ + Len(bytes)]

\* The node a write starts in.
Target(b) == IF Room(b.nodes[b.w]) = 0 THEN After(b, b.w) ELSE b.w

\* What b can be while bytes are written into it.
Growing(b) == {c \in Rings : c.size >= b.size}

\* A turn of WriteBuffer: each copies from the start of bytes.
FillTurn(c, bytes, goal) ==
    LET n == Lesser(goal - c.size, Room(c.nodes[Target(c)]))
    IN  [c EXCEPT !.w = Target(c),
                  !.nodes[Target(c)] = Store(@, SubSeq(bytes, 1, n)),
                  !.size = @ + n]

WriteBuffer(b, bytes) ==
    LET goal == b.size + Len(bytes)
        Fill[c \in Growing(b)] ==
            IF c.size < goal THEN Fill[FillTurn(c, bytes, goal)] ELSE c
    IN  Fill[Reserve(b, Len(bytes))]

\* An area of GetWriteBuffer: s.i have been given out, s.left bytes are to go.
AreaTurn(b, s) ==
    [it   |-> After(b, s.it),
     i    |-> s.i + 1,
     left |-> s.left - Lesser(s.left, Room(b.nodes[s.it]))]

\* How many of n bytes the areas of GetWriteBuffer take; the buffer has been
\* given space for them.
GetWriteBuffer(b, n) ==
    LET most == Lesser(MaxIov * Cap, n)
        Take[s \in [it : DOMAIN b.nodes, i : Nat, left : Nat]] ==
            IF s.i < MaxIov /\ s.left > 0 THEN Take[AreaTurn(b, s)]
            ELSE most - s.left
    IN  Take[[it |-> b.w, i |-> 0, left |-> most]]

\* A turn of MoveWritePos, which leaves each node it used.
AdvanceTurn(c, bytes, goal) ==
    LET done == Len(bytes) - (goal - c.size)
        n    == Lesser(goal - c.size, Room(c.nodes[c.w]))
    IN  [c EXCEPT !.nodes[c.w] = Store(@, SubSeq(bytes, done + 1, done + n)),
                  !.w = After(c, c.w),
                  !.size = @ + n]

\* readv into the areas, then MoveWritePos.
MoveWritePos(b, bytes) ==
    LET goal == b.size + Len(bytes)
        Advance[c \in Growing(b)] ==
            IF c.size < goal THEN Advance[AdvanceTurn(c, bytes, goal)] ELSE c
    IN  Advance[b]

----------------------------------------------------------------------------
(* Reading.                                                                *)

Unread(nd, n) == [i \in 1..n |-> IF nd.rc + i <= Cap THEN nd.cell[nd.rc + i] ELSE 0]

\* n bytes of a node are read; an emptied node is rewound.
Consume(nd, n) ==
    [nd EXCEPT !.use = @ - n, !.rc = IF nd.use = n THEN 0 ELSE @ + n]

\* A turn of MoveReadPos, also the moves of ReadBuffer.
ReadTurn(c, goal) ==
    LET n == Lesser(c.size - goal, c.nodes[c.r].use)
        d == [c EXCEPT !.nodes[c.r] = Consume(@, n), !.size = @ - n]
    IN  IF c.nodes[c.r].use = n THEN [d EXCEPT !.r = NextR(d)] ELSE d

MoveReadPos(b, n) ==
    LET goal == b.size - Lesser(n, b.size)
        Drop[c \in Rings] == IF c.size > goal THEN Drop[ReadTurn(c, goal)] ELSE c
    IN  Drop[b]

\* An area to read from: s.out has been given out of the first s.i nodes.
PeekTurn(b, n, s) ==
    [it  |-> After(b, s.it),
     i   |-> s.i + 1,
     out |-> s.out \o Unread(b.nodes[s.it],
                             Lesser(n - Len(s.out), b.nodes[s.it].use))]

\* The next n bytes in reading order, from at most k nodes.
Peek(b, n, k) ==
    LET Copy[s \in [it : DOMAIN b.nodes, i : Nat, out : Seq(Nat)]] ==
            IF s.i < k /\ Len(s.out) < n THEN Copy[PeekTurn(b, n, s)] ELSE s.out
    IN  Copy[[it |-> b.r, i |-> 0, out |-> <<>>]]

\* ReadBuffer(iov): at most MaxIov areas.
ReadAreas(b) == Peek(b, b.size, MaxIov)

\* ReadBuffer(buffer, n): the bytes; MoveReadPos has the buffer afterwards.
ReadBuffer(b, n) ==
    IF b.nodes = <<>> THEN <<>> ELSE Peek(b, Lesser(n, b.size), Len(b.nodes))
=============================================================================
