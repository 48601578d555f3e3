----------------------------- MODULE Iocp_proofs -----------------------------
(***************************************************************************)
(* Proofs about Iocp and IocpAccept, as MCIocp composes them: every        *)
(* operation that is out with Windows is accounted for, by the flags of a  *)
(* connecter and by the count of a listener, for every number of slots,    *)
(* connections and bytes.                                                  *)
(***************************************************************************)
EXTENDS MCIocp, FiniteSetTheorems, TLAPS

----------------------------------------------------------------------------
(* Queues without repetition.                                              *)

Distinct(q) == \A i, j \in DOMAIN q : q[i] = q[j] => i = j
In(q, t) == \E i \in DOMAIN q : q[i] = t

\* A queue without repetition that takes something new at its back.
LEMMA AppendPlaces ==
    ASSUME NEW S, NEW q \in Seq(S), NEW u \in S, Distinct(q), ~In(q, u)
    PROVE  /\ Distinct(Append(q, u))
           /\ \A t : In(Append(q, u), t) <=> t = u \/ In(q, t)
<1>1. /\ Len(q) \in Nat /\ DOMAIN q = 1 .. Len(q)
      /\ DOMAIN Append(q, u) = 1 .. (Len(q) + 1)
      /\ Append(q, u)[Len(q) + 1] = u
      /\ \A i \in 1 .. Len(q) : Append(q, u)[i] = q[i]
  OBVIOUS
<1>. QED BY <1>1 DEF Distinct, In

\* A queue without repetition that loses its front.
LEMMA TailPlaces ==
    ASSUME NEW S, NEW q \in Seq(S), q # <<>>, Distinct(q)
    PROVE  /\ Head(q) \in S /\ In(q, Head(q))
           /\ Distinct(Tail(q))
           /\ \A t : In(Tail(q), t) <=> t # Head(q) /\ In(q, t)
<1>1. /\ Len(q) \in Nat \ {0} /\ DOMAIN q = 1 .. Len(q)
      /\ Head(q) = q[1] /\ q[1] \in S
      /\ DOMAIN Tail(q) = 1 .. (Len(q) - 1)
      /\ \A i \in 1 .. (Len(q) - 1) : Tail(q)[i] = q[i + 1]
  OBVIOUS
<1>2. Distinct(Tail(q))
  <2>. SUFFICES ASSUME NEW i \in DOMAIN Tail(q), NEW j \in DOMAIN Tail(q),
                       Tail(q)[i] = Tail(q)[j]
                PROVE  i = j
    BY DEF Distinct
  <2>1. i + 1 = j + 1 BY <1>1 DEF Distinct
  <2>2. i \in Nat /\ j \in Nat BY <1>1
  <2>. QED BY <2>1, <2>2
<1>3. ASSUME NEW t, In(Tail(q), t) PROVE t # Head(q) /\ In(q, t)
  <2>1. PICK i \in 1 .. (Len(q) - 1) : q[i + 1] = t BY <1>1, <1>3 DEF In
  <2>2. i + 1 \in DOMAIN q /\ i + 1 # 1 /\ 1 \in DOMAIN q BY <1>1, <2>1
  <2>. QED BY <1>1, <2>1, <2>2 DEF In, Distinct
<1>4. ASSUME NEW t, t # Head(q), In(q, t) PROVE In(Tail(q), t)
  <2>1. PICK i \in 1 .. Len(q) : q[i] = t BY <1>1, <1>4 DEF In
  <2>2. i - 1 \in 1 .. (Len(q) - 1) /\ (i - 1) + 1 = i BY <1>1, <1>4, <2>1
  <2>. QED BY <1>1, <2>1, <2>2 DEF In
<1>5. In(q, Head(q)) BY <1>1 DEF In
<1>. QED BY <1>1, <1>2, <1>3, <1>4, <1>5

----------------------------------------------------------------------------
(* The members of Connecter.                                               *)

Connecters ==
    [posted     : [Dirs -> BOOLEAN],
     op         : [Dirs -> [st : {"none", "kernel", "port"}, n : Nat, ok : BOOLEAN]],
     overlapped : [Dirs -> {"owned", "doomed", "freed"}],
     attached   : BOOLEAN,
     connected  : BOOLEAN,
     entries    : Nat,
     curEv      : Seq({"read", "write", "cancel"}),
     head       : Nat,
     tail       : Nat,
     gone       : BOOLEAN]

\* What a send took is in the write buffer; an entry has its kind in m_curEv,
\* where EV_CANCEL comes last and only when the centre has let go.
Sound(x) ==
    /\ x \in Connecters
    /\ x.head + x.op["write"].n <= x.tail
    /\ x.entries <= Len(x.curEv)
    /\ \A i \in DOMAIN x.curEv :
          x.curEv[i] = "cancel" => i = Len(x.curEv) /\ ~x.attached

Honest(x, d) == x.posted[d] <=> x.op[d].st # "none"

\* The operation of direction d and its flag are left alone.
Kept(x, y, d) == y.op[d] = x.op[d] /\ y.posted[d] = x.posted[d]

Whole(x, y) == y.overlapped = x.overlapped /\ y.gone = x.gone

LEMMA PushSound ==
    ASSUME NEW x, Sound(x), NEW ev \in {"read", "write"}
    PROVE  /\ Sound(PushEvent(x, ev)) /\ Whole(x, PushEvent(x, ev))
           /\ \A d \in Dirs : Kept(x, PushEvent(x, ev), d)
<1>1. CASE ~x.attached BY <1>1 DEF PushEvent, Whole, Kept
<1>2. CASE x.attached
  <2>1. PICK y : y = [x EXCEPT !.entries = @ + 1, !.curEv = Append(@, ev)] OBVIOUS
  <2>2. PushEvent(x, ev) = y BY <1>2, <2>1 DEF PushEvent
  <2>3. y \in Connecters
    <3>1. /\ Append(x.curEv, ev) \in Seq({"read", "write", "cancel"})
          /\ x.entries + 1 \in Nat
      BY DEF Sound, Connecters
    <3>. QED BY <2>1, <3>1 DEF Sound, Connecters
  <2>4. /\ y.entries = x.entries + 1 /\ y.curEv = Append(x.curEv, ev)
        /\ y.head = x.head /\ y.tail = x.tail /\ y.op = x.op /\ y.posted = x.posted
        /\ y.attached = x.attached /\ Whole(x, y)
    BY <2>1 DEF Sound, Connecters, Whole
  <2>5. /\ x.curEv \in Seq({"read", "write", "cancel"}) /\ x.entries \in Nat
        /\ ev \in {"read", "write", "cancel"}
    BY DEF Sound, Connecters
  <2>6. /\ Len(y.curEv) = Len(x.curEv) + 1 /\ Len(x.curEv) \in Nat
        /\ DOMAIN y.curEv = 1 .. (Len(x.curEv) + 1)
        /\ DOMAIN x.curEv = 1 .. Len(x.curEv)
        /\ y.curEv[Len(x.curEv) + 1] = ev
        /\ \A i \in 1 .. Len(x.curEv) : y.curEv[i] = x.curEv[i]
    BY <2>4, <2>5
  <2>7. \A i \in DOMAIN y.curEv : y.curEv[i] # "cancel"
    BY <1>2, <2>6 DEF Sound
  <2>8. y.entries <= Len(y.curEv) BY <2>4, <2>5, <2>6 DEF Sound
  <2>. QED BY <2>2, <2>3, <2>4, <2>7, <2>8 DEF Sound, Kept
<1>. QED BY <1>1, <1>2 DEF Sound, Connecters

LEMMA CancelSound ==
    ASSUME NEW x, Sound(x)
    PROVE  /\ Sound(CancelEvent(x)) /\ Whole(x, CancelEvent(x))
           /\ \A d \in Dirs : Kept(x, CancelEvent(x), d)
           /\ x.attached \/ CancelEvent(x).entries = x.entries
           /\ ~CancelEvent(x).attached
<1>1. CASE ~x.attached
  <2>1. CancelEvent(x) = [x EXCEPT !.attached = FALSE]
    BY <1>1 DEF CancelEvent, PushEvent
  <2>2. CancelEvent(x) = x BY <1>1, <2>1 DEF Sound, Connecters
  <2>. QED BY <1>1, <2>2 DEF Whole, Kept
<1>2. CASE x.attached
  <2>1. PICK y : y = [x EXCEPT !.entries = @ + 1, !.curEv = Append(@, "cancel"),
                               !.attached = FALSE]
    OBVIOUS
  <2>2. CancelEvent(x) = y
    BY <1>2, <2>1 DEF CancelEvent, PushEvent, Sound, Connecters
  <2>3. y \in Connecters
    <3>1. /\ Append(x.curEv, "cancel") \in Seq({"read", "write", "cancel"})
          /\ x.entries + 1 \in Nat
      BY DEF Sound, Connecters
    <3>. QED BY <2>1, <3>1 DEF Sound, Connecters
  <2>4. /\ y.entries = x.entries + 1 /\ y.curEv = Append(x.curEv, "cancel")
        /\ y.head = x.head /\ y.tail = x.tail /\ y.op = x.op /\ y.posted = x.posted
        /\ ~y.attached /\ Whole(x, y)
    BY <2>1 DEF Sound, Connecters, Whole
  <2>5. x.curEv \in Seq({"read", "write", "cancel"}) /\ x.entries \in Nat
    BY DEF Sound, Connecters
  <2>6. /\ Len(y.curEv) = Len(x.curEv) + 1 /\ Len(x.curEv) \in Nat
        /\ DOMAIN y.curEv = 1 .. (Len(x.curEv) + 1)
        /\ DOMAIN x.curEv = 1 .. Len(x.curEv)
        /\ \A i \in 1 .. Len(x.curEv) : y.curEv[i] = x.curEv[i]
    BY <2>4, <2>5
  <2>7. \A i \in DOMAIN y.curEv : y.curEv[i] = "cancel" => i = Len(y.curEv)
    BY <1>2, <2>6 DEF Sound
  <2>8. y.entries <= Len(y.curEv) BY <2>4, <2>5, <2>6 DEF Sound
  <2>. QED BY <1>2, <2>2, <2>3, <2>4, <2>7, <2>8 DEF Sound, Kept
<1>. QED BY <1>1, <1>2 DEF Sound, Connecters

LEMMA PostSound ==
    ASSUME NEW x, Sound(x), NEW d \in Dirs, NEW n \in Nat,
           d = "write" => x.head + n <= x.tail
    PROVE  /\ Sound(Post(x, d, n)) /\ Whole(x, Post(x, d, n))
           /\ \A e \in Dirs \ {d} : Kept(x, Post(x, d, n), e)
           /\ Post(x, d, n).posted[d] /\ Post(x, d, n).op[d].st = "kernel"
           /\ Post(x, d, n).attached = x.attached
           /\ Post(x, d, n).entries = x.entries
<1>1. PICK o : o = [st |-> "kernel", n |-> n, ok |-> TRUE] OBVIOUS
<1>2. PICK y : y = [x EXCEPT !.op = [x.op EXCEPT ![d] = o],
                             !.posted = [x.posted EXCEPT ![d] = TRUE]]
  OBVIOUS
<1>3. Post(x, d, n) = y
  BY <1>1, <1>2 DEF Post, Sound, Connecters
<1>4. y \in Connecters BY <1>1, <1>2 DEF Sound, Connecters
<1>5. /\ y.op = [x.op EXCEPT ![d] = o] /\ y.posted = [x.posted EXCEPT ![d] = TRUE]
      /\ y.head = x.head /\ y.tail = x.tail /\ y.curEv = x.curEv
      /\ y.entries = x.entries /\ y.attached = x.attached /\ Whole(x, y)
  BY <1>2 DEF Sound, Connecters, Whole
<1>6. x.op \in [Dirs -> [st : {"none", "kernel", "port"}, n : Nat, ok : BOOLEAN]]
      /\ x.posted \in [Dirs -> BOOLEAN]
  BY DEF Sound, Connecters
<1>7. \A e \in Dirs \ {d} : y.op[e] = x.op[e] /\ y.posted[e] = x.posted[e]
  BY <1>5, <1>6
<1>8. y.op[d] = o /\ y.posted[d] BY <1>5, <1>6
<1>9. y.head + y.op["write"].n <= y.tail
  <2>1. CASE d = "write" BY <1>1, <1>5, <1>8, <2>1
  <2>2. CASE d # "write" BY <1>5, <1>7, <2>2 DEF Sound, Dirs
  <2>. QED BY <2>1, <2>2
<1>. QED BY <1>1, <1>3, <1>4, <1>5, <1>7, <1>8, <1>9 DEF Sound, Kept
\* What a member may do: direction d keeps its flag honest if it was, and
\* the other direction is left alone.
Serves(x, y, d) ==
    /\ Sound(y) /\ Whole(x, y)
    /\ Honest(x, d) => Honest(y, d)
    /\ \A e \in Dirs \ {d} : Kept(x, y, e)

LEMMA CancelServes ==
    ASSUME NEW x, Sound(x), NEW d \in Dirs
    PROVE  Serves(x, CancelEvent(x), d)
BY CancelSound DEF Serves, Kept, Honest

LEMMA PostServes ==
    ASSUME NEW x, Sound(x), NEW d \in Dirs, NEW n \in Nat,
           d = "write" => x.head + n <= x.tail
    PROVE  Serves(x, Post(x, d, n), d)
BY PostSound DEF Serves, Honest

LEMMA SelfServes ==
    ASSUME NEW x, Sound(x), NEW d \in Dirs
    PROVE  Serves(x, x, d)
BY DEF Serves, Whole, Kept

LEMMA AsynReadServes ==
    ASSUME NEW x, Sound(x), NEW y \in AsynRead(x)
    PROVE  Serves(x, y, "read")
<1>1. "read" \in Dirs BY DEF Dirs
<1>2. y \in {x, Post(x, "read", 0), CancelEvent(x)} BY DEF AsynRead
<1>. QED BY <1>1, <1>2, SelfServes, PostServes, CancelServes

LEMMA SendableBounds ==
    ASSUME NEW x, Sound(x)
    PROVE  Sendable(x) \in Nat /\ x.head + Sendable(x) <= x.tail
<1>1. /\ x.head \in Nat /\ x.tail \in Nat /\ x.op["write"].n \in Nat
      /\ x.head + x.op["write"].n <= x.tail
  BY DEF Sound, Connecters, Dirs
<1>2. MaxSingleWrite \in Nat BY IocpAssumption
<1>. QED BY <1>1, <1>2 DEF Sendable

LEMMA AsynWriteServes ==
    ASSUME NEW x, Sound(x), NEW y \in AsynWrite(x)
    PROVE  Serves(x, y, "write")
<1>1. "write" \in Dirs BY DEF Dirs
<1>2. y \in {x, Post(x, "write", Sendable(x)), CancelEvent(x)} BY DEF AsynWrite
<1>. QED BY <1>1, <1>2, SelfServes, PostServes, CancelServes, SendableBounds

\* More in the write buffer.
LEMMA FillSound ==
    ASSUME NEW x, Sound(x), NEW n \in Nat, NEW y, y = [x EXCEPT !.tail = @ + n]
    PROVE  /\ Sound(y) /\ Whole(x, y) /\ \A d \in Dirs : Kept(x, y, d)
           /\ y.attached = x.attached /\ y.entries = x.entries
<1>1. /\ x.head \in Nat /\ x.tail \in Nat /\ x.op["write"].n \in Nat
      /\ x.head + x.op["write"].n <= x.tail
  BY DEF Sound, Connecters, Dirs
<1>2. y \in Connecters
  <2>1. x.tail + n \in Nat BY <1>1
  <2>. QED BY <2>1 DEF Sound, Connecters
<1>3. /\ y.tail = x.tail + n /\ y.head = x.head /\ y.op = x.op
      /\ y.posted = x.posted /\ y.curEv = x.curEv /\ y.entries = x.entries
      /\ y.attached = x.attached /\ Whole(x, y)
  BY DEF Sound, Connecters, Whole
<1>. QED BY <1>1, <1>2, <1>3 DEF Sound, Kept

LEMMA WriteBufferServes ==
    ASSUME NEW x, Sound(x), NEW n \in Nat, NEW y \in WriteBuffer(x, n)
    PROVE  Serves(x, y, "write")
<1>1. PICK z : z = [x EXCEPT !.tail = @ + n] OBVIOUS
<1>2. Sound(z) /\ Whole(x, z) /\ \A d \in Dirs : Kept(x, z, d)
  BY <1>1, FillSound
<1>3. Serves(z, y, "write")
  <2>1. y \in AsynWrite(z) \/ y = z BY <1>1 DEF WriteBuffer
  <2>2. "write" \in Dirs BY DEF Dirs
  <2>. QED BY <1>2, <2>1, <2>2, AsynWriteServes, SelfServes
<1>. QED BY <1>2, <1>3 DEF Serves, Whole, Kept, Honest, Dirs

\* A completion takes its operation back, and its flag.
LEMMA TakenBack ==
    ASSUME NEW x, Sound(x), NEW d \in Dirs, NEW h \in Nat,
           NEW y,
           \/ /\ d = "write" /\ h <= x.op[d].n
              /\ y = [x EXCEPT !.posted[d] = FALSE, !.op[d] = NoOp, !.head = @ + h]
           \/ /\ d = "read" /\ h = 0
              /\ y = [x EXCEPT !.posted[d] = FALSE, !.op[d] = NoOp]
    PROVE  Serves(x, y, d) /\ Honest(y, d)
<1>1. /\ x.head \in Nat /\ x.tail \in Nat /\ x.op["write"].n \in Nat
      /\ x.head + x.op["write"].n <= x.tail
      /\ x.op \in [Dirs -> [st : {"none", "kernel", "port"}, n : Nat, ok : BOOLEAN]]
      /\ x.posted \in [Dirs -> BOOLEAN]
  BY DEF Sound, Connecters, Dirs
<1>2. \/ y = [x EXCEPT !.posted = [x.posted EXCEPT ![d] = FALSE],
                       !.op = [x.op EXCEPT ![d] = NoOp], !.head = x.head + h]
      \/ /\ y = [x EXCEPT !.posted = [x.posted EXCEPT ![d] = FALSE],
                          !.op = [x.op EXCEPT ![d] = NoOp]]
         /\ h = 0
  BY DEF Sound, Connecters
<1>3. [x.posted EXCEPT ![d] = FALSE] \in [Dirs -> BOOLEAN] BY <1>1
<1>4. [x.op EXCEPT ![d] = NoOp]
          \in [Dirs -> [st : {"none", "kernel", "port"}, n : Nat, ok : BOOLEAN]]
  BY <1>1 DEF NoOp
<1>5. y \in Connecters
  <2>1. x.head + h \in Nat BY <1>1
  <2>. QED BY <1>2, <1>3, <1>4, <2>1 DEF Sound, Connecters
<1>6. /\ y.posted = [x.posted EXCEPT ![d] = FALSE] /\ y.op = [x.op EXCEPT ![d] = NoOp]
      /\ y.head = x.head + h /\ y.tail = x.tail /\ y.curEv = x.curEv
      /\ y.entries = x.entries /\ y.attached = x.attached /\ Whole(x, y)
  <2>. USE DEF Sound, Connecters, Whole
  <2>1. CASE y = [x EXCEPT !.posted = [x.posted EXCEPT ![d] = FALSE],
                           !.op = [x.op EXCEPT ![d] = NoOp], !.head = x.head + h]
    BY <2>1
  <2>2. CASE /\ y = [x EXCEPT !.posted = [x.posted EXCEPT ![d] = FALSE],
                              !.op = [x.op EXCEPT ![d] = NoOp]]
             /\ h = 0
    <3>1. y.head = x.head BY <2>2
    <3>2. x.head = x.head + h BY <1>1, <2>2
    <3>. QED BY <2>2, <3>1, <3>2
  <2>. QED BY <1>2, <2>1, <2>2
<1>7. \A e \in Dirs \ {d} : Kept(x, y, e) BY <1>1, <1>6 DEF Kept
<1>8. y.op[d] = NoOp /\ ~y.posted[d] BY <1>1, <1>6
<1>9. y.head + y.op["write"].n <= y.tail
  <2>1. CASE d = "write" BY <1>1, <1>6, <1>8, <2>1 DEF NoOp
  <2>2. CASE d # "write" BY <1>1, <1>6, <1>7, <2>2 DEF Dirs, Kept
  <2>. QED BY <2>1, <2>2
<1>10. Sound(y) BY <1>5, <1>6, <1>9 DEF Sound
<1>. QED BY <1>6, <1>7, <1>8, <1>10 DEF Serves, Honest, NoOp

\* A completed receive leaves its own flag honest, and that of the sends,
\* which the relay's callback may have posted.
LEMMA ReadCompleteServes ==
    ASSUME NEW x, Sound(x), NEW y \in ReadComplete(x)
    PROVE  /\ Sound(y) /\ Whole(x, y) /\ Honest(y, "read")
           /\ Honest(x, "write") => Honest(y, "write")
           /\ side # "relay" => Kept(x, y, "write")
<1>. USE DEF Dirs
<1>1. PICK z : z = [x EXCEPT !.posted["read"] = FALSE, !.op["read"] = NoOp]
  OBVIOUS
<1>2. Serves(x, z, "read") /\ Honest(z, "read")
  BY <1>1, TakenBack
<1>3. PICK p : p = PushEvent(z, "read") OBVIOUS
<1>4. Sound(p) /\ Whole(z, p) /\ \A d \in Dirs : Kept(z, p, d)
  BY <1>2, <1>3, PushSound DEF Serves
<1>5. x.op["read"].n \in Nat BY DEF Sound, Connecters
<1>6. \/ y = CancelEvent(z)
      \/ y \in {p, z}
      \/ side = "relay" /\ y \in WriteBuffer(p, x.op["read"].n)
  BY <1>1, <1>3 DEF ReadComplete, Deliver, EndOfStream
<1>7. CASE y = CancelEvent(z)
  <2>1. Sound(y) /\ Whole(z, y) /\ \A d \in Dirs : Kept(z, y, d)
    BY <1>2, <1>7, CancelSound DEF Serves
  <2>. QED BY <1>2, <2>1 DEF Serves, Whole, Kept, Honest
<1>8. CASE y \in {p, z}
  BY <1>2, <1>4, <1>8 DEF Serves, Whole, Kept, Honest
<1>9. CASE side = "relay" /\ y \in WriteBuffer(p, x.op["read"].n)
  <2>1. Serves(p, y, "write") BY <1>4, <1>5, <1>9, WriteBufferServes
  <2>2. Sound(y) /\ Whole(x, y)
    BY <1>2, <1>4, <2>1 DEF Serves, Whole
  <2>3. Kept(p, y, "read") BY <2>1 DEF Serves
  <2>4. Honest(y, "read") BY <1>2, <1>4, <2>3 DEF Kept, Honest
  <2>5. Honest(x, "write") => Honest(p, "write")
    BY <1>2, <1>4 DEF Serves, Kept, Honest
  <2>. QED BY <1>9, <2>1, <2>2, <2>4, <2>5 DEF Serves
<1>. QED BY <1>6, <1>7, <1>8, <1>9

LEMMA WriteCompleteServes ==
    ASSUME NEW x, Sound(x), NEW y \in WriteComplete(x)
    PROVE  Serves(x, y, "write") /\ Honest(y, "write")
<1>. USE DEF Dirs
<1>1. PICK h \in Nat : h = IF x.op["write"].ok THEN x.op["write"].n ELSE 0
  BY DEF Sound, Connecters
<1>2. PICK z : z = [x EXCEPT !.posted["write"] = FALSE, !.op["write"] = NoOp,
                             !.head = @ + h]
  OBVIOUS
<1>3. Serves(x, z, "write") /\ Honest(z, "write")
  <2>1. h <= x.op["write"].n BY <1>1 DEF Sound, Connecters
  <2>. QED BY <1>2, <2>1, TakenBack
<1>4. y \in {z, CancelEvent(z), PushEvent(z, "write")}
  BY <1>1, <1>2 DEF WriteComplete
<1>5. Sound(y) /\ Whole(z, y) /\ \A d \in Dirs : Kept(z, y, d)
  <2>1. CASE y = z BY <1>3, <2>1 DEF Serves, Whole, Kept
  <2>2. CASE y = CancelEvent(z) BY <1>3, <2>2, CancelSound DEF Serves
  <2>3. CASE y = PushEvent(z, "write") BY <1>3, <2>3, PushSound DEF Serves
  <2>. QED BY <1>4, <2>1, <2>2, <2>3
<1>. QED BY <1>3, <1>5 DEF Serves, Whole, Kept, Honest
----------------------------------------------------------------------------
(* The connecter and its threads.                                          *)

Shape ==
    /\ side \in {"server", "client", "relay"}
    /\ pc \in {"start", "recv", "recvFlag", "send", "wsaSend", "sendFlag", "done"}
    /\ overtaken \subseteq Dirs
    /\ net \in [unread : Nat, total : Nat, eof : BOOLEAN, broken : BOOLEAN]
    /\ net.unread <= net.total /\ net.total <= MaxArrived

\* Only the client has a thread that posts without the mutex and keeps its
\* connecter; of the others it is deleted with its last entry.
Sides ==
    /\ pc = "start" =>
          /\ c.entries = 0 /\ c.curEv = <<>> /\ ~c.connected
          /\ \A d \in Dirs : c.op[d].st = "none"
    /\ side # "client" => overtaken = {} /\ pc \in {"start", "done"}
    /\ c.gone => side # "client" /\ pc = "done" /\ c.entries = 0

\* OverlappedTracked, and what it is between posting and setting the flag.
Flags(d) ==
    /\ ~c.gone => c.overlapped[d] = "owned"
    /\ c.gone => /\ c.overlapped[d] \in {"doomed", "freed"}
                 /\ c.overlapped[d] = "freed" <=> c.op[d].st = "none"
    /\ ~c.gone /\ d \notin overtaken =>
          IF pc = Flag[d] THEN ~c.posted[d] /\ c.op[d].st # "none" ELSE Honest(c, d)

ConnecterInv ==
    /\ Shape /\ Sound(c) /\ Sides
    /\ Flags("read") /\ Flags("write")

LEMMA InitConnecter == Init => ConnecterInv
<1>. SUFFICES ASSUME Init PROVE ConnecterInv
  OBVIOUS
<1>1. Shape BY IocpAssumption DEF Init, Shape
<1>2. c \in Connecters
  <2>1. <<>> \in Seq({"read", "write", "cancel"}) OBVIOUS
  <2>2. NoOp \in [st : {"none", "kernel", "port"}, n : Nat, ok : BOOLEAN]
    BY DEF NoOp
  <2>. QED BY <2>1, <2>2 DEF Init, Connecters
<1>3. Sound(c) BY <1>2 DEF Init, Sound, Dirs, NoOp
<1>4. Sides BY DEF Init, Sides, Dirs, NoOp
<1>5. Flags("read") /\ Flags("write")
  BY DEF Init, Flags, Honest, NoOp, Flag, Dirs
<1>. QED BY <1>1, <1>3, <1>4, <1>5 DEF ConnecterInv

LEMMA FlagPcs == Flag["read"] = "recvFlag" /\ Flag["write"] = "sendFlag"
BY DEF Flag

\* RegisterEvent of a connecter that is not connected posts nothing.
LEMMA RegisterEventKeeps ==
    ASSUME ConnecterInv, pc = "start", NEW x \in RegisterEvent(c)
    PROVE  Sound(x) /\ Whole(c, x) /\ \A d \in Dirs : Kept(c, x, d)
<1>1. PICK z : z = [c EXCEPT !.attached = TRUE] OBVIOUS
<1>2. /\ z \in Connecters /\ z.curEv = <<>> /\ z.entries = 0 /\ ~z.connected
      /\ z.op = c.op /\ z.posted = c.posted
      /\ z.head = c.head /\ z.tail = c.tail /\ Whole(c, z)
  BY <1>1 DEF ConnecterInv, Sides, Sound, Connecters, Whole
<1>3. x = z BY <1>1, <1>2 DEF RegisterEvent, RegisterCallback
<1>. QED BY <1>2, <1>3 DEF ConnecterInv, Sound, Kept

\* Connect sets m_connected.
LEMMA ConnectSound ==
    ASSUME NEW x, Sound(x), NEW y, y = [x EXCEPT !.connected = TRUE]
    PROVE  Sound(y) /\ Whole(x, y) /\ \A d \in Dirs : Kept(x, y, d)
<1>1. /\ y \in Connecters /\ y.curEv = x.curEv /\ y.entries = x.entries
      /\ y.op = x.op /\ y.posted = x.posted /\ y.attached = x.attached
      /\ y.head = x.head /\ y.tail = x.tail /\ Whole(x, y)
  BY DEF Sound, Connecters, Whole
<1>. QED BY <1>1 DEF Sound, Kept

\* A connecter set up in one step, under the mutex.
LEMMA SetUpAtOnce ==
    ASSUME ConnecterInv, side # "client", pc = "start", pc' = "done",
           UNCHANGED <<side, overtaken, net>>,
           NEW x, Sound(x), Whole(c, x), \A d \in Dirs : Kept(c, x, d),
           Serves(x, c', "read")
    PROVE  ConnecterInv'
<1>1. /\ Sound(c') /\ Whole(c, c')
      /\ Honest(c, "read") => Honest(c', "read")
      /\ Honest(c, "write") => Honest(c', "write")
  BY DEF Serves, Whole, Kept, Honest, Dirs
<1>2. ~c.gone BY DEF ConnecterInv, Sides
<1>3. Sides' BY <1>1, <1>2 DEF ConnecterInv, Sides, Whole
<1>4. Flags("read")' /\ Flags("write")'
  BY <1>1, <1>2, FlagPcs DEF ConnecterInv, Flags, Whole, Honest
<1>5. Shape' BY DEF ConnecterInv, Shape
<1>. QED BY <1>1, <1>3, <1>4, <1>5 DEF ConnecterInv

LEMMA RegisterAcceptedStep == ConnecterInv /\ RegisterAccepted => ConnecterInv'
<1>. SUFFICES ASSUME ConnecterInv, RegisterAccepted PROVE ConnecterInv'
  OBVIOUS
<1>1. /\ side = "server" /\ pc = "start" /\ pc' = "done"
      /\ c' \in RegisterEvent(c)
      /\ UNCHANGED <<side, overtaken, net>>
  BY DEF RegisterAccepted
<1>2. Sound(c') /\ Whole(c, c') /\ \A d \in Dirs : Kept(c, c', d)
  BY <1>1, RegisterEventKeeps
<1>3. Serves(c', c', "read") BY <1>2, SelfServes DEF Dirs
<1>. QED BY <1>1, <1>2, <1>3, SetUpAtOnce

LEMMA ConnectInHandlerStep == ConnecterInv /\ ConnectInHandler => ConnecterInv'
<1>. SUFFICES ASSUME ConnecterInv, ConnectInHandler PROVE ConnecterInv'
  OBVIOUS
<1>1. /\ side = "relay" /\ pc = "start" /\ pc' = "done"
      /\ UNCHANGED <<side, overtaken, net>>
  BY DEF ConnectInHandler
<1>2. PICK x \in RegisterEvent(c) :
        c' \in {CancelEvent(x)} \cup AsynRead([x EXCEPT !.connected = TRUE])
  BY DEF ConnectInHandler
<1>3. Sound(x) /\ Whole(c, x) /\ \A d \in Dirs : Kept(c, x, d)
  BY <1>1, <1>2, RegisterEventKeeps
<1>4. PICK y : y = [x EXCEPT !.connected = TRUE] OBVIOUS
<1>5. Sound(y) /\ Whole(c, y) /\ \A d \in Dirs : Kept(c, y, d)
  <2>1. Sound(y) /\ Whole(x, y) /\ \A d \in Dirs : Kept(x, y, d)
    BY <1>3, <1>4, ConnectSound
  <2>. QED BY <1>3, <2>1 DEF Whole, Kept
<1>6. CASE c' = CancelEvent(x)
  <2>1. Serves(x, c', "read") BY <1>3, <1>6, CancelServes DEF Dirs
  <2>. QED BY <1>1, <1>3, <2>1, SetUpAtOnce
<1>7. CASE c' \in AsynRead(y)
  <2>1. Serves(y, c', "read") BY <1>5, <1>7, AsynReadServes
  <2>. QED BY <1>1, <1>5, <2>1, SetUpAtOnce
<1>. QED BY <1>2, <1>4, <1>6, <1>7

\* The client's thread leaves the flags alone.
LEMMA ClientKeeps ==
    ASSUME ConnecterInv, side = "client", Sound(c'), Whole(c, c'),
           Kept(c, c', "read"), Kept(c, c', "write"),
           pc \notin {"recvFlag", "sendFlag"}, pc' \in {"recv", "send", "wsaSend", "done"},
           UNCHANGED <<side, overtaken, net>>
    PROVE  ConnecterInv'
<1>1. ~c.gone /\ ~c'.gone BY DEF ConnecterInv, Sides, Whole
<1>2. Sides' BY <1>1 DEF ConnecterInv, Sides
<1>3. Flags("read")' /\ Flags("write")'
  BY <1>1, FlagPcs DEF ConnecterInv, Flags, Whole, Kept, Honest
<1>4. Shape' BY DEF ConnecterInv, Shape
<1>. QED BY <1>2, <1>3, <1>4 DEF ConnecterInv

LEMMA RegisterAndConnectStep == ConnecterInv /\ RegisterAndConnect => ConnecterInv'
<1>. SUFFICES ASSUME ConnecterInv, RegisterAndConnect PROVE ConnecterInv'
  OBVIOUS
<1>1. /\ side = "client" /\ pc = "start"
      /\ UNCHANGED <<side, overtaken, net>>
  BY DEF RegisterAndConnect
<1>2. PICK x \in RegisterEvent(c) :
        \/ pc' = "recv" /\ c' = [x EXCEPT !.connected = TRUE]
        \/ pc' = "done" /\ c' = CancelEvent(x)
  BY DEF RegisterAndConnect
<1>3. Sound(x) /\ Whole(c, x) /\ \A d \in Dirs : Kept(c, x, d)
  BY <1>1, <1>2, RegisterEventKeeps
<1>4. Sound(c') /\ Whole(x, c') /\ \A d \in Dirs : Kept(x, c', d)
  BY <1>2, <1>3, ConnectSound, CancelSound
<1>5. Whole(c, c') /\ Kept(c, c', "read") /\ Kept(c, c', "write")
  BY <1>3, <1>4 DEF Whole, Kept, Dirs
<1>6. pc' \in {"recv", "done"} BY <1>2
<1>. QED BY <1>1, <1>4, <1>5, <1>6, ClientKeeps

\* WSARecv or WSASend without the mutex, of a direction nothing is out in.
LEMMA PostOutsideStep ==
    ASSUME ConnecterInv, side = "client",
           NEW d \in Dirs, NEW n \in Nat, d = "write" => c.head + n <= c.tail,
           NEW next \in {"send", "done"},
           pc \notin {"start", "recvFlag", "sendFlag"},
           PostOutside(d, n, Flag[d], next)
    PROVE  ConnecterInv'
<1>. USE DEF Dirs
<1>1. CASE pc' = next /\ c' = CancelEvent(c)
  <2>1. /\ Sound(c') /\ Whole(c, c') /\ Kept(c, c', "read") /\ Kept(c, c', "write")
    BY <1>1, CancelSound DEF ConnecterInv
  <2>. QED BY <1>1, <2>1, ClientKeeps DEF PostOutside
<1>2. CASE pc' = Flag[d] /\ c' = [Post(c, d, n) EXCEPT !.posted[d] = FALSE]
  <2>1. PICK x : x = Post(c, d, n) OBVIOUS
  <2>2. /\ Sound(x) /\ Whole(c, x) /\ \A e \in Dirs \ {d} : Kept(c, x, e)
        /\ x.op[d].st = "kernel"
    BY <2>1, PostSound DEF ConnecterInv
  <2>3. c' = [x EXCEPT !.posted = [x.posted EXCEPT ![d] = FALSE]]
    BY <1>2, <2>1, <2>2 DEF Sound, Connecters
  <2>4. /\ c'.posted = [x.posted EXCEPT ![d] = FALSE] /\ c'.op = x.op
        /\ c'.head = x.head /\ c'.tail = x.tail /\ c'.curEv = x.curEv
        /\ c'.entries = x.entries /\ c'.attached = x.attached /\ Whole(x, c')
    BY <2>2, <2>3 DEF Sound, Connecters, Whole
  <2>5. c' \in Connecters BY <2>2, <2>3 DEF Sound, Connecters
  <2>6. Sound(c') BY <2>2, <2>4, <2>5 DEF Sound
  <2>7. x.posted \in [Dirs -> BOOLEAN] BY <2>2 DEF Sound, Connecters
  <2>8. ~c'.posted[d] /\ c'.op[d].st = "kernel"
        /\ \A e \in Dirs \ {d} : Kept(c, c', e)
    BY <2>2, <2>4, <2>7 DEF Kept
  <2>9. /\ Whole(c, c') /\ ~c.gone
        /\ UNCHANGED <<side, overtaken, net>>
    BY <2>2, <2>4 DEF ConnecterInv, Sides, Whole, PostOutside
  <2>10. pc' \in {"recvFlag", "sendFlag"} BY <1>2, FlagPcs
  <2>11. Sides' BY <2>9, <2>10 DEF ConnecterInv, Sides, Whole
  <2>12. Flags("read")' /\ Flags("write")'
    BY <1>2, <2>8, <2>9, FlagPcs DEF ConnecterInv, Flags, Whole, Kept, Honest
  <2>13. Shape' BY <2>9, <2>10 DEF ConnecterInv, Shape
  <2>. QED BY <2>6, <2>11, <2>12, <2>13 DEF ConnecterInv
<1>. QED BY <1>1, <1>2 DEF PostOutside

LEMMA SetFlagStep ==
    ASSUME ConnecterInv, NEW d \in Dirs, NEW next \in {"send", "done"},
           pc = Flag[d], SetFlag(d, next)
    PROVE  ConnecterInv'
<1>. USE DEF Dirs
<1>1. /\ pc' = next /\ c' = [c EXCEPT !.posted = [c.posted EXCEPT ![d] = TRUE]]
      /\ UNCHANGED <<side, overtaken, net>>
  BY DEF SetFlag, ConnecterInv, Sound, Connecters
<1>2. side = "client" /\ ~c.gone BY FlagPcs DEF ConnecterInv, Sides, Shape
<1>3. /\ c'.posted = [c.posted EXCEPT ![d] = TRUE] /\ c'.op = c.op
      /\ c'.head = c.head /\ c'.tail = c.tail /\ c'.curEv = c.curEv
      /\ c'.entries = c.entries /\ c'.attached = c.attached /\ Whole(c, c')
  BY <1>1 DEF ConnecterInv, Sound, Connecters, Whole
<1>4. c' \in Connecters BY <1>1 DEF ConnecterInv, Sound, Connecters
<1>5. Sound(c') BY <1>3, <1>4 DEF ConnecterInv, Sound
<1>6. c.posted \in [Dirs -> BOOLEAN] BY DEF ConnecterInv, Sound, Connecters
<1>7. c'.posted[d] /\ \A e \in Dirs \ {d} : Kept(c, c', e)
  BY <1>3, <1>6 DEF Kept
<1>8. Sides' BY <1>1, <1>2, <1>3 DEF ConnecterInv, Sides, Whole
<1>9. Flags("read")' /\ Flags("write")'
  BY <1>1, <1>2, <1>3, <1>7, FlagPcs DEF ConnecterInv, Flags, Whole, Kept, Honest
<1>10. Shape' BY <1>1 DEF ConnecterInv, Shape
<1>. QED BY <1>5, <1>8, <1>9, <1>10 DEF ConnecterInv

LEMMA ClientSendStep == ConnecterInv /\ ClientSend => ConnecterInv'
<1>. SUFFICES ASSUME ConnecterInv, ClientSend PROVE ConnecterInv'
  OBVIOUS
<1>1. WriteSize \in Nat BY IocpAssumption
<1>2. Sound(c') /\ Whole(c, c') /\ \A d \in Dirs : Kept(c, c', d)
  BY <1>1, FillSound DEF ConnecterInv, ClientSend
<1>3. side = "client" BY DEF ClientSend, ConnecterInv, Sides, Shape
<1>. QED BY <1>2, <1>3, ClientKeeps DEF ClientSend, Dirs

LEMMA SetupStep == ConnecterInv /\ Setup => ConnecterInv'
<1>. SUFFICES ASSUME ConnecterInv, Setup PROVE ConnecterInv'
  OBVIOUS
<1>. USE DEF Dirs
<1>1. CASE ConnectPosts
  <2>1. side = "client" BY <1>1 DEF ConnectPosts, ConnecterInv, Sides, Shape
  <2>. QED BY <1>1, <2>1, FlagPcs, PostOutsideStep DEF ConnectPosts
<1>2. CASE SendPosts
  <2>1. side = "client" BY <1>2 DEF SendPosts, ConnecterInv, Sides, Shape
  <2>2. Sendable(c) \in Nat /\ c.head + Sendable(c) <= c.tail
    BY SendableBounds DEF ConnecterInv
  <2>. QED BY <1>2, <2>1, <2>2, FlagPcs, PostOutsideStep DEF SendPosts
<1>3. CASE ConnectSetsFlag BY <1>3, FlagPcs, SetFlagStep DEF ConnectSetsFlag
<1>4. CASE SendSetsFlag BY <1>4, FlagPcs, SetFlagStep DEF SendSetsFlag
<1>. QED BY <1>1, <1>2, <1>3, <1>4, RegisterAcceptedStep, ConnectInHandlerStep,
       RegisterAndConnectStep, ClientSendStep DEF Setup
\* An entry leaves the list, and with it its kind the front of m_curEv or not.
LEMMA EntryLeaves ==
    ASSUME NEW x, Sound(x), x.entries > 0, NEW y,
           \/ y = [x EXCEPT !.entries = @ - 1]
           \/ y = [x EXCEPT !.entries = @ - 1, !.curEv = Tail(@)]
    PROVE  /\ Sound(y) /\ Whole(x, y) /\ \A d \in Dirs : Kept(x, y, d)
           /\ y.entries = x.entries - 1
<1>1. /\ x.entries \in Nat /\ x.curEv \in Seq({"read", "write", "cancel"})
      /\ x.entries <= Len(x.curEv) /\ Len(x.curEv) \in Nat
  BY DEF Sound, Connecters
<1>2. x.entries - 1 \in Nat /\ x.curEv # <<>> BY <1>1
<1>3. PICK q : q = Tail(x.curEv) OBVIOUS
<1>4. /\ q \in Seq({"read", "write", "cancel"}) /\ Len(q) = Len(x.curEv) - 1
      /\ DOMAIN q = 1 .. (Len(x.curEv) - 1) /\ DOMAIN x.curEv = 1 .. Len(x.curEv)
      /\ \A i \in 1 .. (Len(x.curEv) - 1) : q[i] = x.curEv[i + 1]
  BY <1>1, <1>2, <1>3
<1>5. \/ y = [x EXCEPT !.entries = x.entries - 1]
      \/ y = [x EXCEPT !.entries = x.entries - 1, !.curEv = q]
  BY <1>3 DEF Sound, Connecters
<1>6. y \in Connecters BY <1>2, <1>4, <1>5 DEF Sound, Connecters
<1>7. /\ y.entries = x.entries - 1 /\ y.curEv \in {x.curEv, q}
      /\ y.head = x.head /\ y.tail = x.tail /\ y.op = x.op /\ y.posted = x.posted
      /\ y.attached = x.attached /\ Whole(x, y)
  BY <1>5 DEF Sound, Connecters, Whole
<1>8. y.entries <= Len(y.curEv) BY <1>1, <1>4, <1>7
<1>9. \A i \in DOMAIN y.curEv : y.curEv[i] = "cancel" => i = Len(y.curEv) /\ ~y.attached
  <2>1. CASE y.curEv = x.curEv BY <1>7, <2>1 DEF Sound
  <2>2. CASE y.curEv = q
    <3>. SUFFICES ASSUME NEW i \in 1 .. (Len(x.curEv) - 1), q[i] = "cancel"
                  PROVE  i = Len(x.curEv) - 1 /\ ~y.attached
      BY <1>4, <2>2
    <3>1. x.curEv[i + 1] = "cancel" /\ i + 1 \in DOMAIN x.curEv BY <1>1, <1>4
    <3>2. i + 1 = Len(x.curEv) /\ ~x.attached BY <3>1 DEF Sound
    <3>. QED BY <1>1, <1>7, <3>2
  <2>. QED BY <1>7, <2>1, <2>2
<1>. QED BY <1>6, <1>7, <1>8, <1>9 DEF Sound, Kept

\* A step that keeps both directions' flags honest, of a set-up connecter.
LEMMA HonestKeeps ==
    ASSUME ConnecterInv, ~c.gone, Sound(c'), Whole(c, c'),
           pc = "done", \A d \in Dirs : Honest(c, d) => Honest(c', d),
           UNCHANGED <<side, pc, net, overtaken>>
    PROVE  ConnecterInv'
<1>. USE DEF Dirs
<1>2. Sides' BY DEF ConnecterInv, Sides, Whole
<1>3. Flags("read")' /\ Flags("write")'
  BY FlagPcs DEF ConnecterInv, Flags, Whole, Honest
<1>4. Shape' BY DEF ConnecterInv, Shape
<1>. QED BY <1>2, <1>3, <1>4 DEF ConnecterInv

\* ~Connecter, when the last entry is handled.
LEMMA DestroyStep ==
    ASSUME ConnecterInv, side # "client", pc = "done", c.entries > 0,
           Head(c.curEv) = "cancel", c' = Destroy(c),
           UNCHANGED <<side, pc, net, overtaken>>
    PROVE  ConnecterInv'
<1>. USE DEF Dirs
<1>1. c.entries = 1
  <2>1. /\ c.entries \in Nat /\ c.curEv \in Seq({"read", "write", "cancel"})
        /\ c.entries <= Len(c.curEv) /\ Len(c.curEv) \in Nat
    BY DEF ConnecterInv, Sound, Connecters
  <2>2. 1 \in DOMAIN c.curEv /\ c.curEv[1] = "cancel" BY <2>1
  <2>3. 1 = Len(c.curEv) BY <2>2 DEF ConnecterInv, Sound
  <2>4. c.entries \in Nat /\ c.entries <= 1 BY <2>1, <2>3
  <2>5. c.entries > 0 OBVIOUS
  <2>. QED BY <2>4, <2>5
<1>2. ~c.gone /\ overtaken = {} BY DEF ConnecterInv, Sides
<1>3. PICK o : o = [d \in Dirs |-> IF c.posted[d] THEN "doomed" ELSE "freed"]
  OBVIOUS
<1>4. c' = [c EXCEPT !.gone = TRUE, !.entries = c.entries - 1, !.overlapped = o]
  BY <1>3 DEF Destroy, ConnecterInv, Sound, Connecters
<1>5. /\ c'.gone /\ c'.entries = 0 /\ c'.overlapped = o /\ c'.op = c.op
      /\ c'.posted = c.posted /\ c'.curEv = c.curEv /\ c'.head = c.head
      /\ c'.tail = c.tail /\ c'.attached = c.attached
  BY <1>1, <1>4 DEF ConnecterInv, Sound, Connecters
<1>6. c' \in Connecters
  <2>1. o \in [Dirs -> {"owned", "doomed", "freed"}] BY <1>3
  <2>2. c.entries - 1 \in Nat BY <1>1
  <2>. QED BY <1>4, <2>1, <2>2 DEF ConnecterInv, Sound, Connecters
<1>7. Sound(c') BY <1>1, <1>5, <1>6 DEF ConnecterInv, Sound
<1>8. Sides' BY <1>5 DEF ConnecterInv, Sides
<1>9. Honest(c, "read") /\ Honest(c, "write")
  BY <1>2, FlagPcs DEF ConnecterInv, Flags
<1>10. Flags("read")' /\ Flags("write")'
  BY <1>3, <1>5, <1>9 DEF Flags, Honest
<1>11. Shape' BY DEF ConnecterInv, Shape
<1>. QED BY <1>7, <1>8, <1>10, <1>11 DEF ConnecterInv

LEMMA ProcessStep == ConnecterInv /\ ProcessActiveEvent => ConnecterInv'
<1>. SUFFICES ASSUME ConnecterInv, ProcessActiveEvent PROVE ConnecterInv'
  OBVIOUS
<1>. USE DEF Dirs
<1>1. /\ pc = "done" /\ c.entries > 0 /\ Sound(c) /\ ~c.gone
      /\ UNCHANGED <<side, pc, overtaken, net>>
  <2>1. /\ pc = "done" /\ c.entries > 0
        /\ UNCHANGED <<side, pc, overtaken, net>>
    BY DEF ProcessActiveEvent
  <2>2. Sound(c) /\ (c.gone => c.entries = 0) BY DEF ConnecterInv, Sides
  <2>3. c.entries # 0 BY <2>1
  <2>. QED BY <2>1, <2>2, <2>3
<1>2. CASE side # "client" /\ Head(c.curEv) = "cancel"
  BY <1>1, <1>2, DestroyStep DEF ProcessActiveEvent
<1>3. CASE c' = [c EXCEPT !.entries = @ - 1]
  <2>1. Sound(c') /\ Whole(c, c') /\ \A d \in Dirs : Kept(c, c', d)
    BY <1>1, <1>3, EntryLeaves
  <2>. QED BY <1>1, <2>1, HonestKeeps DEF Kept, Honest
<1>4. ASSUME NEW y \in Handle(c), c' = [y EXCEPT !.entries = @ - 1, !.curEv = Tail(@)]
      PROVE  ConnecterInv'
  <2>1. Sound(y) /\ Whole(c, y) /\ \A d \in Dirs : Honest(c, d) => Honest(y, d)
    <3>1. Serves(c, y, "read") \/ Serves(c, y, "write")
      BY <1>1, AsynReadServes, AsynWriteServes DEF Handle
    <3>. QED BY <3>1 DEF Serves, Kept, Honest
  <2>2. y.entries >= c.entries
    <3>1. y \in {c, CancelEvent(c), Post(c, "read", 0), Post(c, "write", Sendable(c))}
      BY DEF Handle, AsynRead, AsynWrite
    <3>2. c.entries \in Nat BY <1>1 DEF Sound, Connecters
    <3>3. CASE y = c BY <3>2, <3>3
    <3>4. CASE y = CancelEvent(c)
      <4>1. y.entries = c.entries + 1 \/ y.entries = c.entries
        BY <3>4 DEF CancelEvent, PushEvent, ConnecterInv, Sound, Connecters
      <4>. QED BY <3>2, <4>1
    <3>5. CASE y = Post(c, "read", 0)
      BY <1>1, <3>2, <3>5, PostSound
    <3>6. CASE y = Post(c, "write", Sendable(c))
      <4>1. Sendable(c) \in Nat /\ c.head + Sendable(c) <= c.tail
        BY <1>1, SendableBounds
      <4>2. Post(c, "write", Sendable(c)).entries = c.entries
        BY <1>1, <4>1, PostSound
      <4>. QED BY <3>2, <3>6, <4>2
    <3>. QED BY <3>1, <3>3, <3>4, <3>5, <3>6
  <2>3. y.entries > 0 BY <1>1, <2>1, <2>2 DEF Sound, Connecters
  <2>4. Sound(c') /\ Whole(y, c') /\ \A d \in Dirs : Kept(y, c', d)
    BY <1>4, <2>1, <2>3, EntryLeaves
  <2>. QED BY <1>1, <2>1, <2>4, HonestKeeps DEF Kept, Honest, Whole
<1>. QED BY <1>2, <1>3, <1>4 DEF ProcessActiveEvent

\* A packet of the completion port.
LEMMA IocpLoopStep ==
    ASSUME ConnecterInv, NEW d \in Dirs, IocpLoop(d)
    PROVE  ConnecterInv'
<1>. USE DEF Dirs
<1>1. /\ c.op[d].st = "port" /\ Sound(c) /\ Flags(d) /\ c' \in Complete(c, d)
      /\ overtaken' = overtaken \cup (IF pc = Flag[d] THEN {d} ELSE {})
      /\ UNCHANGED <<side, pc, net>>
  BY DEF IocpLoop, ConnecterInv
<1>2. pc # "start" BY <1>1 DEF ConnecterInv, Sides
<1>3. Shape' BY <1>1 DEF ConnecterInv, Shape
<1>4. CASE c.gone
  <2>1. c.overlapped[d] = "doomed" BY <1>1, <1>4 DEF Flags
  <2>2. c' = [c EXCEPT !.overlapped = [c.overlapped EXCEPT ![d] = "freed"],
                       !.op = [c.op EXCEPT ![d] = NoOp]]
    BY <1>1, <2>1 DEF Complete, Sound, Connecters
  <2>3. /\ c'.overlapped = [c.overlapped EXCEPT ![d] = "freed"]
        /\ c'.op = [c.op EXCEPT ![d] = NoOp] /\ c'.gone = c.gone
        /\ c'.posted = c.posted /\ c'.curEv = c.curEv /\ c'.head = c.head
        /\ c'.tail = c.tail /\ c'.attached = c.attached /\ c'.entries = c.entries
    BY <1>1, <2>2 DEF Sound, Connecters
  <2>4. /\ c.op \in [Dirs -> [st : {"none", "kernel", "port"}, n : Nat, ok : BOOLEAN]]
        /\ c.overlapped \in [Dirs -> {"owned", "doomed", "freed"}]
        /\ c.head \in Nat /\ c.tail \in Nat /\ c.head + c.op["write"].n <= c.tail
    BY <1>1 DEF Sound, Connecters
  <2>5. /\ c'.op[d] = NoOp /\ c'.overlapped[d] = "freed"
        /\ \A e \in Dirs \ {d} : c'.op[e] = c.op[e] /\ c'.overlapped[e] = c.overlapped[e]
    BY <2>3, <2>4
  <2>6. c' \in Connecters
    <3>1. [c.op EXCEPT ![d] = NoOp]
              \in [Dirs -> [st : {"none", "kernel", "port"}, n : Nat, ok : BOOLEAN]]
      BY <2>4 DEF NoOp
    <3>2. [c.overlapped EXCEPT ![d] = "freed"] \in [Dirs -> {"owned", "doomed", "freed"}]
      BY <2>4
    <3>. QED BY <1>1, <2>2, <3>1, <3>2 DEF Sound, Connecters
  <2>7. c'.head + c'.op["write"].n <= c'.tail
    <3>1. CASE d = "write"
      <4>1. c'.op["write"].n = 0 BY <2>5, <3>1 DEF NoOp
      <4>2. c.op["write"].n \in Nat BY <2>4
      <4>. QED BY <2>3, <2>4, <4>1, <4>2
    <3>2. CASE d # "write" BY <2>3, <2>4, <2>5, <3>2
    <3>. QED BY <3>1, <3>2
  <2>8. Sound(c') BY <1>1, <2>3, <2>6, <2>7 DEF Sound
  <2>9. pc # Flag[d] BY <1>4, FlagPcs DEF ConnecterInv, Sides
  <2>10. Sides' BY <1>1, <1>2, <2>3, <2>9 DEF ConnecterInv, Sides
  <2>11. Flags("read")' /\ Flags("write")'
    BY <1>4, <2>3, <2>5 DEF ConnecterInv, Flags, NoOp
  <2>. QED BY <1>3, <2>8, <2>10, <2>11 DEF ConnecterInv
<1>5. CASE ~c.gone
  <2>1. c.overlapped[d] = "owned" BY <1>1, <1>5 DEF Flags
  <2>2. c' \in IF d = "read" THEN ReadComplete(c) ELSE WriteComplete(c)
    BY <1>1, <2>1 DEF Complete
  <2>3. CASE d = "read"
    <3>1. /\ Sound(c') /\ Whole(c, c') /\ Honest(c', "read")
          /\ Honest(c, "write") => Honest(c', "write")
          /\ side # "relay" => Kept(c, c', "write")
      BY <1>1, <2>2, <2>3, ReadCompleteServes
    <3>2. side # "client" => pc = "done" /\ overtaken = {}
      BY <1>2 DEF ConnecterInv, Sides
    <3>3. Sides' BY <1>1, <1>2, <1>5, <2>3, <3>1, <3>2, FlagPcs
        DEF ConnecterInv, Sides, Whole
    <3>4. Flags("read")' BY <1>1, <1>5, <2>3, <3>1 DEF ConnecterInv, Flags, Whole
    <3>5. Flags("write")'
      BY <1>1, <1>5, <2>3, <3>1, <3>2, FlagPcs
      DEF ConnecterInv, Flags, Whole, Kept, Honest
    <3>. QED BY <1>3, <3>1, <3>3, <3>4, <3>5 DEF ConnecterInv
  <2>4. CASE d = "write"
    <3>1. /\ Sound(c') /\ Whole(c, c') /\ Honest(c', "write") /\ Kept(c, c', "read")
      BY <1>1, <2>2, <2>4, WriteCompleteServes DEF Serves
    <3>2. side # "client" => pc = "done" /\ overtaken = {}
      BY <1>2 DEF ConnecterInv, Sides
    <3>3. Sides' BY <1>1, <1>2, <1>5, <2>4, <3>1, <3>2, FlagPcs
        DEF ConnecterInv, Sides, Whole
    <3>4. Flags("write")' BY <1>1, <1>5, <2>4, <3>1 DEF ConnecterInv, Flags, Whole
    <3>5. Flags("read")'
      BY <1>1, <1>5, <2>4, <3>1, <3>2, FlagPcs
      DEF ConnecterInv, Flags, Whole, Kept, Honest
    <3>. QED BY <1>3, <3>1, <3>3, <3>4, <3>5 DEF ConnecterInv
  <2>. QED BY <2>3, <2>4
<1>. QED BY <1>4, <1>5
\* Windows brings an operation to the completion port.
LEMMA FinishStep ==
    ASSUME ConnecterInv, NEW d \in Dirs, c.op[d].st = "kernel", NEW n \in Nat,
           d = "write" => n <= c.op[d].n, NEW ok \in BOOLEAN, Finish(d, n, ok)
    PROVE  /\ Sound(c') /\ Sides'
           /\ Flags("read")' /\ Flags("write")'
           /\ UNCHANGED <<side, pc, overtaken>>
<1>. USE DEF Dirs
<1>0. UNCHANGED <<side, pc, overtaken>> /\ Sound(c) BY DEF Finish, ConnecterInv
<1>1. PICK o : o = [st |-> "port", n |-> n, ok |-> ok] OBVIOUS
<1>2. c' = [c EXCEPT !.op = [c.op EXCEPT ![d] = o]]
  BY <1>0, <1>1 DEF Finish, Sound, Connecters
<1>3. /\ c.op \in [Dirs -> [st : {"none", "kernel", "port"}, n : Nat, ok : BOOLEAN]]
      /\ c.head \in Nat /\ c.tail \in Nat /\ c.head + c.op["write"].n <= c.tail
  BY <1>0 DEF Sound, Connecters
<1>4. /\ c'.op = [c.op EXCEPT ![d] = o] /\ c'.posted = c.posted
      /\ c'.curEv = c.curEv /\ c'.head = c.head /\ c'.tail = c.tail
      /\ c'.attached = c.attached /\ c'.entries = c.entries /\ Whole(c, c')
  BY <1>0, <1>2 DEF Sound, Connecters, Whole
<1>5. c'.op[d] = o /\ \A e \in Dirs \ {d} : c'.op[e] = c.op[e] BY <1>3, <1>4
<1>6. c' \in Connecters
  <2>1. [c.op EXCEPT ![d] = o]
            \in [Dirs -> [st : {"none", "kernel", "port"}, n : Nat, ok : BOOLEAN]]
    BY <1>1, <1>3
  <2>. QED BY <1>0, <1>2, <2>1 DEF Sound, Connecters
<1>7. c'.head + c'.op["write"].n <= c'.tail
  <2>1. CASE d = "write"
    <3>1. c'.op["write"].n = n /\ c.op["write"].n \in Nat /\ n <= c.op["write"].n
      BY <1>1, <1>3, <1>5, <2>1
    <3>. QED BY <1>3, <1>4, <3>1
  <2>2. CASE d # "write" BY <1>3, <1>4, <1>5, <2>2
  <2>. QED BY <2>1, <2>2
<1>8. Sound(c') BY <1>0, <1>4, <1>6, <1>7 DEF Sound
<1>9. \A e \in Dirs : c'.op[e].st # "none" <=> c.op[e].st # "none"
  BY <1>1, <1>5
<1>10. Sides' BY <1>0, <1>4, <1>9 DEF ConnecterInv, Sides, Whole
<1>11. Flags("read")' BY <1>0, <1>4, <1>9 DEF ConnecterInv, Flags, Honest, Whole
<1>12. Flags("write")' BY <1>0, <1>4, <1>9 DEF ConnecterInv, Flags, Honest, Whole
<1>. QED BY <1>0, <1>8, <1>10, <1>11, <1>12

LEMMA WindowsStep == ConnecterInv /\ Windows => ConnecterInv'
<1>. SUFFICES ASSUME ConnecterInv, Windows PROVE ConnecterInv'
  OBVIOUS
<1>. USE DEF Dirs
<1>0. Sound(c) /\ Shape BY DEF ConnecterInv
<1>1. CASE Received
  <2>1. net.unread \in Nat BY <1>0 DEF Shape
  <2>2. Finish("read", net.unread, TRUE) /\ c.op["read"].st = "kernel"
        /\ net' = [net EXCEPT !.unread = 0]
    BY <1>1 DEF Received
  <2>3. /\ Sound(c') /\ Sides' /\ Flags("read")' /\ Flags("write")'
        /\ UNCHANGED <<side, pc, overtaken>>
    BY <2>1, <2>2, FinishStep
  <2>4. Shape' BY <1>0, <2>2, <2>3 DEF Shape
  <2>. QED BY <2>3, <2>4 DEF ConnecterInv
<1>2. CASE SentOut
  <2>1. c.op["write"].n \in Nat /\ c.op["write"].n <= c.op["write"].n
    BY <1>0 DEF Sound, Connecters
  <2>2. Finish("write", c.op["write"].n, TRUE) /\ c.op["write"].st = "kernel"
        /\ UNCHANGED net
    BY <1>2 DEF SentOut
  <2>3. /\ Sound(c') /\ Sides' /\ Flags("read")' /\ Flags("write")'
        /\ UNCHANGED <<side, pc, overtaken>>
    BY <2>1, <2>2, FinishStep
  <2>4. Shape' BY <1>0, <2>2, <2>3 DEF Shape
  <2>. QED BY <2>3, <2>4 DEF ConnecterInv
<1>3. ASSUME NEW d \in Dirs, OperationAborted(d) PROVE ConnecterInv'
  <2>1. 0 \in Nat /\ 0 <= c.op[d].n BY <1>0 DEF Sound, Connecters
  <2>2. Finish(d, 0, FALSE) /\ c.op[d].st = "kernel" /\ UNCHANGED net
    BY <1>3 DEF OperationAborted
  <2>3. /\ Sound(c') /\ Sides' /\ Flags("read")' /\ Flags("write")'
        /\ UNCHANGED <<side, pc, overtaken>>
    <3>1. FALSE \in BOOLEAN OBVIOUS
    <3>. HIDE DEF Dirs
    <3>. QED BY <2>1, <2>2, <3>1, FinishStep
  <2>4. Shape' BY <1>0, <2>2, <2>3 DEF Shape
  <2>. QED BY <2>3, <2>4 DEF ConnecterInv
<1>. QED BY <1>1, <1>2, <1>3 DEF Windows

LEMMA SameConnecter ==
    ASSUME ConnecterInv, UNCHANGED <<side, pc, c, overtaken>>, Shape'
    PROVE  ConnecterInv'
BY DEF ConnecterInv, Sides, Flags, Honest

LEMMA PeerStep == ConnecterInv /\ Peer => ConnecterInv'
<1>. SUFFICES ASSUME ConnecterInv, Peer PROVE ConnecterInv'
  OBVIOUS
<1>1. UNCHANGED <<side, pc, c, overtaken>> BY DEF Peer
<1>2. Shape'
  <2>1. Shape /\ MaxArrived \in Nat BY IocpAssumption DEF ConnecterInv
  <2>2. \/ net.total < MaxArrived
           /\ net' = [net EXCEPT !.unread = @ + 1, !.total = @ + 1]
        \/ net' = [net EXCEPT !.eof = TRUE]
        \/ net' = [net EXCEPT !.broken = TRUE]
    BY DEF Peer
  <2>3. CASE net.total < MaxArrived
             /\ net' = [net EXCEPT !.unread = @ + 1, !.total = @ + 1]
    <3>1. /\ net.unread + 1 \in Nat /\ net.total + 1 \in Nat
          /\ net.unread + 1 <= net.total + 1 /\ net.total + 1 <= MaxArrived
      BY <2>1, <2>3 DEF Shape
    <3>. QED BY <1>1, <2>1, <2>3, <3>1 DEF Shape
  <2>4. CASE net' = [net EXCEPT !.eof = TRUE] BY <1>1, <2>1, <2>4 DEF Shape
  <2>5. CASE net' = [net EXCEPT !.broken = TRUE] BY <1>1, <2>1, <2>5 DEF Shape
  <2>. QED BY <2>2, <2>3, <2>4, <2>5
<1>. QED BY <1>1, <1>2, SameConnecter

LEMMA ConnecterStep == ConnecterInv /\ IocpNext => ConnecterInv'
BY SetupStep, ProcessStep, IocpLoopStep, WindowsStep, PeerStep DEF IocpNext, Workers

LEMMA ConnecterImplies == ConnecterInv => OverlappedTracked /\ TypeOK
<1>. SUFFICES ASSUME ConnecterInv PROVE OverlappedTracked /\ TypeOK
  OBVIOUS
<1>1. OverlappedTracked
  BY DEF ConnecterInv, Flags, Honest, OverlappedTracked, Dirs
<1>2. TypeOK
  <2>1. Shape /\ Sound(c) BY DEF ConnecterInv
  <2>2. /\ c.head \in Nat /\ c.tail \in Nat /\ c.op["write"].n \in Nat
        /\ c.head + c.op["write"].n <= c.tail
    BY <2>1 DEF Sound, Connecters, Dirs
  <2>3. c.head \in 0 .. c.tail BY <2>2
  <2>4. net.unread \in 0 .. MaxArrived BY <2>1, IocpAssumption DEF Shape
  <2>. QED BY <2>1, <2>3, <2>4 DEF TypeOK, Shape, Sound, Connecters
<1>. QED BY <1>1, <1>2

----------------------------------------------------------------------------
(* The listener and its array.                                             *)

ListenerType ==
    /\ posting \in 1 .. (Slots + 1)
    /\ out \in [1 .. Slots -> Nat] /\ packets \in [1 .. Slots -> Seq(BOOLEAN)]
    /\ refcnt \in Int /\ failures \in Nat /\ acceptedq \in Seq(1 .. Slots)
    /\ cancelled \in BOOLEAN /\ atOnce \in BOOLEAN
    /\ memory # "held" => posting > Slots /\ cancelled
    /\ memory = "held" => doomed = {}

Busy == {s \in 1 .. Slots : Outstanding(s) > 0}

\* A slot is out or queued, not both and not before it was posted; what is out
\* is counted.
SlotsInv ==
    /\ refcnt = Cardinality(Busy)
    /\ \A s \in 1 .. Slots :
          /\ Outstanding(s) <= 1
          /\ Outstanding(s) = 1 => ~In(acceptedq, s)
          /\ s >= posting => Outstanding(s) = 0 /\ ~In(acceptedq, s)
    /\ Distinct(acceptedq)
    /\ memory = "freed" => refcnt = 0

ListenerInv == ListenerType /\ (~atOnce => SlotsInv)

LEMMA InitListener == AcceptInit => ListenerInv
<1>. SUFFICES ASSUME AcceptInit PROVE ListenerInv
  OBVIOUS
<1>0. Slots \in Nat \ {0} BY AcceptAssumption
<1>1. ListenerType
  <2>1. <<>> \in Seq(BOOLEAN) /\ <<>> \in Seq(1 .. Slots) OBVIOUS
  <2>2. /\ out \in [1 .. Slots -> Nat] /\ packets \in [1 .. Slots -> Seq(BOOLEAN)]
        /\ acceptedq \in Seq(1 .. Slots)
    BY <2>1 DEF AcceptInit
  <2>3. posting \in 1 .. (Slots + 1) BY <1>0 DEF AcceptInit
  <2>4. cancelled \in BOOLEAN /\ atOnce \in BOOLEAN /\ memory = "held" /\ doomed = {}
    BY DEF AcceptInit
  <2>5. refcnt \in Int /\ failures \in Nat BY DEF AcceptInit
  <2>. QED BY <2>2, <2>3, <2>4, <2>5 DEF ListenerType
<1>2. \A s \in 1 .. Slots : Outstanding(s) = 0 BY DEF AcceptInit, Outstanding
<1>3. Busy = {} BY <1>2 DEF Busy
<1>4. Cardinality(Busy) = 0 BY <1>3, FS_EmptySet
<1>5. Distinct(acceptedq) /\ \A s : ~In(acceptedq, s)
  BY DEF AcceptInit, Distinct, In
<1>6. SlotsInv BY <1>2, <1>4, <1>5 DEF AcceptInit, SlotsInv
<1>. QED BY <1>1, <1>6 DEF ListenerInv

LEMMA OutstandingNat ==
    ASSUME ListenerType
    PROVE  \A s \in 1 .. Slots : Outstanding(s) \in Nat
BY DEF ListenerType, Outstanding

LEMMA BusyFinite == IsFiniteSet(Busy) /\ Cardinality(Busy) \in Nat
<1>1. IsFiniteSet(1 .. Slots) BY FS_Interval, AcceptAssumption
<1>2. Busy \in SUBSET (1 .. Slots) BY DEF Busy
<1>. QED BY <1>1, <1>2, FS_Subset, FS_CardinalityType

\* A slot that was free is posted.
LEMMA PendingCounts ==
    ASSUME ListenerType, NEW s \in 1 .. Slots, Outstanding(s) = 0, AcceptPending(s)
    PROVE  /\ \A t \in 1 .. Slots :
                 Outstanding(t)' = IF t = s THEN 1 ELSE Outstanding(t)
           /\ Cardinality(Busy') = Cardinality(Busy) + 1
<1>1. /\ out' = [out EXCEPT ![s] = out[s] + 1] /\ packets' = packets
      /\ out \in [1 .. Slots -> Nat] /\ packets \in [1 .. Slots -> Seq(BOOLEAN)]
  BY DEF AcceptPending, ListenerType
<1>2. \A t \in 1 .. Slots : /\ Len(packets[t]) \in Nat /\ out[t] \in Nat
                            /\ Outstanding(t) = out[t] + Len(packets[t])
                            /\ Outstanding(t)' = out'[t] + Len(packets[t])
  BY <1>1 DEF Outstanding
<1>3. \A t \in 1 .. Slots : out'[t] = IF t = s THEN out[t] + 1 ELSE out[t] BY <1>1
<1>4. \A t \in 1 .. Slots : Outstanding(t)' = IF t = s THEN 1 ELSE Outstanding(t)
  BY <1>2, <1>3
<1>5. Busy' = Busy \cup {s} /\ s \notin Busy
  <2>1. Busy' = {t \in 1 .. Slots : Outstanding(t)' > 0} BY DEF Busy
  <2>2. \A t \in 1 .. Slots : Outstanding(t)' > 0 <=> (t = s \/ Outstanding(t) > 0)
    BY <1>4
  <2>. QED BY <2>1, <2>2 DEF Busy
<1>. QED BY <1>4, <1>5, BusyFinite, FS_AddElement

LEMMA SlotSame ==
    ASSUME SlotsInv, UNCHANGED <<posting, out, packets, refcnt, acceptedq, memory>>
    PROVE  SlotsInv'
BY DEF SlotsInv, Busy, Outstanding

\* The two ways of AsynAccept that leave ~atOnce.
LEMMA AsynAcceptSlots ==
    ASSUME ListenerType, SlotsInv, NEW s \in 1 .. Slots, Outstanding(s) = 0,
           NEW q \in Seq(1 .. Slots), NEW n, Distinct(q), ~In(q, s),
           \A t : In(q, t) => In(acceptedq, t),
           AsynAccept(s, q, n), ~atOnce', memory # "freed", memory' = memory,
           posting' \in 1 .. (Slots + 1), posting' > s, posting' >= posting
    PROVE  SlotsInv'
<1>0. Slots \in Nat /\ posting \in 1 .. (Slots + 1) /\ s \in Nat
  BY AcceptAssumption DEF ListenerType
<1>1. CASE AcceptPending(s) /\ acceptedq' = q
  <2>1. /\ \A t \in 1 .. Slots :
              Outstanding(t)' = IF t = s THEN 1 ELSE Outstanding(t)
        /\ Cardinality(Busy') = Cardinality(Busy) + 1
    BY <1>1, PendingCounts
  <2>2. refcnt' = Cardinality(Busy') BY <1>1, <2>1 DEF AcceptPending, SlotsInv
  <2>3. ASSUME NEW t \in 1 .. Slots
        PROVE  /\ Outstanding(t)' <= 1
               /\ Outstanding(t)' = 1 => ~In(acceptedq', t)
               /\ t >= posting' => Outstanding(t)' = 0 /\ ~In(acceptedq', t)
    BY <1>0, <1>1, <2>1 DEF SlotsInv
  <2>. QED BY <1>1, <2>2, <2>3 DEF SlotsInv
<1>2. CASE AcceptFails(q, n)
  <2>0. acceptedq' = q BY <1>2 DEF AcceptFails
  <2>1. \A t : Outstanding(t)' = Outstanding(t) BY <1>2 DEF AcceptFails, Outstanding
  <2>2. Busy' = Busy BY <2>1 DEF Busy
  <2>3. refcnt' = Cardinality(Busy') BY <1>2, <2>2 DEF AcceptFails, SlotsInv
  <2>4. ASSUME NEW t \in 1 .. Slots
        PROVE  /\ Outstanding(t)' <= 1
               /\ Outstanding(t)' = 1 => ~In(acceptedq', t)
               /\ t >= posting' => Outstanding(t)' = 0 /\ ~In(acceptedq', t)
    BY <1>0, <2>0, <2>1 DEF SlotsInv
  <2>. QED BY <2>0, <2>3, <2>4 DEF SlotsInv
<1>3. CASE AcceptAtOnce(s) BY <1>3 DEF AcceptAtOnce
<1>. QED BY <1>1, <1>2, <1>3 DEF AsynAccept, AcceptPosted

\* Types after AsynAccept.
LEMMA AsynAcceptType ==
    ASSUME ListenerType, NEW s \in 1 .. Slots, NEW q \in Seq(1 .. Slots), NEW n,
           AsynAccept(s, q, n)
    PROVE  /\ out' \in [1 .. Slots -> Nat] /\ packets' \in [1 .. Slots -> Seq(BOOLEAN)]
           /\ refcnt' \in Int /\ failures' \in Nat /\ acceptedq' \in Seq(1 .. Slots)
           /\ atOnce' \in BOOLEAN
<1>1. CASE AcceptPending(s) /\ acceptedq' = q
  BY <1>1 DEF AcceptPending, ListenerType
<1>2. CASE AcceptFails(q, n)
  BY <1>2 DEF AcceptFails, CallFails, ListenerType
<1>3. CASE AcceptAtOnce(s) /\ failures' \in Nat /\ acceptedq' \in {q, Append(q, s)}
  <2>1. Append(q, s) \in Seq(1 .. Slots) OBVIOUS
  <2>2. Append(packets[s], TRUE) \in Seq(BOOLEAN) BY DEF ListenerType
  <2>3. packets' = [packets EXCEPT ![s] = Append(packets[s], TRUE)]
    BY <1>3 DEF AcceptAtOnce
  <2>4. packets' \in [1 .. Slots -> Seq(BOOLEAN)] BY <2>2, <2>3 DEF ListenerType
  <2>. QED BY <1>3, <2>1, <2>4 DEF AcceptAtOnce, ListenerType
<1>4. AcceptAtOnce(s) /\ AcceptPosted(s, q, n)
        => \/ AcceptPending(s) /\ acceptedq' = q
           \/ failures' \in Nat /\ acceptedq' \in {q, Append(q, s)}
  BY DEF AcceptPosted, CallFails, ListenerType
<1>. QED BY <1>1, <1>2, <1>3, <1>4 DEF AsynAccept, AcceptPosted

LEMMA StartStep == ListenerInv /\ StartAsynAccept => ListenerInv'
<1>. SUFFICES ASSUME ListenerInv, StartAsynAccept PROVE ListenerInv'
  OBVIOUS
<1>0. ListenerType /\ Slots \in Nat /\ posting \in 1 .. Slots
      /\ AsynAccept(posting, acceptedq, events)
      /\ memory' = memory /\ doomed' = doomed
      /\ acceptedq \in Seq(1 .. Slots)
  BY AcceptAssumption DEF ListenerInv, ListenerType, StartAsynAccept, AsynAccept
<1>1. memory = "held" BY <1>0 DEF ListenerType
<1>2. /\ posting' \in 1 .. (Slots + 1) /\ posting' > posting
      /\ cancelled' \in BOOLEAN
  <2>1. cancelled' = TRUE \/ cancelled' = cancelled BY DEF StartAsynAccept
  <2>2. posting' = Slots + 1 \/ posting' = posting + 1 BY DEF StartAsynAccept
  <2>3. posting' \in 1 .. (Slots + 1) /\ posting' > posting BY <1>0, <2>2
  <2>4. cancelled \in BOOLEAN BY <1>0 DEF ListenerType
  <2>. QED BY <2>1, <2>3, <2>4
<1>3. ListenerType' BY <1>0, <1>1, <1>2, AsynAcceptType DEF ListenerType
<1>4. ASSUME ~atOnce' PROVE SlotsInv'
  <2>1. ~atOnce
    BY <1>0, <1>4 DEF AsynAccept, AcceptPosted, AcceptPending, AcceptFails, AcceptAtOnce
  <2>2. SlotsInv BY <2>1 DEF ListenerInv
  <2>3. Outstanding(posting) = 0 /\ ~In(acceptedq, posting) /\ Distinct(acceptedq)
    BY <1>0, <2>2 DEF SlotsInv
  <2>. QED BY <1>0, <1>1, <1>2, <1>4, <2>2, <2>3, AsynAcceptSlots
<1>. QED BY <1>3, <1>4 DEF ListenerInv

LEMMA HandleStep == ListenerInv /\ HandleAccept => ListenerInv'
<1>. SUFFICES ASSUME ListenerInv, HandleAccept PROVE ListenerInv'
  OBVIOUS
<1>0. /\ ListenerType /\ Slots \in Nat /\ posting > Slots /\ ~cancelled
      /\ UNCHANGED <<posting, cancelled, doomed, memory, arrived>>
      /\ acceptedq \in Seq(1 .. Slots) /\ posting \in 1 .. (Slots + 1)
  BY AcceptAssumption DEF ListenerInv, ListenerType, HandleAccept
<1>1. memory = "held" BY <1>0 DEF ListenerType
<1>2. CASE acceptedq = <<>>
  <2>1. UNCHANGED <<out, packets, refcnt, acceptedq, failures, atOnce>>
    BY <1>2 DEF HandleAccept
  <2>2. ListenerType' BY <1>0, <2>1 DEF ListenerType
  <2>3. ~atOnce' => SlotsInv' BY <1>0, <2>1, SlotSame DEF ListenerInv
  <2>. QED BY <2>2, <2>3 DEF ListenerInv
<1>3. CASE acceptedq # <<>>
  <2>1. PICK s, q : s = Head(acceptedq) /\ q = Tail(acceptedq) OBVIOUS
  <2>2. s \in 1 .. Slots /\ q \in Seq(1 .. Slots) BY <1>0, <1>3, <2>1
  <2>3. AsynAccept(s, q, events - 1) BY <1>3, <2>1 DEF HandleAccept
  <2>4. ListenerType' BY <1>0, <1>1, <2>2, <2>3, AsynAcceptType DEF ListenerType
  <2>5. ASSUME ~atOnce' PROVE SlotsInv'
    <3>1. ~atOnce
      BY <2>3, <2>5 DEF AsynAccept, AcceptPosted, AcceptPending, AcceptFails, AcceptAtOnce
    <3>2. SlotsInv BY <3>1 DEF ListenerInv
    <3>3. /\ In(acceptedq, s) /\ Distinct(q)
          /\ \A t : In(q, t) <=> t # s /\ In(acceptedq, t)
      BY <1>0, <1>3, <2>1, <3>2, TailPlaces DEF SlotsInv
    <3>4. Outstanding(s) \in Nat /\ Outstanding(s) <= 1 /\ Outstanding(s) # 1
      BY <1>0, <2>2, <3>2, <3>3, OutstandingNat DEF SlotsInv
    <3>5. Outstanding(s) = 0 BY <3>4
    <3>6. posting' \in 1 .. (Slots + 1) /\ posting' > s /\ posting' >= posting
      BY <1>0, <2>2
    <3>. QED BY <1>0, <1>1, <2>2, <2>3, <2>5, <3>2, <3>3, <3>5, <3>6, AsynAcceptSlots
  <2>. QED BY <2>4, <2>5 DEF ListenerInv
<1>. QED BY <1>2, <1>3
LEMMA CompleteStep ==
    ASSUME ListenerInv, NEW s \in 1 .. Slots, AcceptComplete(s)
    PROVE  ListenerInv'
<1>0. /\ ListenerType /\ posting > Slots /\ packets[s] # <<>>
      /\ packets' = [packets EXCEPT ![s] = Tail(packets[s])]
      /\ refcnt' = refcnt - 1
      /\ UNCHANGED <<posting, out, cancelled, doomed, backlog, arrived, atOnce>>
      /\ acceptedq \in Seq(1 .. Slots) /\ refcnt \in Int
      /\ packets \in [1 .. Slots -> Seq(BOOLEAN)] /\ out \in [1 .. Slots -> Nat]
  BY DEF ListenerInv, ListenerType, AcceptComplete
<1>1. acceptedq' = acceptedq \/ acceptedq' = Append(acceptedq, s)
  BY DEF AcceptComplete, Queued
<1>2. memory' = memory \/ (memory' = "freed" /\ refcnt' = 0 /\ s \in doomed)
  BY DEF AcceptComplete, LastOut
<1>3. s \in doomed => acceptedq' = acceptedq BY DEF AcceptComplete
<1>4. PICK k : k = Tail(packets[s]) OBVIOUS
<1>5. k \in Seq(BOOLEAN) /\ Len(k) = Len(packets[s]) - 1 /\ Len(packets[s]) \in Nat \ {0}
  BY <1>0, <1>4
<1>6. packets' \in [1 .. Slots -> Seq(BOOLEAN)]
  <2>1. packets' = [packets EXCEPT ![s] = k] BY <1>0, <1>4
  <2>. QED BY <1>0, <1>5, <2>1
<1>7. acceptedq' \in Seq(1 .. Slots)
  <2>1. Append(acceptedq, s) \in Seq(1 .. Slots) BY <1>0
  <2>. QED BY <1>0, <1>1, <2>1
<1>8. failures' \in Nat
  <2>1. failures \in Nat BY <1>0 DEF ListenerType
  <2>2. failures' = failures \/ failures' = failures + 1 BY DEF AcceptComplete
  <2>. QED BY <2>1, <2>2
<1>9. ASSUME ~atOnce PROVE SlotsInv'
  <2>1. SlotsInv BY <1>9 DEF ListenerInv
  <2>2. \A t \in 1 .. Slots : Outstanding(t)' = IF t = s THEN 0 ELSE Outstanding(t)
    <3>1. \A t \in 1 .. Slots :
            /\ Outstanding(t) = out[t] + Len(packets[t])
            /\ Outstanding(t)' = out[t] + Len(packets'[t])
            /\ packets'[t] = IF t = s THEN k ELSE packets[t]
      BY <1>0, <1>4 DEF Outstanding
    <3>2. out[s] + Len(packets[s]) <= 1 /\ out[s] \in Nat
      BY <1>0, <2>1, <3>1 DEF SlotsInv
    <3>3. out[s] + Len(k) = 0 BY <1>5, <3>2
    <3>. QED BY <3>1, <3>3
  <2>3. Outstanding(s) > 0 /\ Outstanding(s) = 1
    <3>1. Outstanding(s) = out[s] + Len(packets[s]) BY DEF Outstanding
    <3>2. out[s] \in Nat BY <1>0
    <3>3. Outstanding(s) <= 1 BY <2>1 DEF SlotsInv
    <3>. QED BY <1>5, <3>1, <3>2, <3>3
  <2>4. Busy' = Busy \ {s} /\ s \in Busy
    <3>1. Busy' = {t \in 1 .. Slots : Outstanding(t)' > 0} BY DEF Busy
    <3>2. \A t \in 1 .. Slots : Outstanding(t)' > 0 <=> (t # s /\ Outstanding(t) > 0)
      BY <2>2
    <3>. QED BY <2>3, <3>1, <3>2 DEF Busy
  <2>5. Cardinality(Busy') = Cardinality(Busy) - 1
    BY <2>4, BusyFinite, FS_RemoveElement
  <2>6. refcnt' = Cardinality(Busy') BY <1>0, <2>1, <2>5 DEF SlotsInv
  <2>7. ~In(acceptedq, s) /\ Distinct(acceptedq) BY <2>1, <2>3 DEF SlotsInv
  <2>8. Distinct(acceptedq') /\ \A t : In(acceptedq', t) => t = s \/ In(acceptedq, t)
    <3>1. CASE acceptedq' = acceptedq BY <2>7, <3>1
    <3>2. CASE acceptedq' = Append(acceptedq, s)
      BY <1>0, <2>7, <3>2, AppendPlaces
    <3>. QED BY <1>1, <3>1, <3>2
  <2>9. ASSUME NEW t \in 1 .. Slots
        PROVE  /\ Outstanding(t)' <= 1
               /\ Outstanding(t)' = 1 => ~In(acceptedq', t)
               /\ t >= posting' => Outstanding(t)' = 0 /\ ~In(acceptedq', t)
    <3>1. ~(t >= posting)
      <4>1. posting \in Int /\ Slots \in Int /\ t \in Int
        BY <1>0, AcceptAssumption DEF ListenerType
      <4>. QED BY <1>0, <4>1
    <3>2. Outstanding(t)' <= 1 BY <2>1, <2>2 DEF SlotsInv
    <3>3. Outstanding(t)' = 1 => ~In(acceptedq', t)
      BY <2>1, <2>2, <2>8 DEF SlotsInv
    <3>. QED BY <1>0, <3>1, <3>2, <3>3
  <2>10. memory' = "freed" => refcnt' = 0
    <3>1. memory # "freed"
      <4>1. refcnt # 0
        <5>1. Cardinality(Busy) # 0 BY <2>4, BusyFinite, FS_EmptySet
        <5>. QED BY <2>1, <5>1 DEF SlotsInv
      <4>. QED BY <2>1, <4>1 DEF SlotsInv
    <3>. QED BY <1>2, <3>1
  <2>. QED BY <2>6, <2>8, <2>9, <2>10 DEF SlotsInv
<1>10. /\ memory' # "held" => posting' > Slots /\ cancelled'
       /\ memory' = "held" => doomed' = {}
  BY <1>0, <1>2 DEF ListenerType
<1>. QED BY <1>0, <1>6, <1>7, <1>8, <1>9, <1>10 DEF ListenerInv, ListenerType
LEMMA DestroyListenerStep == ListenerInv /\ DestroyListener => ListenerInv'
<1>. SUFFICES ASSUME ListenerInv, DestroyListener PROVE ListenerInv'
  OBVIOUS
<1>1. /\ posting > Slots /\ cancelled /\ memory = "held"
      /\ acceptedq' = <<>> /\ memory' = "shared"
      /\ UNCHANGED <<posting, out, packets, refcnt, cancelled, failures, atOnce>>
  BY DEF DestroyListener
<1>2. ListenerType'
  <2>1. <<>> \in Seq(1 .. Slots) OBVIOUS
  <2>. QED BY <1>1, <2>1 DEF ListenerInv, ListenerType
<1>3. ASSUME ~atOnce' PROVE SlotsInv'
  <2>1. SlotsInv BY <1>1, <1>3 DEF ListenerInv
  <2>2. Distinct(acceptedq') /\ \A t : ~In(acceptedq', t)
    BY <1>1 DEF Distinct, In
  <2>3. Busy' = Busy /\ \A t : Outstanding(t)' = Outstanding(t)
    BY <1>1 DEF Busy, Outstanding
  <2>. QED BY <1>1, <2>1, <2>2, <2>3 DEF SlotsInv
<1>. QED BY <1>2, <1>3 DEF ListenerInv

\* An operation moves from Windows to the port: out all the same.
LEMMA MoveStep ==
    ASSUME ListenerInv, NEW s \in 1 .. Slots, NEW ok \in BOOLEAN, out[s] > 0,
           out' = [out EXCEPT ![s] = @ - 1],
           packets' = [packets EXCEPT ![s] = Append(@, ok)], failures' \in Nat,
           UNCHANGED <<posting, refcnt, acceptedq, cancelled, doomed, memory, atOnce>>
    PROVE  ListenerInv'
<1>0. /\ ListenerType /\ out \in [1 .. Slots -> Nat]
      /\ packets \in [1 .. Slots -> Seq(BOOLEAN)]
  BY DEF ListenerInv, ListenerType
<1>1. PICK k : k = Append(packets[s], ok) OBVIOUS
<1>2. k \in Seq(BOOLEAN) /\ Len(k) = Len(packets[s]) + 1 BY <1>0, <1>1
<1>3. out[s] - 1 \in Nat BY <1>0
<1>4. out' \in [1 .. Slots -> Nat] /\ packets' \in [1 .. Slots -> Seq(BOOLEAN)]
  BY <1>0, <1>1, <1>2, <1>3
<1>5. ListenerType' BY <1>0, <1>4 DEF ListenerType
<1>6. \A t \in 1 .. Slots : Outstanding(t)' = Outstanding(t)
  <2>1. \A t \in 1 .. Slots :
          /\ out[t] \in Nat /\ Len(packets[t]) \in Nat
          /\ Outstanding(t) = out[t] + Len(packets[t])
          /\ Outstanding(t)' = out'[t] + Len(packets'[t])
    BY <1>0 DEF Outstanding
  <2>2. \A t \in 1 .. Slots :
          /\ out'[t] = IF t = s THEN out[t] - 1 ELSE out[t]
          /\ packets'[t] = IF t = s THEN k ELSE packets[t]
    BY <1>0, <1>1
  <2>. QED BY <1>2, <2>1, <2>2, SMTT(60)
<1>7. Busy' = Busy BY <1>6 DEF Busy
<1>8. ASSUME ~atOnce' PROVE SlotsInv'
  <2>1. SlotsInv BY <1>8 DEF ListenerInv
  <2>. QED BY <1>6, <1>7, <2>1 DEF SlotsInv
<1>. QED BY <1>5, <1>8 DEF ListenerInv

LEMMA ListenerStep == ListenerInv /\ AcceptNext => ListenerInv'
<1>. SUFFICES ASSUME ListenerInv, AcceptNext PROVE ListenerInv'
  OBVIOUS
<1>0. ListenerType /\ failures \in Nat BY DEF ListenerInv, ListenerType
<1>1. CASE Arrive
  <2>1. UNCHANGED <<posting, out, packets, refcnt, acceptedq, cancelled, doomed,
                    memory, failures, atOnce>>
    BY <1>1 DEF Arrive
  <2>2. ListenerType' BY <1>0, <2>1 DEF ListenerType
  <2>. QED BY <2>1, <2>2, SlotSame DEF ListenerInv
<1>2. ASSUME NEW s \in 1 .. Slots, Connected(s) PROVE ListenerInv'
  <2>1. TRUE \in BOOLEAN OBVIOUS
  <2>. QED BY <1>0, <1>2, <2>1, MoveStep DEF Connected
<1>3. ASSUME NEW s \in 1 .. Slots, Aborted(s) PROVE ListenerInv'
  <2>1. FALSE \in BOOLEAN /\ failures' \in Nat BY <1>0, <1>3 DEF Aborted
  <2>. QED BY <1>3, <2>1, MoveStep DEF Aborted
<1>. QED BY <1>1, <1>2, <1>3, StartStep, HandleStep, CompleteStep,
       DestroyListenerStep DEF AcceptNext, Completions

\* A slot is queued at most once.
LEMMA ListenerImplies == ListenerInv => SlotsTracked
<1>. SUFFICES ASSUME ListenerInv, ~atOnce, NEW s \in 1 .. Slots
              PROVE  /\ refcnt = Cardinality(Busy)
                     /\ Outstanding(s) + Cardinality({i \in DOMAIN acceptedq :
                                                        acceptedq[i] = s}) <= 1
                     /\ memory = "freed" => refcnt = 0
  <2>1. Slots >= 1 /\ 1 \in 1 .. Slots BY AcceptAssumption
  <2>. QED BY <2>1 DEF SlotsTracked, Busy
<1>1. SlotsInv /\ ListenerType BY DEF ListenerInv
<1>2. PICK P : P = {i \in DOMAIN acceptedq : acceptedq[i] = s} OBVIOUS
<1>3. Outstanding(s) \in Nat /\ Outstanding(s) <= 1 BY <1>1, OutstandingNat DEF SlotsInv
<1>4. CASE In(acceptedq, s)
  <2>1. PICK i \in DOMAIN acceptedq : acceptedq[i] = s BY <1>4 DEF In
  <2>2. P = {i} BY <1>1, <1>2, <2>1 DEF SlotsInv, Distinct
  <2>3. Cardinality(P) = 1 BY <2>2, FS_Singleton
  <2>4. Outstanding(s) = 0 BY <1>1, <1>3, <1>4 DEF SlotsInv
  <2>. QED BY <1>1, <1>2, <2>3, <2>4 DEF SlotsInv
<1>5. CASE ~In(acceptedq, s)
  <2>1. P = {} BY <1>2, <1>5 DEF In
  <2>2. Cardinality(P) = 0 BY <2>1, FS_EmptySet
  <2>. QED BY <1>1, <1>2, <1>3, <2>2 DEF SlotsInv
<1>. QED BY <1>4, <1>5

----------------------------------------------------------------------------
(* Both, as MCIocp runs them.                                              *)

PartsInv == ConnecterInv /\ ListenerInv

LEMMA PartsInvariant == IoSpec => []PartsInv
<1>1. IoInit => PartsInv BY InitConnecter, InitListener DEF IoInit, PartsInv
<1>2. PartsInv /\ [IoNext]_allVars => PartsInv'
  <2>. SUFFICES ASSUME PartsInv, [IoNext]_allVars PROVE PartsInv'
    OBVIOUS
  <2>1. ASSUME UNCHANGED vars PROVE ConnecterInv'
    <3>1. UNCHANGED <<side, pc, c, overtaken, net>> BY <2>1 DEF vars
    <3>2. Shape' BY <3>1 DEF PartsInv, ConnecterInv, Shape
    <3>. QED BY <3>1, <3>2, SameConnecter DEF PartsInv
  <2>2. ASSUME UNCHANGED acceptVars PROVE ListenerInv'
    <3>1. UNCHANGED <<posting, out, packets, refcnt, acceptedq, cancelled, doomed,
                      memory, failures, atOnce>>
      BY <2>2 DEF acceptVars
    <3>2. ListenerType' BY <3>1 DEF PartsInv, ListenerInv, ListenerType
    <3>. QED BY <3>1, <3>2, SlotSame DEF PartsInv, ListenerInv
  <2>. QED BY <2>1, <2>2, ConnecterStep, ListenerStep DEF PartsInv, IoNext, allVars
<1>. QED BY <1>1, <1>2, PTL DEF IoSpec

\* Of a connecter, m_isPostRecv and m_isPostWrite say whether an operation is
\* out unless a completion has overtaken its flag, and the OVERLAPPED that
\* outlives it is freed when its operation is back; of a listener,
\* *m_overlappedsRefCnt is the number of operations that are out, each slot is
\* out or queued once, and the array is not freed under one.
THEOREM OperationsAccounted == IoSpec => []OperationsTracked
<1>1. PartsInv => OperationsTracked
  BY ConnecterImplies, ListenerImplies DEF PartsInv, OperationsTracked
<1>. QED BY <1>1, PartsInvariant, PTL

\* Type correctness of the connecter: the write buffer is never taken from
\* beyond what was put in, whatever Windows answers.
THEOREM ConnecterTypes == IoSpec => []TypeOK
<1>1. PartsInv => TypeOK BY ConnecterImplies DEF PartsInv
<1>. QED BY <1>1, PartsInvariant, PTL
=============================================================================
