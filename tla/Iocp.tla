-------------------------------- MODULE Iocp --------------------------------
(***************************************************************************)
(* src/common/net/Event.cpp and IOCP.cpp as they are built for Windows:    *)
(* one Connecter whose receives and sends are overlapped operations.  The  *)
(* worker threads of IOCP::Loop run the completion of an operation under   *)
(* the mutex of the EventCentre, and the loop thread handles events under  *)
(* the same mutex.  Three programs use it.  The server registers an        *)
(* accepted connecter (src/servers/gamesvr/main.cpp); its constructor asks *)
(* for the peer's address with a length of 0, so that m_connected stays    *)
(* false and nothing is ever posted.  The client (src/client/main.cpp)     *)
(* connects and writes from its main thread, which holds no mutex, before  *)
(* it enters the loop.  The relay is no program of the repository: it      *)
(* connects in a handler, under the mutex, echoes what it reads and keeps  *)
(* no pointer to its connecter.                                            *)
(***************************************************************************)
EXTENDS Integers, Sequences

CONSTANTS
    MaxSingleWrite, \* MAX_SINGLE_WRITE_DEFAULT
    WriteSize,      \* bytes the client writes
    MaxArrived      \* bound: bytes the peer sends

ASSUME IocpAssumption ==
    {MaxSingleWrite, WriteSize, MaxArrived} \subseteq Nat \ {0}

VARIABLES
    side,     \* "server", "client" or "relay": whose connecter this is
    pc,       \* where the thread is that sets the connecter up
    c,        \* the Connecter
    overtaken,\* history: directions whose completion ran before its flag was set
    net       \* the socket's other side: bytes to read, eof, broken

vars == <<side, pc, c, overtaken, net>>

Dirs == {"read", "write"}
NoOp == [st |-> "none", n |-> 0, ok |-> TRUE]

TypeOK ==
    /\ side \in {"server", "client", "relay"}
    /\ pc \in {"start", "recv", "recvFlag", "send", "wsaSend", "sendFlag", "done"}
    /\ c.posted \in [Dirs -> BOOLEAN]
    /\ \A d \in Dirs : c.op[d].st \in {"none", "kernel", "port"}
    /\ c.overlapped \in [Dirs -> {"owned", "doomed", "freed"}]
    /\ c.entries \in Nat
    /\ c.curEv \in Seq({"read", "write", "cancel"})
    /\ c.head \in 0 .. c.tail
    /\ {c.attached, c.connected, c.gone} \subseteq BOOLEAN
    /\ overtaken \subseteq Dirs
    /\ net.unread \in 0 .. MaxArrived

\* Connecter::Connecter.  getpeername is given no room for the address, which
\* stays AF_UNSPEC.
Init ==
    /\ side \in {"server", "client", "relay"}
    /\ pc = "start"
    /\ c = [posted     |-> [d \in Dirs |-> FALSE], \* m_isPostRecv, m_isPostWrite
            op         |-> [d \in Dirs |-> NoOp],  \* the operation with Windows
            overlapped |-> [d \in Dirs |-> "owned"],
            attached   |-> FALSE,                  \* m_pCentre is set
            connected  |-> FALSE,                  \* m_connected
            entries    |-> 0,                      \* in m_waittingEvs
            curEv      |-> <<>>,                   \* m_curEv
            head       |-> 0,                      \* write buffer: taken
            tail       |-> 0,                      \* write buffer: put in
            gone       |-> FALSE]                  \* ~Connecter has run
    /\ overtaken = {}
    /\ net = [unread |-> 0, total |-> 0, eof |-> FALSE, broken |-> FALSE]

----------------------------------------------------------------------------
(* The members of Connecter, as functions from a connecter to the          *)
(* connecters they may leave.  CallErr and the callbacks for an error do   *)
(* the same to it: CancelEvent.                                            *)

PushEvent(x, ev) ==
    IF x.attached
    THEN [x EXCEPT !.entries = @ + 1, !.curEv = Append(@, ev)]
    ELSE x

CancelEvent(x) == [PushEvent(x, "cancel") EXCEPT !.attached = FALSE]

\* The operation is with Windows, and the flag says so.
Post(x, d, n) ==
    [x EXCEPT !.op[d] = [st |-> "kernel", n |-> n, ok |-> TRUE],
              !.posted[d] = TRUE]

\* A call that fails at once runs the completion with bOk = false.
AsynRead(x) ==
    IF x.posted["read"] THEN {x} ELSE {Post(x, "read", 0), CancelEvent(x)}

Sendable(x) ==
    IF x.tail - x.head > MaxSingleWrite THEN MaxSingleWrite ELSE x.tail - x.head

AsynWrite(x) ==
    IF x.posted["write"] \/ Sendable(x) = 0 THEN {x}
    ELSE {Post(x, "write", Sendable(x)), CancelEvent(x)}

\* Connecter::RegisterCallback, with nothing in the write buffer yet.
RegisterCallback(x) == IF x.connected THEN AsynRead(x) ELSE {x}

RegisterEvent(x) == RegisterCallback([x EXCEPT !.attached = TRUE])

\* WriteBuffer and its EnableEvent, by a thread that holds the mutex.
WriteBuffer(x, n) ==
    LET y == [x EXCEPT !.tail = @ + n]
    IN  IF x.attached /\ x.connected THEN AsynWrite(y) ELSE {y}

\* The callback for 0 bytes cancels.  The client sets it in ConnectCb, which
\* runs between "recvFlag" and "wsaSend"; before that there is none.
EndOfStream(x) ==
    (IF pc \in {"recvFlag", "send"} THEN {x} ELSE {})
        \cup (IF pc # "recvFlag" THEN {CancelEvent(x)} ELSE {})

\* What ReadComplete does with the answer o, when the flag is taken back.
Deliver(x, o) ==
    IF ~o.ok THEN {CancelEvent(x)}
    ELSE IF o.n = 0 THEN EndOfStream(x)
    ELSE IF side = "relay" THEN WriteBuffer(PushEvent(x, "read"), o.n)
    ELSE {PushEvent(x, "read")}

\* Mutant: the flag is not taken back.
ReadComplete_KeepsFlag(x) == Deliver([x EXCEPT !.op["read"] = NoOp], x.op["read"])

ReadComplete(x) ==
    Deliver([x EXCEPT !.posted["read"] = FALSE, !.op["read"] = NoOp], x.op["read"])

WriteComplete(x) ==
    LET o == x.op["write"]
        y == [x EXCEPT !.posted["write"] = FALSE, !.op["write"] = NoOp,
                       !.head = @ + (IF o.ok THEN o.n ELSE 0)]
    IN  IF ~o.ok THEN {CancelEvent(y)}
        ELSE IF y.head < y.tail THEN {PushEvent(y, "write")} ELSE {y}

\* ~Connecter: an operation that is out keeps its OVERLAPPED, which its
\* completion frees.
Destroy(x) ==
    [x EXCEPT !.gone = TRUE, !.entries = @ - 1,
              !.overlapped = [d \in Dirs |->
                                IF x.posted[d] THEN "doomed" ELSE "freed"]]

----------------------------------------------------------------------------
(* The thread that sets the connecter up.                                  *)

\* ListenCb: RegisterEvent of a connecter that was accepted.
RegisterAccepted ==
    /\ side = "server" /\ pc = "start"
    /\ pc' = "done"
    /\ c' \in RegisterEvent(c)
    /\ UNCHANGED <<side, overtaken, net>>

\* RegisterEvent and Connect in a handler.  A failure is reported to the
\* callback, which cancels.
ConnectInHandler ==
    /\ side = "relay" /\ pc = "start"
    /\ pc' = "done"
    /\ \E x \in RegisterEvent(c) :
          c' \in {CancelEvent(x)} \cup AsynRead([x EXCEPT !.connected = TRUE])
    /\ UNCHANGED <<side, overtaken, net>>

\* RegisterEvent of the client's, and Connect up to its AsynRead.
RegisterAndConnect ==
    /\ side = "client" /\ pc = "start"
    /\ \E x \in RegisterEvent(c) :
          \/ pc' = "recv" /\ c' = [x EXCEPT !.connected = TRUE]
          \/ pc' = "done" /\ c' = CancelEvent(x)
    /\ UNCHANGED <<side, overtaken, net>>

\* A call to WSARecv or WSASend that is not made under the mutex: the flag
\* is set in a step of its own.
PostOutside(d, n, flag, next) ==
    /\ \/ pc' = flag /\ c' = [Post(c, d, n) EXCEPT !.posted[d] = FALSE]
       \/ pc' = next /\ c' = CancelEvent(c)
    /\ UNCHANGED <<side, overtaken, net>>

SetFlag(d, next) ==
    /\ pc' = next
    /\ c' = [c EXCEPT !.posted[d] = TRUE]
    /\ UNCHANGED <<side, overtaken, net>>

ConnectPosts == pc = "recv" /\ PostOutside("read", 0, "recvFlag", "send")
ConnectSetsFlag == pc = "recvFlag" /\ SetFlag("read", "send")

\* ConnectCb, Client::Send and WriteBuffer, up to the tests in EnableEvent.
ClientSend ==
    /\ pc = "send"
    /\ c' = [c EXCEPT !.tail = @ + WriteSize]
    /\ pc' = IF c.attached /\ c.connected THEN "wsaSend" ELSE "done"
    /\ UNCHANGED <<side, overtaken, net>>

SendPosts == pc = "wsaSend" /\ PostOutside("write", Sendable(c), "sendFlag", "done")
SendSetsFlag == pc = "sendFlag" /\ SetFlag("write", "done")

Setup ==
    \/ RegisterAccepted \/ ConnectInHandler \/ RegisterAndConnect
    \/ ConnectPosts \/ ConnectSetsFlag
    \/ ClientSend \/ SendPosts \/ SendSetsFlag

----------------------------------------------------------------------------
(* The loop thread and the worker threads.                                 *)

\* Connecter::Handle.
Handle(x) == IF Head(x.curEv) = "read" THEN AsynRead(x) ELSE AsynWrite(x)

\* ProcessActiveEvent for one entry.  An entry that is passed over leaves
\* its kind at the front of m_curEv.  The client's program holds the
\* connecter after DeleteEvent, the others do not.
ProcessActiveEvent ==
    /\ pc = "done" /\ c.entries > 0
    /\ IF Head(c.curEv) = "cancel"
       THEN c' = IF side # "client" THEN Destroy(c) ELSE [c EXCEPT !.entries = @ - 1]
       ELSE IF ~c.attached THEN c' = [c EXCEPT !.entries = @ - 1]
       ELSE \E y \in Handle(c) :
              c' = [y EXCEPT !.entries = @ - 1, !.curEv = Tail(@)]
    /\ UNCHANGED <<side, pc, overtaken, net>>

\* IOCP::Loop: one packet of the completion port.
Flag == [read |-> "recvFlag", write |-> "sendFlag"]

Complete(x, d) ==
    IF x.overlapped[d] = "doomed"
    THEN {[x EXCEPT !.overlapped[d] = "freed", !.op[d] = NoOp]}
    ELSE IF d = "read" THEN ReadComplete(x) ELSE WriteComplete(x)

IocpLoop(d) ==
    /\ c.op[d].st = "port"
    /\ c' \in Complete(c, d)
    /\ overtaken' = overtaken \cup (IF pc = Flag[d] THEN {d} ELSE {})
    /\ UNCHANGED <<side, pc, net>>

----------------------------------------------------------------------------
(* Windows and the peer.  Closing the socket aborts what is out.           *)

Finish(d, n, ok) ==
    /\ c' = [c EXCEPT !.op[d] = [st |-> "port", n |-> n, ok |-> ok]]
    /\ UNCHANGED <<side, pc, overtaken>>

Received ==
    /\ c.op["read"].st = "kernel" /\ ~c.gone /\ ~net.broken
    /\ net.unread > 0 \/ net.eof
    /\ Finish("read", net.unread, TRUE)
    /\ net' = [net EXCEPT !.unread = 0]

SentOut ==
    /\ c.op["write"].st = "kernel" /\ ~c.gone /\ ~net.broken
    /\ Finish("write", c.op["write"].n, TRUE)
    /\ UNCHANGED net

OperationAborted(d) ==
    /\ c.op[d].st = "kernel" /\ (c.gone \/ net.broken)
    /\ Finish(d, 0, FALSE)
    /\ UNCHANGED net

Peer ==
    /\ pc # "start" /\ ~net.eof /\ ~net.broken
    /\ \/ net.total < MaxArrived
          /\ net' = [net EXCEPT !.unread = @ + 1, !.total = @ + 1]
       \/ net' = [net EXCEPT !.eof = TRUE]
       \/ net' = [net EXCEPT !.broken = TRUE]
    /\ UNCHANGED <<side, pc, c, overtaken>>

----------------------------------------------------------------------------
Windows == Received \/ SentOut \/ \E d \in Dirs : OperationAborted(d)
Workers == \E d \in Dirs : IocpLoop(d)

IocpNext == Setup \/ ProcessActiveEvent \/ Workers \/ Windows \/ Peer

----------------------------------------------------------------------------
(* Properties.                                                             *)

\* m_isPostRecv and m_isPostWrite say whether an operation is out, between
\* the steps of a thread that holds the mutex, unless a completion has
\* overtaken the thread that was about to set the flag; and an OVERLAPPED
\* of a deleted connecter is freed exactly when its operation is back.
OverlappedTracked ==
    \A d \in Dirs :
        /\ ~c.gone /\ d \notin overtaken /\ pc # Flag[d]
              => (c.posted[d] <=> c.op[d].st # "none")
        /\ c.gone => (c.overlapped[d] = "freed" <=> c.op[d].st = "none")

\* What was written is sent and what has arrived at a connecter that counts as
\* connected is read, unless the connecter is cancelled or a completion has
\* overtaken its flag: then the flag is set for ever and AsynRead and AsynWrite
\* return at it.  An accepted connecter never counts as connected, and the
\* server reads nothing from it.
StreamsMoveOn ==
    /\ c.head < c.tail
         ~> (c.head = c.tail \/ ~c.attached \/ "write" \in overtaken)
    /\ pc = "done" /\ c.connected /\ net.unread > 0
         ~> (net.unread = 0 \/ net.broken \/ ~c.attached \/ "read" \in overtaken)

=============================================================================
