----------------------------- MODULE Connecter -----------------------------
(***************************************************************************)
(* src/common/net/Event.cpp, Connecter: one connection driven by the loop  *)
(* thread of its EventCentre on edge-triggered epoll, the two Buffers it   *)
(* owns, the kernel socket below it, the peer beyond, and the callbacks of *)
(* the programs in the repository: the server echoes what it reads         *)
(* (src/servers/gamesvr/main.cpp), the client writes once when it has      *)
(* connected and then only reads (src/client/main.cpp), and a third kind   *)
(* also calls Connecter::Send in its read callback.                        *)
(*                                                                         *)
(* The bytes of the peer are 1, 2, 3 ... in the order it sends them.       *)
(***************************************************************************)
EXTENDS Buffer, FiniteSets

CONSTANTS
    MaxSingleRead,  \* MAX_SINGLE_READ_DEFAULT
    Space,          \* bytes the kernel's send buffer takes
    MaxBytes,       \* bound: bytes the peer sends
    FirstWrites     \* sizes of the client's first write

ASSUME SizesAssumption ==
    /\ {MaxSingleRead, Space, MaxBytes} \subseteq Nat \ {0}
    /\ FirstWrites \subseteq Nat \ {0}

VARIABLES
    app,       \* "echo", "client" or "direct": whose callbacks run
    attached,  \* m_pCentre is set
    mask,      \* the part of m_ev epoll has: subset of {"R", "W"}
    pending,   \* epoll has the descriptor in its ready list
    pc,        \* where the loop thread is
    curEv,     \* kinds reported and not handled yet
    unread,    \* the local of HandleRead
    rbuf,      \* *m_pReadBuffer
    wbuf,      \* *m_pWriteBuffer
    arrived,   \* bytes that reached the socket
    taken,     \* bytes read from it
    eof,       \* the peer has closed its side
    room,      \* bytes the socket can be given
    got,       \* bytes the read callback was given
    written,   \* bytes handed to WriteBuffer
    sent,      \* bytes HandleWrite gave to the socket
    spoilt     \* history: a write went astray or unsent bytes were dropped

peer == <<arrived, eof>>
loop == <<app, pc, curEv, unread>>
vars == <<app, attached, mask, pending, pc, curEv, unread, rbuf, wbuf, arrived,
          taken, eof, room, got, written, sent, spoilt>>

----------------------------------------------------------------------------
(* epoll: an edge, and a change of the interest, put the descriptor in the *)
(* ready list when what they ask for is there.                             *)

Ready(tk, rm) == {k \in {"R", "W"} : \/ k = "R" /\ (arrived > tk \/ eof)
                                     \/ k = "W" /\ rm > 0}

\* EnableEvent and DisableEvent: EPOLL_CTL_MOD with the interest m, for a
\* connecter that has a centre, when tk bytes are taken from the socket and
\* it has rm bytes of room.
Modify(m, tk, rm) ==
    IF attached
    THEN /\ mask' = m
         /\ pending' = (pending \/ Ready(tk, rm) \cap m # {})
    ELSE UNCHANGED <<mask, pending>>

----------------------------------------------------------------------------
(* The peer and the network.                                               *)

Arrive(n) ==
    /\ pc # "connect" /\ ~eof /\ arrived + n <= MaxBytes
    /\ arrived' = arrived + n
    /\ pending' = (pending \/ "R" \in mask)
    /\ UNCHANGED <<loop, attached, mask, rbuf, wbuf, taken, eof, room, got,
                   written, sent, spoilt>>

PeerCloses ==
    /\ pc # "connect" /\ ~eof
    /\ eof' = TRUE
    /\ pending' = (pending \/ "R" \in mask)
    /\ UNCHANGED <<loop, attached, mask, rbuf, wbuf, arrived, taken, room, got,
                   written, sent, spoilt>>

\* The peer reads: a full socket that can be written again is an edge.
PeerReads(n) ==
    /\ room + n <= Space
    /\ room' = room + n
    /\ pending' = (pending \/ (room = 0 /\ "W" \in mask))
    /\ UNCHANGED <<loop, attached, mask, rbuf, wbuf, peer, taken, got, written,
                   sent, spoilt>>

----------------------------------------------------------------------------
(* Writing, from any callback.                                             *)

\* The bytes fit behind what was written last, in a node nothing was read of.
InPlace(b, n) ==
    LET nd == b.nodes[Target(b)] IN
    /\ n <= Room(nd)
    /\ nd.use = 0 \/ (Target(b) = b.w /\ nd.rc = 0)

Fits(bytes) == InPlace(Reserve(wbuf, Len(bytes)), Len(bytes))

\* Mutant: the buffer is filled and the interest in writing not renewed.
WriteOut_NoEnable(bytes) ==
    /\ wbuf' = IF bytes = <<>> THEN wbuf ELSE WriteBuffer(wbuf, bytes)
    /\ written' = written \o bytes
    /\ spoilt' = (spoilt \/ (bytes # <<>> /\ ~Fits(bytes)))
    /\ UNCHANGED <<mask, pending>>

\* Connecter::WriteBuffer.
WriteOut(bytes) ==
    /\ wbuf' = IF bytes = <<>> THEN wbuf ELSE WriteBuffer(wbuf, bytes)
    /\ written' = written \o bytes
    /\ spoilt' = (spoilt \/ (bytes # <<>> /\ ~Fits(bytes)))
    /\ IF bytes = <<>> THEN UNCHANGED <<mask, pending>>
       ELSE Modify(mask \cup {"W"}, taken, room)

\* Connect succeeds: the interest is renewed, then the callback writes.
Connect(n) ==
    /\ pc = "connect" /\ n \in FirstWrites
    /\ WriteOut([i \in 1..n |-> i])
    /\ pc' = "wait"
    /\ UNCHANGED <<app, attached, curEv, unread, rbuf, peer, taken, room, got, sent>>

\* Connect fails: the callback cancels the event.
ConnectFails ==
    /\ pc = "connect"
    /\ attached' = FALSE
    /\ pc' = "wait"
    /\ UNCHANGED <<app, mask, pending, curEv, unread, rbuf, wbuf, peer, taken, room,
                   got, written, sent, spoilt>>

----------------------------------------------------------------------------
(* The loop thread.                                                        *)

\* Epoll::Launch and PushActiveEvent.
Report ==
    /\ pc = "wait" /\ attached /\ pending
    /\ pending' = FALSE
    /\ curEv' = Ready(taken, room) \cap mask
    /\ pc' = IF curEv' = {} THEN "wait" ELSE "handle"
    /\ UNCHANGED <<app, attached, mask, unread, rbuf, wbuf, peer, taken, room, got,
                   written, sent, spoilt>>

\* HandleRead asks how much there is and makes space for it.
AskUnread ==
    /\ pc = "handle" /\ "R" \in curEv
    /\ unread' = IF arrived = taken THEN MaxSingleRead ELSE arrived - taken
    /\ rbuf' = Reserve(rbuf, Lesser(MaxIov * Cap, unread'))
    /\ pc' = "readv"
    /\ UNCHANGED <<app, attached, mask, pending, curEv, wbuf, peer, taken, room, got,
                   written, sent, spoilt>>

\* readv takes what is there and fits; what is left is asked for again.  The
\* edge that FIN gives is spent when bytes were read before it was seen.
Readv ==
    LET n == Lesser(arrived - taken, GetWriteBuffer(rbuf, unread)) IN
    /\ pc = "readv" /\ n > 0
    /\ rbuf' = MoveWritePos(rbuf, [i \in 1..n |-> taken + i])
    /\ taken' = taken + n
    /\ IF unread > n THEN Modify(mask \cup {"R"}, taken + n, room)
       ELSE UNCHANGED <<mask, pending>>
    /\ pc' = "readcb"
    /\ UNCHANGED <<app, attached, curEv, unread, wbuf, peer, room, got,
                   written, sent, spoilt>>

\* readv returns 0: CallErr, whose callback cancels, as having none does.
ReadvEof ==
    /\ pc = "readv" /\ arrived = taken
    /\ attached' = FALSE
    /\ pc' = "write"
    /\ UNCHANGED <<app, mask, pending, curEv, unread, rbuf, wbuf, peer, taken, room,
                   got, written, sent, spoilt>>
\* The read callback reads everything; the client does no more.
ReadCb ==
    /\ pc = "readcb"
    /\ got' = got \o ReadBuffer(rbuf, rbuf.size)
    /\ rbuf' = MoveReadPos(rbuf, rbuf.size)
    /\ pc' = IF app = "client" THEN "write" ELSE "reply"
    /\ UNCHANGED <<app, attached, mask, pending, curEv, unread, wbuf, peer, taken, room,
                   written, sent, spoilt>>

\* The server writes back what it read; the third kind also gives the socket
\* a byte of its own with Send.
Reply ==
    /\ pc = "reply"
    /\ WriteOut(SubSeq(got, Len(written) + 1, Len(got)))
    /\ room' = IF app = "direct" /\ room > 0 THEN room - 1 ELSE room
    /\ pc' = "write"
    /\ UNCHANGED <<app, attached, curEv, unread, rbuf, peer, taken, got, sent>>

\* Handle turns to the write part, also when the read part cancelled.
HandleWriteDue == pc = "write" \/ (pc = "handle" /\ "R" \notin curEv)

Handled == pc' = "wait" /\ curEv' = {} /\ unread' = 0

NothingToWrite ==
    /\ HandleWriteDue /\ ("W" \notin curEv \/ wbuf.size = 0)
    /\ Handled
    /\ UNCHANGED <<app, attached, mask, pending, rbuf, wbuf, peer, taken, room, got,
                   written, sent, spoilt>>

\* Mutant: the interest in writing goes whatever is left.
HandleWrite_AlwaysDisable ==
    LET out == ReadAreas(wbuf)
        n   == Lesser(room, Len(out))
    IN  /\ HandleWriteDue /\ "W" \in curEv /\ wbuf.size > 0 /\ room > 0
        /\ wbuf' = MoveReadPos(wbuf, n)
        /\ room' = room - n
        /\ sent' = sent \o SubSeq(out, 1, n)
        /\ Modify(mask \ {"W"}, taken, room - n)
        /\ Handled
        /\ UNCHANGED <<app, attached, rbuf, peer, taken, got, written, spoilt>>

\* writev, then the interest in writing is dropped with the last byte.
HandleWrite ==
    LET out == ReadAreas(wbuf)
        n   == Lesser(room, Len(out))
    IN  /\ HandleWriteDue /\ "W" \in curEv /\ wbuf.size > 0 /\ room > 0
        /\ wbuf' = MoveReadPos(wbuf, n)
        /\ room' = room - n
        /\ sent' = sent \o SubSeq(out, 1, n)
        /\ Modify(IF wbuf'.size = 0 THEN mask \ {"W"} ELSE mask \cup {"W"},
                  taken, room - n)
        /\ Handled
        /\ UNCHANGED <<app, attached, rbuf, peer, taken, got, written, spoilt>>

\* EAGAIN: -1 goes into MoveReadPos(uint32), which drops all that is unsent.
HandleWriteAgain ==
    /\ HandleWriteDue /\ "W" \in curEv /\ wbuf.size > 0 /\ room = 0
    /\ wbuf' = MoveReadPos(wbuf, wbuf.size)
    /\ spoilt' = TRUE
    /\ Modify(mask \ {"W"}, taken, room)
    /\ Handled
    /\ UNCHANGED <<app, attached, rbuf, peer, taken, room, got, written, sent>>

----------------------------------------------------------------------------

\* The server's connecter is accepted and registered, which reports that it
\* can be written; the client's is registered and not yet connected.
Init ==
    /\ app \in {"echo", "client", "direct"}
    /\ attached = TRUE /\ mask = {"R", "W"} /\ pending = TRUE
    /\ pc = IF app = "client" THEN "connect" ELSE "wait"
    /\ curEv = {} /\ unread = 0
    /\ rbuf = EmptyBuffer /\ wbuf = EmptyBuffer
    /\ arrived = 0 /\ taken = 0 /\ eof = FALSE /\ room = Space
    /\ got = <<>> /\ written = <<>> /\ sent = <<>> /\ spoilt = FALSE

Loop == \/ \E n \in FirstWrites : Connect(n)
        \/ ConnectFails
        \/ Report \/ AskUnread \/ Readv \/ ReadvEof \/ ReadCb \/ Reply
        \/ NothingToWrite \/ HandleWrite \/ HandleWriteAgain

Peer == \/ \E n \in 1..MaxBytes : Arrive(n)
        \/ PeerCloses
        \/ \E n \in 1..Space : PeerReads(n)

Next == Loop \/ Peer

\* The loop thread keeps running; nothing is asked of the peer.
Spec == Init /\ [][Next]_vars /\ WF_vars(Loop)

----------------------------------------------------------------------------
(* Properties.                                                             *)

\* The space a Buffer says it has left is what its nodes have.
Used(b) == {p \in (DOMAIN b.nodes) \X (1..Cap) : p[2] <= b.nodes[p[1]].use}
BufferOK(b) == b \in Buffers /\ b.size = Cardinality(Used(b))

TypeOK ==
    /\ app \in {"echo", "client", "direct"}
    /\ {attached, pending, eof, spoilt} \subseteq BOOLEAN
    /\ mask \subseteq {"R", "W"} /\ curEv \subseteq {"R", "W"}
    /\ pc \in {"connect", "wait", "handle", "readv", "readcb", "reply", "write"}
    /\ {unread, arrived, taken, room} \subseteq Nat

\* The read callback gets the peer's bytes once each and in order, whatever
\* the nodes they went through (GetWriteBuffer, MoveWritePos, ReadBuffer); and
\* as long as every write fitted behind the bytes of its node and nothing was
\* dropped, what the socket was given and what is still buffered are exactly
\* the bytes handed to WriteBuffer, and no node is read beyond its end.
BytesInOrder ==
    /\ BufferOK(rbuf) /\ BufferOK(wbuf)
    /\ taken <= arrived
    /\ got \o ReadBuffer(rbuf, rbuf.size) = [i \in 1..taken |-> i]
    /\ ~spoilt =>
          /\ sent \o ReadBuffer(wbuf, wbuf.size) = written
          /\ \A i \in DOMAIN wbuf.nodes :
                wbuf.nodes[i].rc + wbuf.nodes[i].use <= Cap

\* Event.h: WriteBuffer writes the bytes it is given into the internal buffer,
\* from which the next frame writes them into the socket.
SentInOrder == IsPrefix(sent, written)

\* A peer that goes on reading gets everything the connecter has buffered.
EverythingSent ==
    []<>(room > 0) =>
        []((attached /\ wbuf.size > 0) => <>(~attached \/ wbuf.size = 0))

\* The server notices that the peer has closed, also when the edge of the FIN
\* was spent on bytes that were read with it: its echo renews the interest.
CloseNoticed == (app # "client" /\ eof) ~> ~attached
=============================================================================
