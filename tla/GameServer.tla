----------------------------- MODULE GameServer -----------------------------
(***************************************************************************)
(* src/servers/gamesvr/main.cpp: the program that composes the framework.  *)
(* A Listener lives in a centre of the EventCentrePool; its thread L       *)
(* accepts and runs ListenCb, which registers a Connecter in m_centre and  *)
(* then enters its descriptor in m_clients.  The main thread M runs the    *)
(* loop of m_centre and the callbacks of the Connecters, which look their  *)
(* descriptor up in m_clients and take it out.  Nothing guards m_clients,  *)
(* and the loop fills its batch of events without m_centre's mutex.        *)
(*                                                                         *)
(* A descriptor is closed, and may be given out again, when the last       *)
(* shared_ptr to its Connecter goes: that of m_events, or that of ListenCb.*)
(* What a Connecter does byte by byte is in module Connecter; here a send  *)
(* takes all there is, and a socket has room.                              *)
(***************************************************************************)
EXTENDS Naturals, Sequences

CONSTANTS
    Conns,     \* connections peers make, each once
    Limits,    \* numbers of descriptors the process may have for them
    MaxSends,  \* bound: messages of each peer
    None       \* nobody, no connection, no descriptor

ASSUME ServerAssumption ==
    /\ None \notin Conns \cup Nat
    /\ Limits \subseteq Nat /\ MaxSends \in Nat

VARIABLES
    limit,      \* RLIMIT_NOFILE, less what the server has open otherwise
    listening,  \* "no", "created", "yes" or "failed"
    backlog,    \* connections that wait to be accepted
    edge,       \* the Listener's descriptor is in the ready list of its epoll
    lpc,        \* where L is
    lconn,      \* newconn of ListenCb
    fd,         \* the descriptor of each connection
    lock,       \* owner of m_centre's m_mutex
    events,     \* m_events of m_centre's poller
    centre,     \* connections whose m_pCentre is set
    pending,    \* connections in the ready list of m_centre's epoll
    writes,     \* connections with EV_IOWRITE in m_ev
    mpc,        \* where M is
    cancels,    \* m_activeEvs, the part with EV_CANCEL, which is in front
    active,     \* m_activeEvs, the rest: what is to be handled of each
    half,       \* the connection whose Handle has done its read part
    waiting,    \* m_waittingEvs
    unread,     \* messages in each socket
    eof,        \* connections whose peer has closed
    output,     \* connections with something in m_pWriteBuffer
    clients,    \* the descriptors in m_clients
    ub,         \* history: the connection whose callback broke m_clients
    missed,     \* history: connections an event of which was dropped
    full,       \* history: an accept failed
    late        \* history: descriptors entered after their connection's end

Fds == 1..limit

lVars == <<limit, listening, backlog, edge, lpc, lconn, full>>
mVars == <<mpc, cancels, active, half, waiting>>
epVars == <<events, pending, writes>>
sockVars == <<unread, eof, output>>
mapVars == <<clients, late, ub>>
vars == <<lVars, fd, lock, centre, epVars, mVars, sockVars, mapVars, missed>>

Init ==
    /\ limit \in Limits
    /\ listening = "no" /\ backlog = <<>> /\ edge = FALSE
    /\ lpc = "idle" /\ lconn = None /\ full = FALSE
    /\ fd = [c \in Conns |-> None]
    /\ lock = None /\ centre = {}
    /\ events = [f \in Fds |-> None] /\ pending = {} /\ writes = {}
    /\ mpc = "launch" /\ cancels = {} /\ half = None /\ waiting = {}
    /\ active = [c \in Conns |-> {}]
    /\ unread = [c \in Conns |-> 0] /\ eof = {} /\ output = {}
    /\ clients = {} /\ late = {} /\ ub = None /\ missed = {}

Free == {f \in Fds : \A c \in Conns : fd[c] # f}
Polled(c) == fd[c] # None /\ events[fd[c]] = c

----------------------------------------------------------------------------
(* Starting, and the peers.                                                *)

\* What CreateListener gives: NULL when the socket or one of its options fails.
CreateListener == {"created", "failed"}

\* What Listen comes to: binding and listening, each of which may fail.
Listen == {"yes", "failed"}

\* Without a listener the server returns before it enters a loop.
Start ==
    /\ listening = "no"
    /\ listening' \in CreateListener
    /\ UNCHANGED <<limit, backlog, edge, lpc, lconn, full, fd, lock, centre, epVars,
                   mVars, sockVars, mapVars, missed>>

\* The pool's callback registers the listener, whose RegisterCallback listens;
\* when that fails the event is cancelled and the server runs without it.
RegisterListener ==
    /\ listening = "created"
    /\ listening' \in Listen
    /\ UNCHANGED <<limit, backlog, edge, lpc, lconn, full, fd, lock, centre, epVars,
                   mVars, sockVars, mapVars, missed>>

Waits(c) == \E i \in DOMAIN backlog : backlog[i] = c
Fresh(c) == ~Waits(c) /\ fd[c] = None /\ unread[c] = 0 /\ c \notin eof

PeerConnects(c) ==
    /\ listening = "yes" /\ Fresh(c)
    /\ backlog' = Append(backlog, c) /\ edge' = TRUE
    /\ UNCHANGED <<limit, listening, lpc, lconn, full, fd, lock, centre, epVars, mVars,
                   sockVars, mapVars, missed>>

Connected(c) == Waits(c) \/ fd[c] # None

PeerSends(c) ==
    /\ Connected(c) /\ c \notin eof /\ unread[c] < MaxSends
    /\ unread' = [unread EXCEPT ![c] = @ + 1]
    /\ pending' = IF Polled(c) THEN pending \cup {c} ELSE pending
    /\ UNCHANGED <<lVars, fd, lock, centre, events, writes, mVars, eof, output,
                   mapVars, missed>>

PeerCloses(c) ==
    /\ Connected(c) /\ c \notin eof
    /\ eof' = eof \cup {c}
    /\ pending' = IF Polled(c) THEN pending \cup {c} ELSE pending
    /\ UNCHANGED <<lVars, fd, lock, centre, events, writes, mVars, unread, output,
                   mapVars, missed>>

----------------------------------------------------------------------------
(* L: Listener::Handle and ListenCb.                                       *)

LWake ==
    /\ lpc = "idle" /\ edge
    /\ edge' = FALSE /\ lpc' = "accept"
    /\ UNCHANGED <<limit, listening, backlog, lconn, full, fd, lock, centre, epVars,
                   mVars, sockVars, mapVars, missed>>

\* Nothing to accept (EAGAIN), or no descriptor to be had (EMFILE): either
\* ends the loop of Handle, and epoll reports only what comes after.
LStops ==
    /\ lpc = "accept" /\ (backlog = <<>> \/ Free = {})
    /\ full' = (full \/ backlog # <<>>)
    /\ lpc' = "idle"
    /\ UNCHANGED <<limit, listening, backlog, edge, lconn, fd, lock, centre, epVars,
                   mVars, sockVars, mapVars, missed>>

\* accept4 gives the lowest free descriptor.
LAccept ==
    /\ lpc = "accept" /\ backlog # <<>> /\ Free # {}
    /\ lconn' = Head(backlog) /\ backlog' = Tail(backlog)
    /\ fd' = [fd EXCEPT ![lconn'] = CHOOSE f \in Free : \A g \in Free : f <= g]
    /\ lpc' = "add"
    /\ UNCHANGED <<limit, listening, edge, full, lock, centre, epVars, mVars, sockVars,
                   mapVars, missed>>

\* RegisterEvent takes the mutex and adds the descriptor to epoll, for reading
\* and writing; the new socket can be written, so that it is ready at once.  A
\* descriptor that m_events still had would be refused.
LAdd ==
    /\ lpc = "add" /\ lock = None
    /\ IF events[fd[lconn]] = None
       THEN /\ lock' = "L" /\ lpc' = "center"
            /\ events' = [events EXCEPT ![fd[lconn]] = lconn]
            /\ writes' = writes \cup {lconn}
            /\ pending' = pending \cup {lconn}
       ELSE lpc' = "find" /\ UNCHANGED <<lock, epVars>>
    /\ UNCHANGED <<limit, listening, backlog, edge, lconn, full, fd, centre, mVars,
                   sockVars, mapVars, missed>>

\* ... and only then sets the centre.
LSetCenter ==
    /\ lpc = "center"
    /\ centre' = centre \cup {lconn}
    /\ lock' = None
    /\ lpc' = "find"
    /\ UNCHANGED <<limit, listening, backlog, edge, lconn, full, fd, epVars, mVars,
                   sockVars, mapVars, missed>>

\* Mutant: one connection is accepted for each event.
Return_Idle ==
    /\ lpc' = "idle" /\ lconn' = None
    /\ fd' = IF Polled(lconn) THEN fd ELSE [fd EXCEPT ![lconn] = None]
    /\ UNCHANGED <<limit, listening, backlog, edge, full, lock, centre, epVars, mVars,
                   sockVars, missed>>

\* End of ListenCb: its shared_ptr goes, and with it a connection that M has
\* meanwhile deleted.
Return ==
    /\ lpc' = "accept" /\ lconn' = None
    /\ fd' = IF Polled(lconn) THEN fd ELSE [fd EXCEPT ![lconn] = None]
    /\ UNCHANGED <<limit, listening, backlog, edge, full, lock, centre, epVars, mVars,
                   sockVars, missed>>

LFinds ==
    /\ lpc = "find" /\ fd[lconn] \in clients
    /\ Return
    /\ UNCHANGED mapVars

LFindsNone ==
    /\ lpc = "find" /\ fd[lconn] \notin clients
    /\ lpc' = "insert"
    /\ UNCHANGED <<limit, listening, backlog, edge, lconn, full, fd, lock, centre, epVars,
                   mVars, sockVars, mapVars, missed>>

LInsert ==
    /\ lpc = "insert"
    /\ clients' = clients \cup {fd[lconn]}
    /\ late' = IF lconn \in centre THEN late ELSE late \cup {fd[lconn]}
    /\ Return
    /\ UNCHANGED ub

----------------------------------------------------------------------------
(* M: the loop of m_centre.                                                *)

Ready(c) == (IF unread[c] > 0 \/ c \in eof THEN {"R"} ELSE {})
            \cup (IF c \in writes THEN {"W"} ELSE {})

Reported == {c \in pending : Ready(c) # {}}

\* Epoll::Launch and PushActiveEvent, without the mutex: what has no centre
\* yet, or no longer, is dropped, and its edge with it.
Launch ==
    /\ mpc = "launch" /\ (cancels # {} \/ Reported # {})
    /\ active' = [c \in Conns |-> IF c \in Reported \cap centre THEN Ready(c)
                                                                ELSE {}]
    /\ pending' = {}
    /\ missed' = missed \cup ((Reported \ centre) \ cancels)
    /\ mpc' = "lock"
    /\ UNCHANGED <<lVars, fd, lock, centre, events, writes, cancels, half, waiting,
                   sockVars, mapVars>>

\* ProcessActiveEvent holds the mutex over the whole batch.
MLock ==
    /\ mpc = "lock" /\ lock = None
    /\ lock' = "M" /\ mpc' = "process"
    /\ UNCHANGED <<lVars, fd, centre, epVars, cancels, active, half, waiting,
                   sockVars, mapVars, missed>>

\* DeleteEvent: m_events lets go of the connection.
MDelete(c) ==
    /\ mpc = "process" /\ c \in cancels
    /\ cancels' = cancels \ {c}
    /\ events' = [events EXCEPT ![fd[c]] = None]
    /\ pending' = pending \ {c} /\ writes' = writes \ {c}
    /\ fd' = IF c = lconn THEN fd ELSE [fd EXCEPT ![c] = None]
    /\ output' = output \ {c}
    /\ UNCHANGED <<lVars, lock, centre, mpc, active, half, waiting, unread, eof,
                   mapVars, missed>>

\* M uses m_clients while L inserts: a data race, from which anything may come.
Race(c) == lpc = "insert" /\ ub' = c

\* ReadCb and WriteCb use what m_clients.find gave them, whatever it was.
LookUp(c) ==
    /\ \/ ub' = IF fd[c] \in clients THEN None ELSE c
       \/ Race(c)
    /\ UNCHANGED <<clients, late>>

\* Mutant: the client stays in m_clients.
EventCb_Keeps(c) ==
    /\ UNCHANGED <<clients, late>>
    /\ ub' = None \/ Race(c)
    /\ centre' = centre \ {c}
    /\ waiting' = IF c \in centre THEN waiting \cup {c} ELSE waiting

\* Mutant: the event is not cancelled.
EventCb_NoCancel(c) ==
    /\ clients' = clients \ {fd[c]} /\ late' = late \ {fd[c]}
    /\ ub' = None \/ Race(c)
    /\ UNCHANGED <<centre, waiting>>

\* The error callback: the client goes and the event is cancelled, which a
\* connection that has no centre any more ignores.
EventCb(c) ==
    /\ clients' = clients \ {fd[c]} /\ late' = late \ {fd[c]}
    /\ ub' = None \/ Race(c)
    /\ centre' = centre \ {c}
    /\ waiting' = IF c \in centre THEN waiting \cup {c} ELSE waiting

InTurn(c) == mpc = "process" /\ cancels = {} /\ half \in {None, c}

\* Mutant: the interest is not renewed.
ReadCb_NoEnable(c) ==
    /\ LookUp(c)
    /\ output' = output \cup {c}
    /\ UNCHANGED <<centre, waiting, writes, pending>>

\* ReadCb echoes: WriteBuffer renews the interest, so that epoll looks again.
ReadCb(c) ==
    /\ LookUp(c)
    /\ output' = output \cup {c}
    /\ writes' = writes \cup {c} /\ pending' = pending \cup {c}
    /\ UNCHANGED <<centre, waiting>>

\* Connecter::HandleRead: all there is, or the end of it.
HandleRead(c) ==
    /\ InTurn(c) /\ "R" \in active[c]
    /\ active' = [active EXCEPT ![c] = @ \ {"R"}]
    /\ half' = IF "W" \in active[c] THEN c ELSE None
    /\ IF unread[c] > 0
       THEN ReadCb(c) /\ unread' = [unread EXCEPT ![c] = 0]
       ELSE EventCb(c) /\ UNCHANGED <<unread, output, writes, pending>>
    /\ UNCHANGED <<lVars, fd, lock, events, mpc, cancels, eof, missed>>

\* Connecter::HandleWrite runs also after a read part that has cancelled the
\* event; a send to a peer that has gone may fail.
HandleWrite(c) ==
    /\ InTurn(c) /\ active[c] = {"W"}
    /\ active' = [active EXCEPT ![c] = {}]
    /\ half' = None
    /\ \/ /\ c \notin output
          /\ UNCHANGED <<output, writes, pending, centre, waiting, mapVars>>
       \/ /\ c \in output
          /\ output' = output \ {c}
          /\ writes' = IF c \in centre THEN writes \ {c} ELSE writes
          /\ pending' = IF c \in centre /\ (unread[c] > 0 \/ c \in eof)
                        THEN pending \cup {c} ELSE pending
          /\ LookUp(c)
          /\ UNCHANGED <<centre, waiting>>
       \/ /\ c \in output /\ c \in eof
          /\ EventCb(c)
          /\ UNCHANGED <<output, writes, pending>>
    /\ UNCHANGED <<lVars, fd, lock, events, mpc, cancels, unread, eof, missed>>

\* End of ProcessActiveEvent, and MakeWaittingToActive of the next round.
NextRound ==
    /\ mpc = "process" /\ cancels = {} /\ \A c \in Conns : active[c] = {}
    /\ lock' = None /\ mpc' = "launch"
    /\ cancels' = waiting /\ waiting' = {}
    /\ UNCHANGED <<lVars, fd, centre, epVars, active, half, sockVars, mapVars,
                   missed>>

----------------------------------------------------------------------------
LStep == \/ LWake \/ LStops \/ LAccept \/ LSetCenter
         \/ LFinds \/ LFindsNone \/ LInsert
MStep == \/ Launch \/ NextRound
         \/ \E c \in Conns : MDelete(c) \/ HandleRead(c) \/ HandleWrite(c)

Alive == ub = None

Next ==
    /\ Alive
    /\ \/ Start \/ RegisterListener
       \/ \E c \in Conns : PeerConnects(c) \/ PeerSends(c) \/ PeerCloses(c)
       \/ LStep \/ LAdd
       \/ MStep \/ MLock

Spec == Init /\ [][Next]_vars

\* Both threads are scheduled, and a mutex is had in the end.  Peers do what
\* they like.
FairSpec ==
    /\ Spec
    /\ WF_vars(Alive /\ LStep) /\ SF_vars(Alive /\ LAdd)
    /\ WF_vars(Alive /\ MStep) /\ SF_vars(Alive /\ MLock)

----------------------------------------------------------------------------
(* Properties.                                                             *)

TypeOK ==
    /\ limit \in Limits
    /\ listening \in {"no", "created", "yes", "failed"} /\ {edge, full} \subseteq BOOLEAN
    /\ backlog \in Seq(Conns)
    /\ lpc \in {"idle", "accept", "add", "center", "find", "insert"}
    /\ {lconn, ub, half} \subseteq Conns \cup {None}
    /\ fd \in [Conns -> Fds \cup {None}] /\ events \in [Fds -> Conns \cup {None}]
    /\ lock \in {"L", "M", None}
    /\ centre \cup pending \cup writes \cup cancels \cup waiting \cup eof
         \cup output \cup missed \subseteq Conns
    /\ mpc \in {"launch", "lock", "process"}
    /\ active \in [Conns -> SUBSET {"R", "W"}]
    /\ unread \in [Conns -> 0..MaxSends] /\ clients \cup late \subseteq Fds

\* A connection that is served has its client, whatever reuse of descriptors
\* went before; and a client has a connection, unless ListenCb entered it when
\* the callbacks of the main thread had already ended that connection.
ClientsMatch ==
    \A f \in Fds :
        /\ (events[f] \in centre /\ events[f] # lconn) => f \in clients
        /\ f \in clients => f \in late \/ events[f] \in centre

\* The callbacks use a client that is not there only for a connection whose
\* event they have cancelled in the same Handle, or while ListenCb runs.
BrokenOnlyBy ==
    ~Alive => ub \notin centre \/ lpc = "insert" \/ (lpc = "find" /\ lconn = ub)

\* What a peer sent is read and the descriptor of one that has closed is closed
\* in turn, unless an event of the connection came between epoll_ctl and
\* SetCenter and was dropped.
ServedUnlessMissed ==
    \A c \in Conns :
        (c \in centre /\ (unread[c] > 0 \/ c \in eof)) ~>
            \/ fd[c] = None \/ (unread[c] = 0 /\ c \notin eof)
            \/ c \in missed \/ ~Alive

\* Connections are left in the backlog, with no edge that would wake the
\* Listener, only if an accept failed: its error ends the loop of Handle, and
\* the edge of the connections behind it is used up.
StrandedOnlyIfFull ==
    lpc = "idle" /\ ~edge /\ backlog # <<>> => full
=============================================================================
