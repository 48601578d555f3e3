----------------------------- MODULE IocpAccept -----------------------------
(***************************************************************************)
(* src/common/net/Event.cpp, Listener as it is built for Windows: a fixed  *)
(* array of ACCEPT_OVERLAPPEDs, each posted with AcceptEx, completed by a  *)
(* worker thread of the IOCP, queued in m_acceptedq, and posted again by   *)
(* the loop thread.  The array is shared by the listener and by the        *)
(* operations that are out: *refcnt counts these, and who brings it to     *)
(* zero after ~Listener frees the array.                                   *)
(***************************************************************************)
EXTENDS Integers, Sequences, FiniteSets

CONSTANTS
    Slots,        \* indices of the array: 1 .. INIT_ASYNACCEPTING
    MaxArriving,  \* bound: connections that arrive
    MaxFailures   \* bound: calls and operations that fail

ASSUME AcceptAssumption ==
    Slots \in Nat \ {0} /\ {MaxArriving, MaxFailures} \subseteq Nat

VARIABLES
    posting,    \* the slot StartAsynAccept posts next, beyond Slots when done
    out,        \* slot -> operations with Windows
    packets,    \* slot -> the packets of the completion port, <<ok>> each
    refcnt,     \* *m_overlappedsRefCnt
    acceptedq,  \* m_acceptedq
    events,     \* the EV_IOREADs that wait for the loop
    cancelled,  \* EV_CANCEL is pushed and m_pCentre is NULL
    doomed,     \* slots with eventDestroy set
    memory,     \* the array: "held", "shared" after ~Listener, or "freed"
    backlog,    \* connections that wait to be accepted
    accepted,   \* calls of the listener's callback
    arrived,
    failures,
    atOnce      \* history: an AcceptEx has completed at once

acceptVars == <<posting, out, packets, refcnt, acceptedq, events, cancelled,
                doomed, memory, backlog, accepted, arrived, failures, atOnce>>

AcceptInit ==
    /\ posting = 1
    /\ out = [s \in 1 .. Slots |-> 0]
    /\ packets = [s \in 1 .. Slots |-> <<>>]
    /\ refcnt = 0 /\ acceptedq = <<>> /\ events = 0
    /\ cancelled = FALSE /\ doomed = {} /\ memory = "held"
    /\ backlog = 0 /\ accepted = 0 /\ arrived = 0 /\ failures = 0
    /\ atOnce = FALSE

Outstanding(s) == out[s] + Len(packets[s])

----------------------------------------------------------------------------
(* AsynAccept and AcceptComplete.                                          *)

\* PushEventToCentre(EV_IOREAD).
PushRead(n) == IF cancelled THEN n ELSE n + 1

\* AcceptEx is pending.
AcceptPending(s) ==
    /\ out' = [out EXCEPT ![s] = @ + 1]
    /\ refcnt' = refcnt + 1
    /\ UNCHANGED <<packets, accepted, backlog, failures, atOnce>>

\* AcceptEx has taken a connection that waited: AsynAccept completes it by
\* hand, and the packet of the operation comes to the port all the same.
AcceptAtOnce(s) ==
    /\ backlog > 0
    /\ backlog' = backlog - 1
    /\ packets' = [packets EXCEPT ![s] = Append(@, TRUE)]
    /\ atOnce' = TRUE
    /\ UNCHANGED <<out, refcnt>>

\* getsockname, getsockopt, AcceptEx, or setsockopt of AcceptComplete, fails.
CallFails ==
    /\ failures < MaxFailures
    /\ failures' = failures + 1
    /\ UNCHANGED accepted

\* AsynAccept of slot s that returns 0, which leaves q in m_acceptedq and n
\* events.  AcceptComplete, called by hand, may fail without saying so.
AcceptPosted(s, q, n) ==
    \/ AcceptPending(s) /\ acceptedq' = q /\ events' = n
    \/ /\ AcceptAtOnce(s)
       /\ accepted' = accepted + 1 /\ UNCHANGED failures
       /\ acceptedq' = Append(q, s) /\ events' = PushRead(n)
    \/ AcceptAtOnce(s) /\ CallFails /\ acceptedq' = q /\ events' = n

\* AsynAccept that returns an error.
AcceptFails(q, n) ==
    /\ CallFails /\ acceptedq' = q /\ events' = n
    /\ UNCHANGED <<out, packets, refcnt, backlog, atOnce>>

AsynAccept(s, q, n) == AcceptPosted(s, q, n) \/ AcceptFails(q, n)

\* RegisterCallback, Listen and one turn of the loop in StartAsynAccept.  The
\* server's listener has no error callback: a failure cancels it.
StartAsynAccept ==
    /\ posting \in 1 .. Slots
    /\ \/ /\ AcceptPosted(posting, acceptedq, events)
          /\ posting' = posting + 1 /\ UNCHANGED cancelled
       \/ /\ AcceptFails(acceptedq, events)
          /\ posting' = Slots + 1 /\ cancelled' = TRUE
    /\ UNCHANGED <<doomed, memory, arrived>>

\* Mutant: the loop is not told of the slot.
Queued_Silent(s) == acceptedq' = Append(acceptedq, s) /\ UNCHANGED events

\* AcceptComplete of a good operation: the slot waits for the loop.
Queued(s) == acceptedq' = Append(acceptedq, s) /\ events' = PushRead(events)

\* Mutant: the completion that finds eventDestroy set frees the array.
LastOut_Any == TRUE

LastOut == refcnt' = 0

AcceptComplete(s) ==
    /\ posting > Slots /\ packets[s] # <<>>
    /\ packets' = [packets EXCEPT ![s] = Tail(@)]
    /\ refcnt' = refcnt - 1
    /\ IF s \in doomed
       THEN /\ memory' = IF LastOut THEN "freed" ELSE memory
            /\ UNCHANGED <<acceptedq, events, accepted, failures>>
       ELSE /\ UNCHANGED memory
            /\ \/ /\ Head(packets[s])
                  /\ Queued(s) /\ accepted' = accepted + 1
                  /\ UNCHANGED failures
               \/ /\ ~Head(packets[s]) \/ failures < MaxFailures
                  /\ failures' = IF Head(packets[s]) THEN failures + 1 ELSE failures
                  /\ UNCHANGED <<acceptedq, events, accepted>>
    /\ UNCHANGED <<posting, out, cancelled, doomed, backlog, arrived, atOnce>>

----------------------------------------------------------------------------
(* The loop thread.                                                        *)

\* Listener::Handle: one slot for one EV_IOREAD.
HandleAccept ==
    /\ posting > Slots /\ events > 0 /\ ~cancelled
    /\ IF acceptedq = <<>>
       THEN /\ events' = events - 1
            /\ UNCHANGED <<out, packets, refcnt, acceptedq, backlog, accepted,
                           failures, atOnce>>
       ELSE AsynAccept(Head(acceptedq), Tail(acceptedq), events - 1)
    /\ UNCHANGED <<posting, cancelled, doomed, memory, arrived>>

\* EV_CANCEL: DeleteEvent and ~Listener.  Only a listener whose start has
\* failed is cancelled, and with an EV_IOREAD before it the cancellation is
\* lost (see EventCentre).  ~Listener marks the slots that are not queued and
\* have a socket; one that was never posted has no packet to find its mark.
DestroyListener ==
    /\ posting > Slots /\ cancelled /\ events = 0 /\ memory = "held"
    /\ doomed' = {s \in 1 .. Slots : \A i \in DOMAIN acceptedq : acceptedq[i] # s}
    /\ acceptedq' = <<>>
    /\ memory' = "shared"
    /\ UNCHANGED <<posting, out, packets, refcnt, events, cancelled, backlog,
                   accepted, arrived, failures, atOnce>>

----------------------------------------------------------------------------
(* Windows and the peers.                                                  *)

Arrive ==
    /\ arrived < MaxArriving /\ ~cancelled
    /\ arrived' = arrived + 1 /\ backlog' = backlog + 1
    /\ UNCHANGED <<posting, out, packets, refcnt, acceptedq, events, cancelled,
                   doomed, memory, accepted, failures, atOnce>>

\* An operation takes a connection.
Connected(s) ==
    /\ out[s] > 0 /\ backlog > 0 /\ memory = "held"
    /\ backlog' = backlog - 1
    /\ out' = [out EXCEPT ![s] = @ - 1]
    /\ packets' = [packets EXCEPT ![s] = Append(@, TRUE)]
    /\ UNCHANGED <<posting, refcnt, acceptedq, events, cancelled, doomed,
                   memory, accepted, arrived, failures, atOnce>>

\* An operation fails: its connection was reset, or the sockets are closed.
Aborted(s) ==
    /\ out[s] > 0
    /\ \/ memory # "held" /\ UNCHANGED failures
       \/ failures < MaxFailures /\ failures' = failures + 1
    /\ out' = [out EXCEPT ![s] = @ - 1]
    /\ packets' = [packets EXCEPT ![s] = Append(@, FALSE)]
    /\ UNCHANGED <<posting, refcnt, acceptedq, events, cancelled, doomed,
                   memory, backlog, accepted, arrived, atOnce>>

----------------------------------------------------------------------------
Completions == \E s \in 1 .. Slots : AcceptComplete(s)
Connection == \E s \in 1 .. Slots : Connected(s)
Abortion == memory # "held" /\ \E s \in 1 .. Slots : Aborted(s)

AcceptNext ==
    \/ StartAsynAccept \/ HandleAccept \/ DestroyListener \/ Arrive
    \/ Completions
    \/ \E s \in 1 .. Slots : Connected(s) \/ Aborted(s)

----------------------------------------------------------------------------
(* Properties.                                                             *)

\* As long as no AcceptEx has completed at once, every slot is in one place,
\* *refcnt is the number of operations that are out, and the array is not
\* freed under one of them.  An AcceptEx that completes at once breaks all
\* three: its slot is queued twice and the count runs short.
SlotsTracked ==
    ~atOnce =>
        /\ refcnt = Cardinality({s \in 1 .. Slots : Outstanding(s) > 0})
        /\ \A s \in 1 .. Slots :
             Outstanding(s) + Cardinality({i \in DOMAIN acceptedq :
                                             acceptedq[i] = s}) <= 1
        /\ memory = "freed" => refcnt = 0

\* A connection that waits is accepted in the end: a slot that has served
\* one is posted again, until failures have used the slots up.
KeepsAccepting ==
    backlog > 0 ~> (backlog = 0 \/ cancelled \/ failures >= Slots)

=============================================================================
