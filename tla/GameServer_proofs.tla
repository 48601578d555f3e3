-------------------------- MODULE GameServer_proofs --------------------------
(***************************************************************************)
(* m_clients against the connections of m_centre, for any number of        *)
(* connections and descriptors and any order of the accepting thread and   *)
(* the main thread.                                                        *)
(***************************************************************************)
EXTENDS GameServer, WellFoundedInduction, TLAPS

----------------------------------------------------------------------------
(* Free descriptors, and queues without repetition.                        *)

LessPairs == {p \in Nat \X Nat : p[1] < p[2]}

\* A lowest free descriptor exists where any does.
LEMMA Smallest ==
    ASSUME NEW S \in SUBSET Nat, S # {}
    PROVE  \E n \in S : \A m \in S : n <= m
<1>1. IsWellFoundedOn(LessPairs, Nat) BY NatLessThanWellFounded DEF OpToRel, LessPairs
<1>2. PICK n \in S : \A m \in S : ~(<<m, n>> \in LessPairs) BY <1>1, WFMin
<1>3. \A m \in S : ~(m < n) BY <1>2 DEF LessPairs
<1>. QED BY <1>3

Distinct(q) == \A i, j \in DOMAIN q : q[i] = q[j] => i = j
In(q, t) == \E i \in DOMAIN q : q[i] = t

\* A queue without repetition that takes something new at its back.
LEMMA AppendPlaces ==
    ASSUME NEW S, NEW q \in Seq(S), NEW u \in S, Distinct(q), ~In(q, u)
    PROVE  /\ Distinct(Append(q, u))
           /\ \A t : In(Append(q, u), t) <=> t = u \/ In(q, t)
<1>1. /\ Len(q) \in Nat /\ DOMAIN q = 1 .. Len(q)
      /\ DOMAIN Append(q, u) = 1 .. (Len(q) + 1)
      /\ Append(q, u)[Len(q) + 1] = u
      /\ \A i \in 1 .. Len(q) : Append(q, u)[i] = q[i]
  OBVIOUS
<1>. QED BY <1>1 DEF Distinct, In

\* A queue without repetition that loses its front.
LEMMA TailPlaces ==
    ASSUME NEW S, NEW q \in Seq(S), q # <<>>, Distinct(q)
    PROVE  /\ Head(q) \in S /\ In(q, Head(q))
           /\ Distinct(Tail(q))
           /\ \A t : In(Tail(q), t) <=> t # Head(q) /\ In(q, t)
<1>1. /\ Len(q) \in Nat \ {0} /\ DOMAIN q = 1 .. Len(q)
      /\ Head(q) = q[1] /\ q[1] \in S
      /\ DOMAIN Tail(q) = 1 .. (Len(q) - 1)
      /\ \A i \in 1 .. (Len(q) - 1) : Tail(q)[i] = q[i + 1]
  OBVIOUS
<1>2. Distinct(Tail(q))
  <2>. SUFFICES ASSUME NEW i \in DOMAIN Tail(q), NEW j \in DOMAIN Tail(q),
                       Tail(q)[i] = Tail(q)[j]
                PROVE  i = j
    BY DEF Distinct
  <2>1. i + 1 = j + 1 BY <1>1 DEF Distinct
  <2>2. i \in Nat /\ j \in Nat BY <1>1
  <2>. QED BY <2>1, <2>2
<1>3. ASSUME NEW t, In(Tail(q), t) PROVE t # Head(q) /\ In(q, t)
  <2>1. PICK i \in 1 .. (Len(q) - 1) : q[i + 1] = t BY <1>1, <1>3 DEF In
  <2>2. i + 1 \in DOMAIN q /\ i + 1 # 1 /\ 1 \in DOMAIN q BY <1>1, <2>1
  <2>. QED BY <1>1, <2>1, <2>2 DEF In, Distinct
<1>4. ASSUME NEW t, t # Head(q), In(q, t) PROVE In(Tail(q), t)
  <2>1. PICK i \in 1 .. Len(q) : q[i] = t BY <1>1, <1>4 DEF In
  <2>2. i - 1 \in 1 .. (Len(q) - 1) /\ (i - 1) + 1 = i BY <1>1, <1>4, <2>1
  <2>. QED BY <1>1, <2>1, <2>2 DEF In
<1>5. In(q, Head(q)) BY <1>1 DEF In
<1>. QED BY <1>1, <1>2, <1>3, <1>4, <1>5

----------------------------------------------------------------------------

\* A connection is left in the backlog, without an edge, only after an accept
\* that failed (Listener::Handle).
THEOREM NoneStranded == Spec => []StrandedOnlyIfFull
<1>1. Init => StrandedOnlyIfFull BY DEF Init, StrandedOnlyIfFull
<1>2. StrandedOnlyIfFull /\ [Next]_vars => StrandedOnlyIfFull'
  <2>. SUFFICES ASSUME StrandedOnlyIfFull, [Next]_vars PROVE StrandedOnlyIfFull'
    OBVIOUS
  <2>. USE DEF StrandedOnlyIfFull, lVars
  <2>1. CASE Start \/ RegisterListener BY <2>1 DEF Start, RegisterListener
  <2>2. ASSUME NEW c \in Conns, PeerConnects(c) \/ PeerSends(c) \/ PeerCloses(c)
        PROVE  StrandedOnlyIfFull'
    BY <2>2 DEF PeerConnects, PeerSends, PeerCloses
  <2>3. CASE LStep \/ LAdd
    BY <2>3 DEF LStep, LAdd, LWake, LStops, LAccept, LSetCenter, LFinds, LFindsNone,
                LInsert, Return
  <2>4. CASE MStep \/ MLock
    BY <2>4 DEF MStep, MLock, Launch, NextRound, MDelete, HandleRead, HandleWrite
  <2>5. CASE UNCHANGED vars BY <2>5 DEF vars
  <2>. QED BY <2>1, <2>2, <2>3, <2>4, <2>5 DEF Next
<1>. QED BY <1>1, <1>2, PTL DEF Spec

----------------------------------------------------------------------------
(* The invariant.                                                          *)

MapTypeOK ==
    /\ limit \in Nat
    /\ backlog \in Seq(Conns) /\ lconn \in Conns \cup {None}
    /\ lpc \in {"idle", "accept", "add", "center", "find", "insert"}
    /\ fd \in [Conns -> Fds \cup {None}] /\ events \in [Fds -> Conns \cup {None}]
    /\ centre \subseteq Conns /\ cancels \subseteq Conns /\ waiting \subseteq Conns
    /\ active \in [Conns -> SUBSET {"R", "W"}]
    /\ clients \subseteq Fds /\ late \subseteq Fds
    /\ ub \in Conns \cup {None}

\* No two connections have one descriptor, and one that m_events holds is
\* open.
Descriptors ==
    /\ \A c, d \in Conns : fd[c] = fd[d] /\ fd[c] # None => c = d
    /\ \A f \in Fds : events[f] # None => fd[events[f]] = f

\* Where L is with its connection.
Accepting ==
    /\ lpc \in {"idle", "accept"} <=> lconn = None
    /\ lconn # None => fd[lconn] # None
    /\ lpc = "add" => ~Polled(lconn)
    /\ lpc = "center" => Polled(lconn) /\ lconn \notin centre \cup cancels \cup waiting
    /\ Distinct(backlog) /\ \A c \in Conns : In(backlog, c) => fd[c] = None

\* A connection the centre deals with is in m_events, and is served or on its
\* way out, not both.
Dealt ==
    /\ \A c \in centre \cup cancels \cup waiting : Polled(c)
    /\ centre \cap (cancels \cup waiting) = {}
    /\ cancels \cap waiting = {}
    /\ \A c \in Conns : active[c] # {} => Polled(c) /\ c \notin cancels

MapInv == MapTypeOK /\ Descriptors /\ Accepting /\ Dealt /\ ClientsMatch

LEMMA InitMapInv == Init => MapInv
<1>. SUFFICES ASSUME Init PROVE MapInv
  OBVIOUS
<1>. USE ServerAssumption DEF Init, Fds
<1>1. MapTypeOK BY DEF MapTypeOK
<1>2. Descriptors BY DEF Descriptors
<1>3. Accepting
  <2>1. DOMAIN backlog = {} BY DEF Init
  <2>. QED BY <2>1 DEF Accepting, Distinct, In
<1>4. Dealt BY DEF Dealt
<1>5. ClientsMatch BY DEF ClientsMatch
<1>. QED BY <1>1, <1>2, <1>3, <1>4, <1>5 DEF MapInv

\* A step that touches neither descriptors nor m_clients nor the lists.
LEMMA OtherStep ==
    ASSUME MapInv,
           UNCHANGED <<limit, backlog, lpc, lconn, fd, events, centre, cancels,
                       waiting, active, clients, late, ub>>
    PROVE  MapInv'
BY DEF MapInv, MapTypeOK, Descriptors, Accepting, Dealt, ClientsMatch, Fds, Polled

\* The descriptor of a connection that is not yet in m_events is in nobody's
\* use.
LEMMA FreshConnection ==
    ASSUME MapInv, NEW c \in Conns, fd[c] = None
    PROVE  /\ c \notin centre \cup cancels \cup waiting /\ active[c] = {}
           /\ \A f \in Fds : events[f] # c
BY ServerAssumption DEF MapInv, MapTypeOK, Descriptors, Dealt, Polled, Fds

LEMMA ConnectStep ==
    ASSUME MapInv, NEW c \in Conns, PeerConnects(c)
    PROVE  MapInv'
<1>. USE DEF MapInv
<1>1. /\ fd[c] = None /\ ~In(backlog, c) /\ backlog' = Append(backlog, c)
      /\ UNCHANGED <<limit, lpc, lconn, fd, events, centre, cancels, waiting, active,
                     clients, late, ub>>
  BY DEF PeerConnects, Fresh, Waits, In, epVars, mVars, mapVars
<1>2. /\ Distinct(backlog') /\ \A d : In(backlog', d) <=> d = c \/ In(backlog, d)
      /\ backlog' \in Seq(Conns)
  BY <1>1, AppendPlaces DEF MapTypeOK, Accepting
<1>3. MapTypeOK' BY <1>1, <1>2 DEF MapTypeOK, Fds
<1>4. Accepting' BY <1>1, <1>2 DEF Accepting, Polled
<1>5. Descriptors' /\ Dealt' /\ ClientsMatch'
  BY <1>1 DEF Descriptors, Dealt, ClientsMatch, Polled, Fds
<1>. QED BY <1>3, <1>4, <1>5

\* accept4 gives a descriptor that no connection has.
LEMMA AcceptStep ==
    ASSUME MapInv, LAccept
    PROVE  MapInv'
<1>. USE ServerAssumption DEF MapInv
<1>c. PICK c : c = Head(backlog) OBVIOUS
<1>f. PICK f : f = CHOOSE e \in Free : \A g \in Free : e <= g OBVIOUS
<1>1. /\ Free # {} /\ backlog # <<>> /\ lpc = "accept" /\ lpc' = "add"
      /\ lconn' = c /\ backlog' = Tail(backlog) /\ fd' = [fd EXCEPT ![c] = f]
      /\ UNCHANGED <<limit, events, centre, cancels, waiting, active, clients, late, ub>>
  BY <1>c, <1>f DEF LAccept, epVars, mVars, mapVars
<1>2. f \in Free
  <2>1. Free \in SUBSET Nat BY DEF Free, Fds, MapTypeOK
  <2>2. \E n \in Free : \A m \in Free : n <= m BY <1>1, <2>1, Smallest
  <2>. QED BY <1>f, <2>2
<1>3. f \in Fds /\ \A d \in Conns : fd[d] # f BY <1>2 DEF Free
<1>4. /\ c \in Conns /\ In(backlog, c) /\ Distinct(backlog')
      /\ \A d : In(backlog', d) <=> d # c /\ In(backlog, d)
      /\ backlog' \in Seq(Conns)
  BY <1>1, <1>c, TailPlaces DEF MapTypeOK, Accepting
<1>5. /\ fd[c] = None /\ c \notin centre \cup cancels \cup waiting /\ active[c] = {}
      /\ \A g \in Fds : events[g] # c
  BY <1>4, FreshConnection DEF Accepting
<1>6. fd'[c] = f /\ \A d \in Conns \ {c} : fd'[d] = fd[d]
  BY <1>1, <1>4 DEF MapTypeOK
<1>7. f # None BY <1>3 DEF Fds
<1>8. MapTypeOK' BY <1>1, <1>3, <1>4 DEF MapTypeOK, Fds
<1>9. Descriptors' BY <1>1, <1>3, <1>4, <1>5, <1>6, <1>8 DEF Descriptors, MapTypeOK, Fds
<1>10. Accepting'
  <2>1. ~(events[f] = c) BY <1>3, <1>5
  <2>2. ~Polled(c)' BY <1>1, <1>6, <2>1 DEF Polled
  <2>3. c # None BY <1>4
  <2>. QED BY <1>1, <1>4, <1>5, <1>6, <1>7, <2>2, <2>3 DEF Accepting
<1>11. Dealt' BY <1>1, <1>5, <1>6 DEF Dealt, Polled, MapTypeOK
<1>12. ClientsMatch' BY <1>1, <1>5 DEF ClientsMatch, Accepting, MapTypeOK, Fds
<1>. QED BY <1>8, <1>9, <1>10, <1>11, <1>12

LEMMA AddStep ==
    ASSUME MapInv, LAdd
    PROVE  MapInv'
<1>. USE ServerAssumption DEF MapInv
<1>l. PICK l : l = lconn OBVIOUS
<1>f. PICK f : f = fd[lconn] OBVIOUS
<1>1. /\ lpc = "add"
      /\ UNCHANGED <<limit, backlog, lconn, fd, centre, cancels, waiting, active,
                     clients, late, ub>>
  BY DEF LAdd, mVars, mapVars
<1>2. /\ l \in Conns /\ f \in Fds /\ fd[l] = f /\ ~Polled(l)
      /\ l \notin centre \cup cancels \cup waiting /\ active[l] = {}
  BY <1>l, <1>f, <1>1 DEF MapTypeOK, Accepting, Dealt
<1>3. CASE events[f] # None
  <2>1. lpc' = "find" /\ UNCHANGED events
    BY <1>3, <1>f DEF LAdd, epVars
  <2>2. Accepting' BY <1>1, <1>2, <2>1 DEF Accepting
  <2>. QED
    BY <1>1, <2>1, <2>2 DEF MapTypeOK, Descriptors, Dealt, ClientsMatch, Polled, Fds
<1>4. CASE events[f] = None
  <2>1. lpc' = "center" /\ events' = [events EXCEPT ![f] = l]
    BY <1>4, <1>f, <1>l DEF LAdd
  <2>2. events'[f] = l /\ \A g \in Fds \ {f} : events'[g] = events[g]
    BY <1>2, <2>1 DEF MapTypeOK
  <2>3. MapTypeOK' BY <1>1, <1>2, <2>1 DEF MapTypeOK, Fds
  <2>4. Descriptors' BY <1>1, <1>2, <2>2 DEF Descriptors, Fds
  <2>5. Accepting'
    <3>1. Polled(l)' BY <1>1, <1>2, <2>2 DEF Polled, Fds
    <3>. QED BY <1>1, <1>2, <1>l, <2>1, <3>1 DEF Accepting
  <2>6. Dealt'
    <3>1. ASSUME NEW c \in Conns, Polled(c) PROVE Polled(c)'
      BY <3>1, <1>1, <1>4, <2>2 DEF Polled, MapTypeOK, Fds
    <3>. QED BY <1>1, <3>1 DEF Dealt, MapTypeOK
  <2>7. ClientsMatch'
    <3>1. None \notin centre BY DEF MapTypeOK
    <3>. QED BY <1>1, <1>4, <1>l, <2>2, <3>1 DEF ClientsMatch, Fds
  <2>. QED BY <2>3, <2>4, <2>5, <2>6, <2>7
<1>. QED BY <1>3, <1>4

LEMMA SetCenterStep ==
    ASSUME MapInv, LSetCenter
    PROVE  MapInv'
<1>. USE DEF MapInv
<1>1. /\ lpc = "center" /\ lpc' = "find" /\ centre' = centre \cup {lconn}
      /\ UNCHANGED <<limit, backlog, lconn, fd, events, cancels, waiting, active,
                     clients, late, ub>>
  BY DEF LSetCenter, epVars, mVars, mapVars
<1>2. lconn \in Conns BY <1>1 DEF MapTypeOK, Accepting
<1>3. MapTypeOK' BY <1>1, <1>2 DEF MapTypeOK, Fds
<1>4. Descriptors' /\ Accepting' BY <1>1 DEF Descriptors, Accepting, Fds
<1>5. Dealt' BY <1>1 DEF Dealt, Accepting, Polled
<1>6. ClientsMatch' BY <1>1 DEF ClientsMatch, Fds
<1>. QED BY <1>3, <1>4, <1>5, <1>6

\* ListenCb ends with the connection entered in m_clients, and gives the
\* descriptor back only if m_events does not have it.
LEMMA ReturnStep ==
    ASSUME MapInv, Return, UNCHANGED ub,
           lpc \in {"find", "insert"},
           \/ /\ fd[lconn] \in clients
              /\ UNCHANGED <<clients, late>>
           \/ /\ clients' = clients \cup {fd[lconn]}
              /\ late' = IF lconn \in centre THEN late ELSE late \cup {fd[lconn]}
    PROVE  MapInv'
<1>. USE ServerAssumption DEF MapInv
<1>l. PICK l : l = lconn OBVIOUS
<1>f. PICK f : f = fd[lconn] OBVIOUS
<1>1. /\ lpc' = "accept" /\ lconn' = None
      /\ fd' = IF Polled(l) THEN fd ELSE [fd EXCEPT ![l] = None]
      /\ UNCHANGED <<limit, backlog, events, centre, cancels, waiting, active>>
  BY <1>l DEF Return, epVars, mVars
<1>2. l \in Conns /\ fd[l] = f /\ f \in Fds
  BY <1>l, <1>f DEF MapTypeOK, Accepting
<1>3. ASSUME NEW c \in Conns
      PROVE  fd'[c] = fd[c] \/ (c = l /\ fd'[c] = None /\ ~Polled(c))
  <2>1. CASE Polled(l) BY <1>1, <2>1 DEF Polled
  <2>2. CASE ~Polled(l)
    <3>1. fd' = [fd EXCEPT ![l] = None] BY <1>1, <2>2 DEF Polled
    <3>. QED BY <1>2, <2>2, <3>1 DEF MapTypeOK
  <2>. QED BY <2>1, <2>2
<1>4. \A g \in Fds : events[g] # None => events[g] # l \/ Polled(l)
  <2>1. f # None BY <1>2 DEF Fds, MapTypeOK
  <2>. QED BY <1>2, <2>1 DEF Descriptors, Polled
<1>5. MapTypeOK' BY <1>1, <1>2, <1>f DEF MapTypeOK, Fds
<1>6. Descriptors'
  <2>1. \A c, d \in Conns : fd'[c] = fd'[d] /\ fd'[c] # None => c = d
    BY <1>3 DEF Descriptors
  <2>2. ASSUME NEW g \in Fds, events[g] # None PROVE fd'[events[g]] = g
    <3>1. events[g] \in Conns BY <2>2 DEF MapTypeOK
    <3>. QED BY <1>3, <1>4, <2>2, <3>1 DEF Descriptors
  <2>. QED BY <1>1, <2>1, <2>2 DEF Descriptors, Fds
<1>7. Accepting' BY <1>1, <1>3 DEF Accepting, In, Distinct
<1>8. Dealt'
  <2>1. ASSUME NEW c \in Conns, Polled(c) PROVE Polled(c)'
    <3>1. fd'[c] = fd[c] BY <1>3, <2>1
    <3>. QED BY <1>1, <2>1, <3>1 DEF Polled
  <2>. QED BY <1>1, <2>1 DEF Dealt, MapTypeOK
<1>9. ClientsMatch'
  <2>1. ASSUME NEW g \in Fds, events[g] \in centre PROVE g \in clients'
    <3>1. events[g] \in Conns /\ fd[events[g]] = g
      BY <2>1 DEF MapTypeOK, Descriptors
    <3>2. CASE events[g] = l BY <3>1, <3>2, <1>2, <1>f
    <3>3. CASE events[g] # l BY <2>1, <3>3, <1>l DEF ClientsMatch
    <3>. QED BY <3>2, <3>3
  <2>2. ASSUME NEW g \in Fds, g \in clients' PROVE g \in late' \/ events[g] \in centre
    <3>1. CASE g \in clients BY <2>2, <3>1 DEF ClientsMatch
    <3>2. CASE g \notin clients
      <4>1. g = f /\ (l \in centre \/ g \in late')
        BY <2>2, <3>2, <1>f, <1>l
      <4>. QED BY <4>1, <1>2 DEF Dealt, Polled
    <3>. QED BY <3>1, <3>2
  <2>. QED BY <1>1, <2>1, <2>2 DEF ClientsMatch, Fds
<1>. QED BY <1>5, <1>6, <1>7, <1>8, <1>9

\* What L does at the mutex and on the way aside, and M outside the callbacks.
LEMMA WaitingStep ==
    ASSUME MapInv, LWake \/ LStops \/ LFindsNone \/ Launch \/ NextRound
    PROVE  MapInv'
<1>. USE DEF MapInv
<1>1. CASE LWake \/ LStops \/ LFindsNone
  <2>1. /\ \/ lpc = "idle" /\ lpc' = "accept"
           \/ lpc = "accept" /\ lpc' = "idle"
           \/ lpc = "find" /\ lpc' = "insert"
        /\ UNCHANGED <<limit, backlog, lconn, fd, events, centre, cancels, waiting,
                       active, clients, late, ub>>
    BY <1>1 DEF LWake, LStops, LFindsNone, epVars, mVars, mapVars
  <2>2. Accepting' BY <2>1 DEF Accepting, Polled, In, Distinct
  <2>. QED
    BY <2>1, <2>2 DEF MapTypeOK, Descriptors, Dealt, ClientsMatch, Polled, Fds
<1>2. CASE Launch
  <2>1. /\ active' = [c \in Conns |-> IF c \in Reported \cap centre THEN Ready(c)
                                                                 ELSE {}]
        /\ UNCHANGED <<limit, backlog, lpc, lconn, fd, events, centre, cancels,
                       waiting, clients, late, ub>>
    BY <1>2 DEF Launch, lVars, mapVars
  <2>2. active' \in [Conns -> SUBSET {"R", "W"}] BY <2>1 DEF Ready
  <2>3. Dealt'
    <3>1. \A c \in Conns : active'[c] # {} => c \in centre BY <2>1
    <3>. QED BY <2>1, <3>1 DEF Dealt, Polled
  <2>. QED
    BY <2>1, <2>2, <2>3 DEF MapTypeOK, Descriptors, Accepting, ClientsMatch, Polled, Fds
<1>3. CASE NextRound
  <2>1. /\ cancels = {} /\ cancels' = waiting /\ waiting' = {}
        /\ \A c \in Conns : active[c] = {}
        /\ UNCHANGED <<limit, backlog, lpc, lconn, fd, events, centre, active,
                       clients, late, ub>>
    BY <1>3 DEF NextRound, lVars, epVars, mapVars
  <2>2. Dealt' BY <2>1 DEF Dealt, Polled
  <2>3. Accepting' BY <2>1 DEF Accepting, Polled, In, Distinct
  <2>. QED
    BY <2>1, <2>2, <2>3 DEF MapTypeOK, Descriptors, ClientsMatch, Polled, Fds
<1>. QED BY <1>1, <1>2, <1>3

\* DeleteEvent: the descriptor goes with the connection, unless ListenCb still
\* holds it.
LEMMA DeleteStep ==
    ASSUME MapInv, NEW c \in Conns, MDelete(c)
    PROVE  MapInv'
<1>. USE ServerAssumption DEF MapInv
<1>f. PICK f : f = fd[c] OBVIOUS
<1>1. /\ c \in cancels /\ cancels' = cancels \ {c}
      /\ events' = [events EXCEPT ![f] = None]
      /\ fd' = IF c = lconn THEN fd ELSE [fd EXCEPT ![c] = None]
      /\ UNCHANGED <<limit, backlog, lpc, lconn, centre, waiting, active, clients,
                     late, ub>>
  BY <1>f DEF MDelete, lVars, mapVars
<1>2. /\ fd[c] = f /\ f \in Fds /\ events[f] = c /\ c \notin centre \cup waiting
      /\ active[c] = {}
  <2>1. Polled(c) BY <1>1 DEF Dealt
  <2>2. f # None /\ events[f] = c BY <1>f, <2>1 DEF Polled
  <2>. QED BY <1>1, <1>f, <2>2 DEF Dealt, MapTypeOK
<1>3. \A d \in Conns \ {c} : fd'[d] = fd[d]
  BY <1>1 DEF MapTypeOK
<1>4. fd'[c] = None \/ fd'[c] = f BY <1>1, <1>2 DEF MapTypeOK
<1>5. events'[f] = None /\ \A g \in Fds \ {f} : events'[g] = events[g]
  BY <1>1, <1>2 DEF MapTypeOK
<1>6. MapTypeOK' BY <1>1, <1>2 DEF MapTypeOK, Fds
<1>7. Descriptors'
  <2>1. \A a, b \in Conns : fd'[a] = fd'[b] /\ fd'[a] # None => a = b
    BY <1>2, <1>3, <1>4 DEF Descriptors
  <2>2. ASSUME NEW g \in Fds, events'[g] # None PROVE fd'[events'[g]] = g
    <3>1. g # f /\ events'[g] = events[g] /\ events[g] \in Conns
      BY <1>5, <2>2 DEF MapTypeOK
    <3>2. fd[events[g]] = g BY <2>2, <3>1 DEF Descriptors
    <3>. QED BY <1>2, <1>3, <3>1, <3>2
  <2>. QED BY <1>1, <2>1, <2>2 DEF Descriptors, Fds
<1>8. ASSUME NEW d \in Conns, d # c, Polled(d) PROVE Polled(d)'
  <2>1. fd[d] \in Fds /\ fd[d] # f /\ events[fd[d]] = d
    BY <1>2, <1>8 DEF Polled, Descriptors, MapTypeOK
  <2>2. fd'[d] = fd[d] BY <1>3, <1>8
  <2>. QED BY <1>5, <1>8, <2>1, <2>2 DEF Polled
<1>9. Accepting'
  <2>1. ASSUME NEW d \in Conns, In(backlog, d) PROVE fd'[d] = None
    BY <1>2, <1>3, <2>1 DEF Accepting, Fds, MapTypeOK
  <2>2. lconn # None => lconn \in Conns /\ fd'[lconn] = fd[lconn]
    BY <1>1, <1>3 DEF MapTypeOK
  <2>3. ASSUME lpc = "add" PROVE ~Polled(lconn)'
    <3>1. fd[lconn] \in Fds /\ fd'[lconn] = fd[lconn] /\ events[fd[lconn]] # lconn
          /\ lconn # None
      BY <2>2, <2>3 DEF Accepting, Polled, MapTypeOK
    <3>. QED BY <1>1, <1>5, <3>1 DEF Polled
  <2>4. ASSUME lpc = "center" PROVE Polled(lconn)'
    <3>1. lconn \in Conns /\ lconn # c /\ Polled(lconn)
      BY <1>1, <2>4 DEF Accepting, MapTypeOK
    <3>. QED BY <1>1, <1>8, <3>1 DEF Polled
  <2>. QED BY <1>1, <2>1, <2>2, <2>3, <2>4 DEF Accepting, In, Distinct
<1>10. Dealt' BY <1>1, <1>2, <1>8 DEF Dealt, MapTypeOK
<1>11. ClientsMatch'
  <2>1. None \notin centre BY DEF MapTypeOK
  <2>. QED BY <1>1, <1>2, <1>5, <2>1 DEF ClientsMatch, Fds
<1>. QED BY <1>6, <1>7, <1>9, <1>10, <1>11

\* A callback of a connection whose event is handled: it looks its client up,
\* or takes the client out and cancels the event.
LEMMA CallbackStep ==
    ASSUME MapInv, NEW c \in Conns, active[c] # {}, cancels = {},
           active' \in [Conns -> SUBSET {"R", "W"}],
           \A d \in Conns : active'[d] \subseteq active[d],
           UNCHANGED <<limit, backlog, lpc, lconn, fd, events, cancels>>,
           ub' \in {None, c},
           \/ UNCHANGED <<centre, waiting, clients, late>>
           \/ /\ clients' = clients \ {fd[c]} /\ late' = late \ {fd[c]}
              /\ centre' = centre \ {c}
              /\ waiting' = IF c \in centre THEN waiting \cup {c} ELSE waiting
    PROVE  MapInv'
<1>. USE ServerAssumption DEF MapInv
<1>f. PICK f : f = fd[c] OBVIOUS
<1>1. f \in Fds /\ events[f] = c /\ f # None
  <2>1. Polled(c) BY DEF Dealt
  <2>. QED BY <1>f, <2>1 DEF Polled, MapTypeOK
<1>2. MapTypeOK' BY DEF MapTypeOK, Fds
<1>3. Descriptors' BY DEF Descriptors, Fds
<1>4. Accepting' BY DEF Accepting, Polled, In, Distinct
<1>5. Dealt'
  <2>1. \A d \in Conns : active'[d] # {} => active[d] # {} OBVIOUS
  <2>. QED BY <2>1 DEF Dealt, Polled, MapTypeOK
<1>6. ClientsMatch'
  <2>1. CASE UNCHANGED <<centre, waiting, clients, late>>
    BY <2>1 DEF ClientsMatch, Fds
  <2>2. CASE clients' = clients \ {f} /\ late' = late \ {f} /\ centre' = centre \ {c}
    <3>1. \A g \in Fds : events[g] = c => g = f
      BY <1>f DEF Descriptors, MapTypeOK
    <3>. QED BY <1>1, <2>2, <3>1 DEF ClientsMatch, Fds
  <2>. QED BY <1>f, <2>1, <2>2
<1>. QED BY <1>2, <1>3, <1>4, <1>5, <1>6

LEMMA HandleStep ==
    ASSUME MapInv, Alive, NEW c \in Conns, HandleRead(c) \/ HandleWrite(c)
    PROVE  MapInv'
<1>. USE DEF InTurn, EventCb, LookUp, Race, ReadCb
<1>1. /\ active[c] # {} /\ cancels = {}
      /\ UNCHANGED <<limit, backlog, lpc, lconn, fd, events, cancels>>
  BY DEF HandleRead, HandleWrite, lVars
<1>2. /\ active' \in [Conns -> SUBSET {"R", "W"}]
      /\ \A d \in Conns : active'[d] \subseteq active[d]
  <2>1. active' = [active EXCEPT ![c] = @ \ {"R"}] \/ active' = [active EXCEPT ![c] = {}]
    BY DEF HandleRead, HandleWrite
  <2>. QED BY <2>1 DEF MapInv, MapTypeOK
<1>3. /\ ub' \in {None, c}
      /\ \/ UNCHANGED <<centre, waiting, clients, late>>
         \/ /\ clients' = clients \ {fd[c]} /\ late' = late \ {fd[c]}
            /\ centre' = centre \ {c}
            /\ waiting' = IF c \in centre THEN waiting \cup {c} ELSE waiting
  <2>1. CASE HandleRead(c) BY <2>1 DEF HandleRead
  <2>2. CASE HandleWrite(c) BY <2>2 DEF HandleWrite, mapVars, Alive
  <2>. QED BY <2>1, <2>2
<1>. QED BY <1>1, <1>2, <1>3, CallbackStep

LEMMA MapInvStep == MapInv /\ [Next]_vars => MapInv'
<1>. SUFFICES ASSUME MapInv, [Next]_vars PROVE MapInv'
  OBVIOUS
<1>. USE DEF lVars, epVars, mVars, mapVars
<1>1. CASE Start \/ RegisterListener
  BY <1>1, OtherStep DEF Start, RegisterListener
<1>2. ASSUME NEW c \in Conns, PeerConnects(c) PROVE MapInv' BY <1>2, ConnectStep
<1>3. ASSUME NEW c \in Conns, PeerSends(c) \/ PeerCloses(c) PROVE MapInv'
  BY <1>3, OtherStep DEF PeerSends, PeerCloses
<1>4. CASE LAccept BY <1>4, AcceptStep
<1>5. CASE LAdd BY <1>5, AddStep
<1>6. CASE LSetCenter BY <1>6, SetCenterStep
<1>7. CASE LFinds BY <1>7, ReturnStep DEF LFinds
<1>8. CASE LInsert BY <1>8, ReturnStep DEF LInsert
<1>9. CASE LWake \/ LStops \/ LFindsNone \/ Launch \/ NextRound
  BY <1>9, WaitingStep
<1>10. CASE MLock BY <1>10, OtherStep DEF MLock
<1>11. ASSUME NEW c \in Conns, MDelete(c) PROVE MapInv' BY <1>11, DeleteStep
<1>12. ASSUME Alive, NEW c \in Conns, HandleRead(c) \/ HandleWrite(c) PROVE MapInv'
  BY <1>12, HandleStep
<1>13. CASE UNCHANGED vars BY <1>13, OtherStep DEF vars
<1>. QED
  BY <1>1, <1>2, <1>3, <1>4, <1>5, <1>6, <1>7, <1>8, <1>9, <1>10, <1>11, <1>12, <1>13
  DEF Next, LStep, MStep

\* Whatever reuse of descriptors went before: a connection that is served has
\* its client in m_clients, and a client has its connection, unless ListenCb
\* entered it too late.
THEOREM ClientsAreRight == Spec => []ClientsMatch
<1>1. MapInv => ClientsMatch BY DEF MapInv
<1>. QED BY <1>1, InitMapInv, MapInvStep, PTL DEF Spec

\* ReadCb and WriteCb find their client, except after a read part that has
\* cancelled the event, or while ListenCb has yet to enter it.
THEOREM CallbacksFindTheirClient == Spec => []BrokenOnlyBy
<1>1. Init => BrokenOnlyBy BY DEF Init, BrokenOnlyBy, Alive
<1>2. MapInv /\ BrokenOnlyBy /\ [Next]_vars => BrokenOnlyBy'
  <2>. SUFFICES ASSUME MapInv, BrokenOnlyBy, [Next]_vars, ~Alive' PROVE BrokenOnlyBy'
    BY DEF BrokenOnlyBy
  <2>1. CASE UNCHANGED vars
    BY <2>1 DEF vars, lVars, mapVars, BrokenOnlyBy, Alive
  <2>2. CASE Next
    <3>1. Alive BY <2>2 DEF Next
    <3>2. PICK c \in Conns : HandleRead(c) \/ HandleWrite(c)
      <4>. USE <3>1 DEF Alive, lVars, epVars, mVars, mapVars
      <4>1. Start \/ RegisterListener => ub' = ub BY DEF Start, RegisterListener
      <4>2. \A c \in Conns : PeerConnects(c) \/ PeerSends(c) \/ PeerCloses(c) \/ MDelete(c)
                              => ub' = ub
        BY DEF PeerConnects, PeerSends, PeerCloses, MDelete
      <4>3. LStep \/ LAdd => ub' = ub
        BY DEF LStep, LWake, LStops, LAccept, LAdd, LSetCenter, LFinds, LFindsNone, LInsert
      <4>4. Launch \/ NextRound \/ MLock => ub' = ub BY DEF Launch, NextRound, MLock
      <4>. QED BY <2>2, <4>1, <4>2, <4>3, <4>4 DEF Next, MStep
    <3>3. /\ UNCHANGED <<lpc, lconn>> /\ active[c] # {}
      BY <3>2 DEF HandleRead, HandleWrite, lVars, InTurn
    <3>4. ub' # None => ub' = c
      BY <3>2, <3>1 DEF HandleRead, HandleWrite, ReadCb, EventCb, LookUp, Race, mapVars,
                        Alive
    <3>5. ub' # None =>
            \/ lpc = "insert"
            \/ fd[c] \notin clients /\ centre' = centre
      BY <3>2, <3>1 DEF HandleRead, HandleWrite, ReadCb, EventCb, LookUp, Race, mapVars,
                        Alive
    <3>6. ASSUME fd[c] \notin clients, c \in centre
          PROVE  lconn = c /\ lpc \in {"find", "insert"}
      <4>. USE DEF MapInv
      <4>1. fd[c] \in Fds /\ events[fd[c]] = c /\ Polled(c)
        BY <3>3 DEF Dealt, Polled, MapTypeOK
      <4>2. lconn = c BY <3>6, <4>1 DEF ClientsMatch
      <4>3. lpc # "idle" /\ lpc # "accept" /\ lpc # "add" /\ lpc # "center"
        BY <3>6, <4>1, <4>2, ServerAssumption DEF Accepting
      <4>. QED BY <4>2, <4>3 DEF MapTypeOK
    <3>. QED BY <3>3, <3>4, <3>5, <3>6 DEF BrokenOnlyBy, Alive
  <2>. QED BY <2>1, <2>2
<1>. QED BY <1>1, <1>2, InitMapInv, MapInvStep, PTL DEF Spec

----------------------------------------------------------------------------
(* Types.                                                                  *)

\* What MapTypeOK leaves out.
RestTypeOK ==
    /\ limit \in Limits
    /\ listening \in {"no", "created", "yes", "failed"}
    /\ edge \in BOOLEAN /\ full \in BOOLEAN
    /\ half \in Conns \cup {None}
    /\ lock \in {"L", "M", None} /\ mpc \in {"launch", "lock", "process"}
    /\ pending \subseteq Conns /\ writes \subseteq Conns /\ eof \subseteq Conns
    /\ output \subseteq Conns /\ missed \subseteq Conns
    /\ unread \in [Conns -> 0..MaxSends]

LEMMA RestStep ==
    ASSUME MapInv, RestTypeOK, [Next]_vars
    PROVE  RestTypeOK'
<1>. USE ServerAssumption DEF RestTypeOK, lVars, epVars, mVars, sockVars, mapVars
<1>1. CASE Start BY <1>1 DEF Start, CreateListener
<1>2. CASE RegisterListener BY <1>2 DEF RegisterListener, Listen
<1>3. ASSUME NEW c \in Conns, PeerConnects(c) PROVE RestTypeOK'
  BY <1>3 DEF PeerConnects
<1>4. ASSUME NEW c \in Conns, PeerSends(c) PROVE RestTypeOK'
  <2>1. unread' \in [Conns -> 0..MaxSends] BY <1>4 DEF PeerSends
  <2>. QED BY <1>4, <2>1 DEF PeerSends
<1>5. ASSUME NEW c \in Conns, PeerCloses(c) PROVE RestTypeOK'
  BY <1>5 DEF PeerCloses
<1>6. CASE LWake BY <1>6 DEF LWake
<1>7. CASE LStops
  <2>1. full' \in BOOLEAN BY <1>7 DEF LStops
  <2>. QED BY <1>7, <2>1 DEF LStops
<1>8. CASE LAccept BY <1>8 DEF LAccept
<1>9. CASE LAdd
  <2>1. lconn \in Conns BY <1>9 DEF LAdd, MapInv, MapTypeOK, Accepting
  <2>. QED BY <1>9, <2>1 DEF LAdd
<1>10. CASE LSetCenter BY <1>10 DEF LSetCenter
<1>11. CASE LFinds \/ LInsert BY <1>11 DEF LFinds, LInsert, Return
<1>12. CASE LFindsNone BY <1>12 DEF LFindsNone
<1>13. CASE Launch BY <1>13 DEF Launch, Reported
<1>14. CASE MLock BY <1>14 DEF MLock
<1>15. CASE NextRound BY <1>15 DEF NextRound
<1>16. ASSUME NEW c \in Conns, MDelete(c) PROVE RestTypeOK'
  BY <1>16 DEF MDelete
<1>17. ASSUME NEW c \in Conns, HandleRead(c) PROVE RestTypeOK'
  <2>1. unread' \in [Conns -> 0..MaxSends] BY <1>17 DEF HandleRead
  <2>. QED BY <1>17, <2>1 DEF HandleRead, ReadCb
<1>18. ASSUME NEW c \in Conns, HandleWrite(c) PROVE RestTypeOK'
  BY <1>18 DEF HandleWrite
<1>19. CASE UNCHANGED vars BY <1>19 DEF vars
<1>. QED
  BY <1>1, <1>2, <1>3, <1>4, <1>5, <1>6, <1>7, <1>8, <1>9, <1>10, <1>11, <1>12, <1>13,
     <1>14, <1>15, <1>16, <1>17, <1>18, <1>19
  DEF Next, LStep, MStep

\* Type correctness of the server.
THEOREM TypeCorrect == Spec => []TypeOK
<1>1. Init => RestTypeOK
  <2>. SUFFICES ASSUME Init PROVE RestTypeOK
    OBVIOUS
  <2>1. edge \in BOOLEAN /\ full \in BOOLEAN BY DEF Init
  <2>2. unread \in [Conns -> 0..MaxSends] BY ServerAssumption DEF Init
  <2>. QED BY <2>1, <2>2 DEF Init, RestTypeOK
<1>2. MapInv /\ RestTypeOK /\ [Next]_vars => RestTypeOK' BY RestStep
<1>3. ASSUME MapInv, RestTypeOK PROVE TypeOK
  <2>1. {edge, full} \subseteq BOOLEAN BY <1>3 DEF RestTypeOK
  <2>2. /\ {lconn, ub, half} \subseteq Conns \cup {None}
        /\ centre \cup pending \cup writes \cup cancels \cup waiting \cup eof
             \cup output \cup missed \subseteq Conns
    BY <1>3 DEF RestTypeOK, MapInv, MapTypeOK
  <2>. QED BY <1>3, <2>1, <2>2 DEF RestTypeOK, MapInv, MapTypeOK, TypeOK
<1>4. MapInv /\ RestTypeOK => TypeOK BY <1>3
<1>. QED BY <1>1, <1>2, <1>4, InitMapInv, MapInvStep, PTL DEF Spec
=============================================================================
