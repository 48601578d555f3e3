----------------------------- MODULE DBService -----------------------------
(***************************************************************************)
(* What DBPool promises to those who call Query: requests are taken up in  *)
(* the order in which they were asked, at most one by each connection, and *)
(* the callback of a request that was taken up runs at most once.  How     *)
(* long that takes, and whether a connection is there, is left open.       *)
(***************************************************************************)
EXTENDS Naturals, Sequences

CONSTANTS Requests, Conns, None

VARIABLES
    line,      \* requests nobody has taken up yet
    serving,   \* the request each connection works on, or None
    answered   \* requests whose callback has run

vars == <<line, serving, answered>>

Init ==
    /\ line = <<>> /\ answered = {}
    /\ serving = [c \in Conns |-> None]

Waits(r)  == \E i \in DOMAIN line : line[i] = r
Served(r) == \E c \in Conns : serving[c] = r

Ask(r) ==
    /\ ~Waits(r) /\ ~Served(r) /\ r \notin answered
    /\ line' = Append(line, r)
    /\ UNCHANGED <<serving, answered>>

TakeUp(c) ==
    /\ line # <<>> /\ serving[c] = None
    /\ serving' = [serving EXCEPT ![c] = Head(line)]
    /\ line' = Tail(line)
    /\ UNCHANGED answered

Answer(c) ==
    /\ serving[c] \in Requests /\ serving[c] \notin answered
    /\ answered' = answered \cup {serving[c]}
    /\ serving' = [serving EXCEPT ![c] = None]
    /\ UNCHANGED line

Next == \/ \E r \in Requests : Ask(r)
        \/ \E c \in Conns : TakeUp(c) \/ Answer(c)

Spec == Init /\ [][Next]_vars
=============================================================================
