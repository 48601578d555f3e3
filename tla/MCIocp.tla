------------------------------- MODULE MCIocp -------------------------------
(***************************************************************************)
(* The two users of overlapped operations in one run: each behaviour is    *)
(* one of Iocp, a connecter, or of IocpAccept, a listener, while the       *)
(* variables of the other keep their initial values.                       *)
(***************************************************************************)
EXTENDS Iocp, IocpAccept

VARIABLE part \* whose behaviour this is

allVars == <<part, vars, acceptVars>>

IoInit ==
    /\ part \in {"connecter", "listener"}
    /\ Init /\ AcceptInit

IoNext ==
    \/ part = "connecter" /\ IocpNext /\ UNCHANGED <<part, acceptVars>>
    \/ part = "listener" /\ AcceptNext /\ UNCHANGED <<part, vars>>

\* The fairness of each part, where it is the one that runs.
During(p, A) == part = p /\ A

IoSpec ==
    /\ IoInit /\ [][IoNext]_allVars
    /\ WF_vars(During("connecter", Setup))
    /\ WF_vars(During("connecter", ProcessActiveEvent))
    /\ WF_vars(During("connecter", Windows))
    /\ \A d \in Dirs : WF_vars(During("connecter", IocpLoop(d)))
    /\ WF_acceptVars(During("listener", StartAsynAccept))
    /\ WF_acceptVars(During("listener", HandleAccept))
    /\ WF_acceptVars(During("listener", DestroyListener))
    /\ WF_acceptVars(During("listener", Completions))
    /\ WF_acceptVars(During("listener", Connection))
    /\ WF_acceptVars(During("listener", Abortion))

\* Every operation that is out is accounted for: of a connecter by its flags,
\* of a listener by the count it shares with its array.
OperationsTracked == OverlappedTracked /\ SlotsTracked
=============================================================================
