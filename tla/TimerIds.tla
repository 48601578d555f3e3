------------------------------ MODULE TimerIds ------------------------------
(***************************************************************************)
(* src/common/net/Timer: the bitmap s_ids that all centres take the ids of *)
(* their timers from.  Every operation holds s_mutex.  Id                  *)
(* Byte2Bit * i + b + 1 stands for bit b of byte i; id 0 is none.          *)
(***************************************************************************)
EXTENDS Naturals, FiniteSets

CONSTANTS
    Owners,        \* TimerEvents, each constructed and destroyed once
    Byte2Bit,      \* BYTE2BIT: 8 (less here, with the number of Owners)
    InitBytes,     \* INIT_ID_SIZE
    UIntSize       \* 2^32: s_curTimers is unsigned

ASSUME IdsAssumption ==
    Byte2Bit \in Nat \ {0} /\ UIntSize \in Nat \ {0} /\ InitBytes \in Nat

VARIABLES
    idBytes,     \* s_ids.size()
    bits,        \* the set bits, numbered from 0
    curTimers,   \* s_curTimers
    id,          \* the id of each living timer, else 0
    state,       \* "new", "alive" or "dead"
    skewed       \* history: an id divisible by Byte2Bit was released

vars == <<idBytes, bits, curTimers, id, state, skewed>>

Init ==
    /\ idBytes = InitBytes /\ bits = {} /\ curTimers = 0
    /\ id = [o \in Owners |-> 0]
    /\ state = [o \in Owners |-> "new"]
    /\ skewed = FALSE

\* The first test of CreateTimerID counts the timers that were added to a
\* centre, not the ids in use.
Grown == IF curTimers >= idBytes * Byte2Bit THEN idBytes + 1 ELSE idBytes

ClearBits(s, b) == (0 .. s * Byte2Bit - 1) \ b

\* The lowest clear bit is set.
TakenBits(s, b) ==
    b \cup {n \in ClearBits(s, b) : \A m \in ClearBits(s, b) : n <= m}

IdOf(s, b) ==
    IF ClearBits(s, b) = {} THEN 0
    ELSE 1 + CHOOSE n \in ClearBits(s, b) : \A m \in ClearBits(s, b) : n <= m

\* CreateTimerID, in the constructor of TimerEvent.
Create(o) ==
    /\ state[o] = "new"
    /\ state' = [state EXCEPT ![o] = "alive"]
    /\ idBytes' = Grown
    /\ bits' = TakenBits(idBytes', bits)
    /\ id' = [id EXCEPT ![o] = IdOf(idBytes', bits)]
    /\ UNCHANGED <<curTimers, skewed>>

\* Mutant: bit id % Byte2Bit, which is that of the next id.
Cleared_Next(i) == IF i \div Byte2Bit >= idBytes THEN {} ELSE {i}

\* The bit ReleaseTimerID clears: for an id divisible by Byte2Bit the last one
\* of byte i \div Byte2Bit, whereas its own is the last of the byte before.
Cleared(i) ==
    LET pos == i \div Byte2Bit  bit == i % Byte2Bit IN
    IF pos >= idBytes THEN {}
    ELSE {pos * Byte2Bit + (IF bit = 0 THEN Byte2Bit - 1 ELSE bit - 1)}

\* ReleaseTimerID, in the destructor.
Destroy(o) ==
    /\ state[o] = "alive"
    /\ state' = [state EXCEPT ![o] = "dead"]
    /\ bits' = IF id[o] = 0 THEN bits ELSE bits \ Cleared(id[o])
    /\ skewed' = (skewed \/ (id[o] # 0 /\ id[o] % Byte2Bit = 0))
    /\ id' = [id EXCEPT ![o] = 0]
    /\ UNCHANGED <<idBytes, curTimers>>

\* AddTimer and DelTimer count timers in any centre.  A kept timer that is
\* cancelled and fires all the same is deleted twice, so that the count may
\* come below zero, which is above everything.
Counted(n) == curTimers' = n /\ UNCHANGED <<idBytes, bits, id, state, skewed>>

Register == Counted((curTimers + 1) % UIntSize)
Unregister == Counted(IF curTimers = 0 THEN UIntSize - 1 ELSE curTimers - 1)

Next == \/ \E o \in Owners : Create(o) \/ Destroy(o)
        \/ Register \/ Unregister

Spec == Init /\ [][Next]_vars

----------------------------------------------------------------------------
(* Properties.                                                             *)

TypeOK ==
    /\ idBytes \in Nat /\ bits \subseteq Nat /\ curTimers \in 0 .. UIntSize - 1
    /\ id \in [Owners -> Nat] /\ state \in [Owners -> {"new", "alive", "dead"}]
    /\ skewed \in BOOLEAN

\* Two timers have the same id only after an id divisible by Byte2Bit was
\* released.
IdsUnique ==
    ~skewed => \A o, p \in Owners : o # p /\ id[o] # 0 => id[o] # id[p]
=============================================================================
