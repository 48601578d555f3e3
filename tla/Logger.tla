------------------------------- MODULE Logger -------------------------------
(***************************************************************************)
(* src/common/log/Logger: the files WriteLog writes to.  Each call reads   *)
(* the time before it takes m_mutex, starts a file when the day has        *)
(* changed or the file is full, and writes its line.  What the line says   *)
(* is left out.                                                            *)
(***************************************************************************)
EXTENDS Naturals, FiniteSets

CONSTANTS
    Writers,  \* threads that log
    Day,      \* DAY2SEC, in ticks of the clock
    Offset,   \* local time less UTC, and a day where that is negative
    MaxSize,  \* MAX_SIZE
    Lengths,  \* of a line
    LastTick,  \* bound: the clock stops here
    MaxFiles, \* bound: m_fillFileNum
    None

VARIABLES
    isInit,  \* m_isInit, None before Init is called
    clock,   \* time(NULL)
    stamp,   \* now in each WriteLog under way, or None
    file,    \* the file of m_fp, or None when it is NULL
    curSize, \* m_curSize
    fillNum, \* m_fillFileNum
    lastSecond, \* m_lastSecond
    fileSize, \* size of each file
    openedAt,  \* history: when the file of m_fp was opened
    line     \* history: the last line written

vars == <<isInit, clock, stamp, file, curSize, fillNum, lastSecond,
          fileSize, openedAt, line>>

LogConstants ==
    /\ LastTick \in Nat /\ Day \in 1..LastTick /\ Offset \in Nat
    /\ MaxSize \in Nat \ {0} /\ MaxFiles \in Nat
    \* vfprintf returns an int: some line is the longest.
    /\ Lengths \subseteq Nat /\ \E l \in Lengths : \A k \in Lengths : k <= l

Local(t) == (t + Offset) \div Day
Names == (0 .. Local(LastTick)) \X (0..MaxFiles)

Init ==
    /\ isInit = None
    /\ clock \in 1..Day /\ stamp = [w \in Writers |-> None]
    /\ file = None /\ curSize = 0 /\ fillNum = 0 /\ lastSecond = 0
    /\ fileSize = [n \in Names |-> 0]
    /\ openedAt = 0 /\ line = None

\* Logger::Init, which the programs call first.  When it fails it leaves
\* m_isInit as the constructor does, without a value.
InitLogger ==
    /\ isInit = None /\ isInit' \in BOOLEAN
    /\ UNCHANGED <<clock, stamp, file, curSize, fillNum, lastSecond, fileSize,
                   openedAt, line>>

Tick ==
    /\ clock < LastTick
    /\ clock' = clock + 1
    /\ UNCHANGED <<isInit, stamp, file, curSize, fillNum, lastSecond, fileSize,
                   openedAt, line>>

\* WriteLog reads the time ...
Begin(w) ==
    /\ isInit = TRUE /\ stamp[w] = None
    /\ stamp' = [stamp EXCEPT ![w] = clock]
    /\ UNCHANGED <<isInit, clock, file, curSize, fillNum, lastSecond, fileSize,
                   openedAt, line>>

\* Mutant: a file is for a day from its last line on.
OtherDay_Elapsed(now) == now >= lastSecond + Day

\* The day of UTC, while the name of the file has the local day.
OtherDay(now) == now \div Day # lastSecond \div Day

\* The first number from n on whose file, of the local day of now, has room.
HasRoom(n) == fileSize[<<Local(clock), n>>] < MaxSize

FilesFrom(n) ==
    {k \in n..MaxFiles : HasRoom(k) /\ \A i \in n .. k - 1 : ~HasRoom(i)}

\* ... and with the mutex writes into the open file, if it is of the day and
\* not full,
WriteOn(w, len) ==
    /\ stamp[w] # None /\ file # None /\ ~OtherDay(stamp[w]) /\ curSize < MaxSize
    /\ fileSize' = [fileSize EXCEPT ![file] = @ + len]
    /\ curSize' = curSize + len
    /\ lastSecond' = stamp[w]
    /\ line' = [at |-> stamp[w], openedAt |-> openedAt, file |-> file]
    /\ stamp' = [stamp EXCEPT ![w] = None]
    /\ UNCHANGED <<isInit, clock, file, fillNum, openedAt>>

Start(w) == IF file = None \/ OtherDay(stamp[w]) THEN fillNum ELSE fillNum + 1

\* ... or into one that OpenLogFile opens first: on another day m_fp is
\* overwritten and not closed, a full file is closed and the number counted up
\* until a file has room.
WriteNew(w, len) ==
    /\ stamp[w] # None
    /\ file = None \/ OtherDay(stamp[w]) \/ curSize >= MaxSize
    /\ \E n \in FilesFrom(Start(w)) :
           /\ file' = <<Local(clock), n>>
           /\ fillNum' = n
    /\ fileSize' = [fileSize EXCEPT ![file'] = @ + len]
    /\ curSize' = fileSize'[file']
    /\ openedAt' = clock
    /\ lastSecond' = stamp[w]
    /\ line' = [at |-> stamp[w], openedAt |-> clock, file |-> file']
    /\ stamp' = [stamp EXCEPT ![w] = None]
    /\ UNCHANGED <<isInit, clock>>

\* fopen fails, at once or for a later number: the line is dropped, and the
\* next call opens again.
OpenFails(w) ==
    /\ stamp[w] # None
    /\ file = None \/ OtherDay(stamp[w]) \/ curSize >= MaxSize
    /\ \E n \in Start(w)..MaxFiles :
           /\ \A i \in Start(w) .. n - 1 : ~HasRoom(i)
           /\ fillNum' = n
           /\ curSize' = IF n = Start(w) THEN curSize
                         ELSE fileSize[<<Local(clock), n - 1>>]
    /\ file' = None
    /\ stamp' = [stamp EXCEPT ![w] = None]
    /\ UNCHANGED <<isInit, clock, lastSecond, fileSize, openedAt, line>>

Next ==
    \/ InitLogger \/ Tick
    \/ \E w \in Writers : Begin(w) \/ OpenFails(w)
    \/ \E w \in Writers, len \in Lengths : WriteOn(w, len) \/ WriteNew(w, len)

Spec == Init /\ [][Next]_vars

----------------------------------------------------------------------------
(* Properties.                                                             *)

TypeOK ==
    /\ isInit \in BOOLEAN \cup {None}
    /\ {clock, curSize, fillNum, lastSecond, openedAt} \subseteq Nat
    /\ stamp \in [Writers -> Nat \cup {None}]
    /\ file \in Names \cup {None} /\ fileSize \in [Names -> Nat]

\* No line goes into a file that was opened on an earlier day than the line's,
\* though threads take the mutex in another order than they read the time.
NoLineInOlderFile ==
    line # None => line.openedAt \div Day >= line.at \div Day

\* A file grows by one line at most beyond MAX_SIZE, also when it is opened
\* again after the change of the day was seen twice.
FileBounded ==
    \A n \in Names :
        fileSize[n] < MaxSize + CHOOSE l \in Lengths : \A k \in Lengths : k <= l
=============================================================================
