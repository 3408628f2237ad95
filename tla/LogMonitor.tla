------------------------------- MODULE LogMonitor -------------------------------
(***************************************************************************)
(* The ring of the last log lines (monitor/srobo1_log.hpp).  A module of   *)
(* operators on the record [lines, head, pointer]; Viewer holds one.       *)
(***************************************************************************)
EXTENDS Integers

CONSTANTS
    Line,       \* what can be logged
    NoLog,      \* "-- No log --", a line too
    Capacity    \* 12

ASSUME LogAssumption == NoLog \in Line /\ Capacity \in Nat \ {0, 1}

LastSlot == Capacity - 1
Logs == [lines : [0 .. LastSlot -> Line], head : 0 .. LastSlot, pointer : 0 .. LastSlot]

\* The pointer is one line behind the head, all around.
NewLog == [lines |-> [i \in 0 .. LastSlot |-> NoLog], head |-> 0, pointer |-> LastSlot]

\* Iterator::operator++
Incremented(at) == IF at = LastSlot THEN 0 ELSE at + 1

\* The line that is not shown is overwritten, and becomes the last one shown.
AddLine(log, line) ==
    [lines |-> [log.lines EXCEPT ![log.pointer] = line],
     head |-> Incremented(log.head), pointer |-> Incremented(log.pointer)]

\* What iterating over Lines() gives, from the head to the pointer, while the
\* LogMonitor it was called on is there (Viewer's is not: see Stale).
Lines(log) ==
    [i \in 1 .. (log.pointer - log.head) % Capacity |->
        log.lines[(log.head + i - 1) % Capacity]]
===============================================================================
