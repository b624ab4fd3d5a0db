------------------------------ MODULE LogFile ------------------------------
(***************************************************************************)
(* What the log collector promises of the log file of a build attempt: the  *)
(* file is the attempt's lines, each in the row of its number, with a blank *)
(* row for every line that never arrived.  The module LogCollector, with    *)
(* its cache of half-open files, is shown to implement this specification.  *)
(***************************************************************************)
EXTENDS Integers, Sequences

CONSTANTS
    Attempts,   \* the build attempts, each with a log of its own
    Lines,      \* the lines that can be written: <<number from 1, text>>
    Blank       \* an empty row

VARIABLE logs   \* logs[a]: the rows of the log of attempt a

\* The rows of log once row n holds d.
Put(log, n, d) ==
    [i \in 1..(IF n > Len(log) THEN n ELSE Len(log)) |->
        IF i = n THEN d ELSE IF i <= Len(log) THEN log[i] ELSE Blank]

Init == logs = [a \in Attempts |-> <<>>]

Write(a, n, d) == logs' = [logs EXCEPT ![a] = Put(@, n, d)]

Next == \E a \in Attempts, l \in Lines : Write(a, l[1], l[2])

Spec == Init /\ [][Next]_logs
=============================================================================
