----------------------------- MODULE CommandRun -----------------------------
(***************************************************************************)
(* What ofborg/src/asynccmd.rs promises to the code that runs a build       *)
(* command: the caller sees the merged output of the child's two streams,   *)
(* every line once and each stream in its own order, and only then the      *)
(* child's exit status.  There are no threads, channels or pipes here; the  *)
(* module AsyncCmd is shown to implement this specification.                *)
(***************************************************************************)
EXTENDS Integers, Sequences

CONSTANTS
    Streams,    \* the output streams of the child (stdout and stderr)
    Statuses,   \* what waiting for the child can report
    NoStatus,   \* the child has not exited, or nothing was reported yet
    Kinds,      \* what the child can write as one line
    Decoded(_)  \* the line of the log that stands for a line of that kind

VARIABLES
    written,    \* written[s]: the lines written to s so far
    open,       \* open[s]: some process still holds the write end of s
    exit,       \* the status the child exited with, or NoStatus
    log,        \* the lines handed to the caller, in the order of delivery
    result      \* what wait() returned, or NoStatus

vars == <<written, open, exit, log, result>>

\* One line of the log, tagged with the line of the child it stands for.
LogLine(s, n) == [stream |-> s, n |-> n, text |-> Decoded(written[s][n])]

Undelivered(s) ==
    {n \in 1..Len(written[s]) :
        \A i \in DOMAIN log : ~(log[i].stream = s /\ log[i].n = n)}

Init ==
    /\ written = [s \in Streams |-> <<>>]
    /\ open = [s \in Streams |-> TRUE]
    /\ exit = NoStatus
    /\ log = <<>>
    /\ result = NoStatus

-----------------------------------------------------------------------------

Write(s, k) ==
    /\ open[s]
    /\ written' = [written EXCEPT ![s] = Append(@, k)]
    /\ UNCHANGED <<open, exit, log, result>>

Close(s) ==
    /\ open[s]
    /\ open' = [open EXCEPT ![s] = FALSE]
    /\ UNCHANGED <<written, exit, log, result>>

Exit(st) ==
    /\ exit = NoStatus
    /\ exit' = st
    /\ UNCHANGED <<written, open, log, result>>

\* The caller is handed the oldest line of s it has not seen yet.
Deliver(s) ==
    /\ \E n \in Undelivered(s) :
        /\ \A m \in Undelivered(s) : n <= m
        /\ log' = Append(log, LogLine(s, n))
    /\ UNCHANGED <<written, open, exit, result>>

\* The status is reported once, after the last line of both streams.
Report ==
    /\ result = NoStatus
    /\ exit # NoStatus
    /\ \A s \in Streams : ~open[s] /\ Undelivered(s) = {}
    /\ result' = exit
    /\ UNCHANGED <<written, open, exit, log>>

Next ==
    \/ \E s \in Streams : (\E k \in Kinds : Write(s, k)) \/ Close(s) \/ Deliver(s)
    \/ \E st \in Statuses : Exit(st)
    \/ Report

Spec == Init /\ [][Next]_vars
=============================================================================
