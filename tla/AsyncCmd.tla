------------------------------ MODULE AsyncCmd ------------------------------
(***************************************************************************)
(* ofborg/src/asynccmd.rs: a child process whose stdout and stderr are read *)
(* by two threads into one bounded channel, three more threads that join    *)
(* the readers and the child and report to a second bounded channel, and a  *)
(* head waiter that collects the three notices.  The caller, the build      *)
(* worker (tasks/build.rs:358-363), drains lines() to its end and then      *)
(* calls wait().                                                            *)
(*                                                                          *)
(* A line is identified by its stream and its position there; these tags    *)
(* travel with it as ghosts, the code's channel carries the text alone.     *)
(***************************************************************************)
EXTENDS Integers, Sequences, FiniteSets

CONSTANTS
    Statuses,                   \* what Child::wait can report
    NoStatus,                   \* None: no status known (yet)
    OUT_CHANNEL_BUFFER_SIZE,    \* lines the output channel buffers (30)
    WAITER_CHANNEL_BUFFER_SIZE, \* notices the monitor channel buffers (10)
    PipeCapacity,               \* lines the pipe of one stream holds
    MaxLines                    \* bound: lines the child writes to a stream

ASSUME CapacityAssumption ==
    /\ OUT_CHANNEL_BUFFER_SIZE \in Nat \ {0}
    /\ WAITER_CHANNEL_BUFFER_SIZE \in Nat \ {0}
    /\ PipeCapacity \in Nat \ {0}
    /\ MaxLines \in Nat

ASSUME StatusAssumption == NoStatus \notin Statuses

Streams == {"Stdout", "Stderr"}
WaitTarget == Streams \cup {"Child"}

Kinds == {"text", "non-utf8"}

\* reader_tx replaces a line it cannot decode and goes on with the next one.
Decoded(k) == IF k = "text" THEN "text" ELSE "omitted"

VARIABLES
    written,    \* written[s]: the lines the child wrote to s
    open,       \* open[s]: a process still holds the write end of s
    exit,       \* the child's exit status, NoStatus while it runs
    read,       \* read[s]: how many lines of s its reader has taken
    reader,     \* the reader threads: reading, sending or finished
    chan,       \* proc_tx / proc_rx
    joiner,     \* spawn_join and child_wait threads: waiting, notified, exited
    monitor,    \* monitor_tx / monitor_rx
    head,       \* the head waiter thread: receiving, joining or finished
    waiters,    \* targets whose handle is still in the head waiter's map
    notice,     \* the notice the head waiter is working on
    status,     \* the head waiter's return_status
    caller,     \* the caller: draining lines(), waiting in wait(), or done
    received,   \* the lines the caller got from lines()
    result      \* what wait() returned

childVars == <<written, open, exit>>
readerVars == <<read, reader>>
headVars == <<head, waiters, notice, status>>
callerVars == <<caller, received, result>>
vars == <<childVars, readerVars, chan, joiner, monitor, headVars, callerVars>>

Lines == [stream : Streams, n : Nat, text : {"text", "omitted"}]
Notices == [id : WaitTarget, result : Statuses \cup {NoStatus}]

\* The state spawn() leaves behind: every thread started, both channels empty.
Init ==
    /\ written = [s \in Streams |-> <<>>]
    /\ open = [s \in Streams |-> TRUE]
    /\ exit = NoStatus
    /\ read = [s \in Streams |-> 0]
    /\ reader = [s \in Streams |-> "reading"]
    /\ chan = <<>>
    /\ joiner = [t \in WaitTarget |-> "waiting"]
    /\ monitor = <<>>
    /\ head = "receiving"
    /\ waiters = WaitTarget
    /\ notice = [id |-> "Child", result |-> NoStatus]
    /\ status = NoStatus
    /\ caller = "draining"
    /\ received = <<>>
    /\ result = NoStatus

-----------------------------------------------------------------------------
(* The child.  A stream outlives the child when a grandchild inherited it,  *)
(* and the child may close it long before it exits.                         *)

ChildWrites(s, k) ==
    /\ open[s]
    /\ Len(written[s]) < MaxLines
    /\ Len(written[s]) - read[s] < PipeCapacity
    /\ written' = [written EXCEPT ![s] = Append(@, k)]
    /\ UNCHANGED <<open, exit, readerVars, chan, joiner, monitor, headVars, callerVars>>

StreamCloses(s) ==
    /\ open[s]
    /\ open' = [open EXCEPT ![s] = FALSE]
    /\ UNCHANGED <<written, exit, readerVars, chan, joiner, monitor, headVars, callerVars>>

ChildExits(st) ==
    /\ exit = NoStatus
    /\ exit' = st
    /\ UNCHANGED <<written, open, readerVars, chan, joiner, monitor, headVars, callerVars>>

-----------------------------------------------------------------------------
(* reader_tx: take a line, decode it, send it, stop at end of file.         *)

ReaderTakesLine(s) ==
    /\ reader[s] = "reading"
    /\ read[s] < Len(written[s])
    /\ read' = [read EXCEPT ![s] = @ + 1]
    /\ reader' = [reader EXCEPT ![s] = "sending"]
    /\ UNCHANGED <<childVars, chan, joiner, monitor, headVars, callerVars>>

LineOf(s, n) == [stream |-> s, n |-> n, text |-> Decoded(written[s][n])]

\* Mutant: try_send, the line is dropped when the buffer is full.
ReaderSendsLine_TrySend(s) ==
    /\ reader[s] = "sending"
    /\ chan' = IF Len(chan) < OUT_CHANNEL_BUFFER_SIZE
                THEN Append(chan, LineOf(s, read[s]))
                ELSE chan
    /\ reader' = [reader EXCEPT ![s] = "reading"]
    /\ UNCHANGED <<childVars, read, joiner, monitor, headVars, callerVars>>

\* tx.send blocks while the buffer is full.  Its error branch needs a dropped
\* receiver, and the caller keeps rx until wait() has returned.
ReaderSendsLine(s) ==
    /\ reader[s] = "sending"
    /\ Len(chan) < OUT_CHANNEL_BUFFER_SIZE
    /\ chan' = Append(chan, LineOf(s, read[s]))
    /\ reader' = [reader EXCEPT ![s] = "reading"]
    /\ UNCHANGED <<childVars, read, joiner, monitor, headVars, callerVars>>

ReaderEndsAtEof(s) ==
    /\ reader[s] = "reading"
    /\ ~open[s]
    /\ read[s] = Len(written[s])
    /\ reader' = [reader EXCEPT ![s] = "finished"]
    /\ UNCHANGED <<childVars, read, chan, joiner, monitor, headVars, callerVars>>

-----------------------------------------------------------------------------
(* spawn_join and child_wait: wait for one target, then tell the head       *)
(* waiter.  The send blocks while the monitor channel is full.              *)

Notify(t, r) ==
    /\ joiner[t] = "waiting"
    /\ Len(monitor) < WAITER_CHANNEL_BUFFER_SIZE
    /\ monitor' = Append(monitor, [id |-> t, result |-> r])
    /\ joiner' = [joiner EXCEPT ![t] = "notified"]
    /\ UNCHANGED <<childVars, readerVars, chan, headVars, callerVars>>

SpawnJoin(s) ==
    /\ reader[s] = "finished"
    /\ Notify(s, NoStatus)

ChildWait ==
    /\ exit # NoStatus
    /\ Notify("Child", exit)

JoinerExits(t) ==
    /\ joiner[t] = "notified"
    /\ joiner' = [joiner EXCEPT ![t] = "exited"]
    /\ UNCHANGED <<childVars, readerVars, chan, monitor, headVars, callerVars>>

-----------------------------------------------------------------------------
(* The head waiter.  The branch for a target that is not in the map is      *)
(* never taken (NoticesAccounted below), so it is not an action.            *)

\* Mutant: waiters.get(&id) for waiters.remove(&id).
HeadReceives_Get ==
    /\ head = "receiving"
    /\ monitor # <<>>
    /\ Head(monitor).id \in waiters
    /\ notice' = Head(monitor)
    /\ monitor' = Tail(monitor)
    /\ head' = "joining"
    /\ UNCHANGED <<childVars, readerVars, chan, joiner, waiters, status, callerVars>>

HeadReceives ==
    /\ head = "receiving"
    /\ monitor # <<>>
    /\ Head(monitor).id \in waiters
    /\ notice' = Head(monitor)
    /\ monitor' = Tail(monitor)
    /\ waiters' = waiters \ {Head(monitor).id}
    /\ head' = "joining"
    /\ UNCHANGED <<childVars, readerVars, chan, joiner, status, callerVars>>

\* Mutant: every notice overwrites return_status, not the child's alone.
HeadJoins_Overwrites ==
    /\ head = "joining"
    /\ joiner[notice.id] = "exited"
    /\ status' = notice.result
    /\ head' = IF waiters = {} THEN "finished" ELSE "receiving"
    /\ UNCHANGED <<childVars, readerVars, chan, joiner, monitor, waiters, notice, callerVars>>

HeadJoins ==
    /\ head = "joining"
    /\ joiner[notice.id] = "exited"
    /\ status' = IF notice.id = "Child" THEN notice.result ELSE status
    /\ head' = IF waiters = {} THEN "finished" ELSE "receiving"
    /\ UNCHANGED <<childVars, readerVars, chan, joiner, monitor, waiters, notice, callerVars>>

-----------------------------------------------------------------------------
(* The caller: for line in lines() { ... }; wait().                          *)

CallerGetsLine ==
    /\ caller = "draining"
    /\ chan # <<>>
    /\ received' = Append(received, Head(chan))
    /\ chan' = Tail(chan)
    /\ UNCHANGED <<childVars, readerVars, joiner, monitor, headVars, caller, result>>

\* Mutant: the end of one stream ends the log.
LinesEnd_OneStream ==
    /\ caller = "draining"
    /\ chan = <<>>
    /\ \E s \in Streams : reader[s] = "finished"
    /\ caller' = "waiting"
    /\ UNCHANGED <<childVars, readerVars, chan, joiner, monitor, headVars, received, result>>

\* Mutant: spawn() keeps its own proc_tx, rx.iter() goes on waiting.
LinesEnd_SenderKept ==
    /\ caller = "draining"
    /\ chan = <<>>
    /\ \A s \in Streams : reader[s] = "finished"
    /\ UNCHANGED vars

\* rx.iter() ends when the buffer is empty and both senders are dropped.
LinesEnd ==
    /\ caller = "draining"
    /\ chan = <<>>
    /\ \A s \in Streams : reader[s] = "finished"
    /\ caller' = "waiting"
    /\ UNCHANGED <<childVars, readerVars, chan, joiner, monitor, headVars, received, result>>

\* NoStatus is the error "Thread didn't return an exit status."
WaitReturns ==
    /\ caller = "waiting"
    /\ head = "finished"
    /\ caller' = "done"
    /\ result' = status
    /\ UNCHANGED <<childVars, readerVars, chan, joiner, monitor, headVars, received>>

-----------------------------------------------------------------------------

ChildStep ==
    \/ \E s \in Streams, k \in Kinds : ChildWrites(s, k)
    \/ \E s \in Streams : StreamCloses(s)
    \/ \E st \in Statuses : ChildExits(st)

ReaderStep(s) ==
    \/ ReaderTakesLine(s)
    \/ ReaderSendsLine(s)
    \/ ReaderEndsAtEof(s)

WaiterStep ==
    \/ \E s \in Streams : SpawnJoin(s)
    \/ ChildWait
    \/ \E t \in WaitTarget : JoinerExits(t)
    \/ HeadReceives
    \/ HeadJoins

CallerStep == CallerGetsLine \/ LinesEnd \/ WaitReturns

Next ==
    \/ ChildStep
    \/ \E s \in Streams : ReaderStep(s)
    \/ WaiterStep
    \/ CallerStep

\* Every thread is scheduled again and again by the operating system.  Nothing
\* is assumed of the child: it may write for ever, or hang.
Fairness ==
    /\ \A s \in Streams : WF_vars(ReaderStep(s)) /\ WF_vars(SpawnJoin(s))
    /\ WF_vars(ChildWait)
    /\ \A t \in WaitTarget : WF_vars(JoinerExits(t))
    /\ WF_vars(HeadReceives) /\ WF_vars(HeadJoins)
    /\ WF_vars(CallerStep)

Spec == Init /\ [][Next]_vars /\ Fairness

-----------------------------------------------------------------------------
(* Properties.                                                               *)

TypeOK ==
    /\ written \in [Streams -> Seq(Kinds)]
    /\ open \in [Streams -> BOOLEAN]
    /\ exit \in Statuses \cup {NoStatus}
    /\ read \in [Streams -> Nat]
    /\ reader \in [Streams -> {"reading", "sending", "finished"}]
    /\ chan \in Seq(Lines)
    /\ joiner \in [WaitTarget -> {"waiting", "notified", "exited"}]
    /\ monitor \in Seq(Notices)
    /\ head \in {"receiving", "joining", "finished"}
    /\ waiters \in SUBSET WaitTarget
    /\ notice \in Notices
    /\ status \in Statuses \cup {NoStatus}
    /\ caller \in {"draining", "waiting", "done"}
    /\ received \in Seq(Lines)
    /\ result \in Statuses \cup {NoStatus}

\* Type correctness and the bounds of the two channels: reader_tx and the
\* joining threads block at a full channel (asynccmd.rs:19, 24) instead of
\* letting it grow.
TypeInv ==
    /\ TypeOK
    /\ Len(chan) <= OUT_CHANNEL_BUFFER_SIZE
    /\ Len(monitor) <= WAITER_CHANNEL_BUFFER_SIZE

\* The lines of s that have left its reader.
Sent(s) == read[s] - (IF reader[s] = "sending" THEN 1 ELSE 0)

\* The log as the caller has it, followed by what is still buffered.
Stream == received \o chan

\* Between a reader thread and the caller no line is lost, invented, sent
\* twice or moved before an earlier line of the same stream, whatever the
\* other stream, the child and the caller do meanwhile.
EveryLineOnceInOrder ==
    /\ \A i \in DOMAIN Stream :
        \E s \in Streams : \E n \in 1..Sent(s) : Stream[i] = LineOf(s, n)
    /\ \A i, j \in DOMAIN Stream :
        i < j /\ Stream[i].stream = Stream[j].stream => Stream[i].n < Stream[j].n
    /\ \A s \in Streams : \A n \in 1..Sent(s) :
        \E i \in DOMAIN Stream : Stream[i].stream = s /\ Stream[i].n = n

\* A target is waited for by the head waiter as long as its notice has not
\* arrived, and its notice is sent once: the monitor channel holds at most one
\* notice of each target ("should never be over 3 items", asynccmd.rs:21), and
\* none for a target that "isn't being waited on" (asynccmd.rs:158).
NoticesAccounted ==
    /\ \A i, j \in DOMAIN monitor : monitor[i].id = monitor[j].id => i = j
    /\ \A i \in DOMAIN monitor : monitor[i].id \in waiters
    /\ \A t \in WaitTarget :
        t \in waiters <=> \/ joiner[t] = "waiting"
                          \/ \E i \in DOMAIN monitor : monitor[i].id = t

\* When wait() returns, it returns the status the child exited with (never the
\* "didn't return an exit status" error), and the caller has all the output.
StatusAfterAllOutput ==
    caller = "done" =>
        /\ result # NoStatus
        /\ result = exit
        /\ \A s \in Streams :
            /\ ~open[s]
            /\ \A n \in 1..Len(written[s]) :
                \E i \in DOMAIN received : received[i] = LineOf(s, n)

\* Once the child has exited and nobody holds its streams, the caller drains
\* the output and gets the status: no thread waits for another for ever, on a
\* full channel or on a join, however small the channels are.
CommandCompletes ==
    (exit # NoStatus /\ \A s \in Streams : ~open[s]) ~> (caller = "done")

\* The threads and channels implement the promise of CommandRun.
Promise == INSTANCE CommandRun WITH log <- received
RefinesCommandRun == Promise!Spec
=============================================================================
