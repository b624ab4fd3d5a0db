---------------------------- MODULE LogCollector ----------------------------
(***************************************************************************)
(* ofborg/src/tasks/log_message_collector.rs with bin/log-message-collector: *)
(* the builders publish the log of every build attempt, the collector takes  *)
(* the messages from a queue of its own and writes one log file per attempt, *)
(* through a least-recently-used cache of open LineWriters.                  *)
(*                                                                           *)
(* The queue is exclusive and auto-delete: it exists while the collector is  *)
(* connected, and what is published or left in it otherwise is lost.  A      *)
(* crash therefore loses the message in hand like every other one, and it    *)
(* does not matter on which side of its Ack the crash falls.                 *)
(*                                                                           *)
(* Row n of a log holds line_number n; a line stands for itself by its       *)
(* number and Blank is the empty row.                                        *)
(***************************************************************************)
EXTENDS LineWriter

CONSTANTS
    Attempts,   \* build attempts; each has its own routing key and attempt_id
    MaxLines,   \* bound: lines of one attempt
    MaxOpen     \* capacity of the cache of handles (100)

ASSUME MaxOpenAssumption == MaxOpen \in Nat \ {0}
ASSUME MaxLinesAssumption == MaxLines \in Nat
ASSUME TextAssumption == 1..MaxLines \subseteq Text /\ Blank \notin 1..MaxLines

Closed == NewWriter(<<>>)

VARIABLES
    phase,      \* phase[a]: the attempt is new, running or finished
    printed,    \* printed[a]: how many lines the attempt has published
    up,         \* the collector is connected and its queue exists
    queue,      \* the messages in the collector's queue
    age,        \* age[a]: how many other handles were used since a's was;
                \* MaxOpen when a has no open handle
    writers,    \* writers[a]: the LineWriter of an open handle, or Closed
    log,        \* log[a]: the rows of the log file
    metadata,   \* metadata[a]: documents in the .metadata.json file
    result,     \* result[a]: documents in the .result.json file
    interrupted \* interrupted[a]: the collector was down during the attempt

builderVars == <<phase, printed>>
handleVars == <<age, writers>>
fileVars == <<log, metadata, result>>
vars == <<builderVars, up, queue, handleVars, fileVars, interrupted>>

Messages == [from : Attempts, type : {"Start", "Msg", "Finish"}, line_number : Nat]

Message(a, type, n) == [from |-> a, type |-> type, line_number |-> n]

Init ==
    /\ phase = [a \in Attempts |-> "new"]
    /\ printed = [a \in Attempts |-> 0]
    /\ up = TRUE
    /\ queue = <<>>
    /\ age = [a \in Attempts |-> MaxOpen]
    /\ writers = [a \in Attempts |-> Closed]
    /\ log = [a \in Attempts |-> <<>>]
    /\ metadata = [a \in Attempts |-> 0]
    /\ result = [a \in Attempts |-> 0]
    /\ interrupted = [a \in Attempts |-> FALSE]

-----------------------------------------------------------------------------
(* The builder's side: JobActions publishes the start of the log, the lines  *)
(* numbered from 1, and the result.                                          *)

Publish(m) ==
    /\ queue' = IF up THEN Append(queue, m) ELSE queue
    /\ interrupted' = [interrupted EXCEPT ![m.from] = @ \/ ~up]
    /\ UNCHANGED <<up, handleVars, fileVars>>

LogStarted(a) ==
    /\ phase[a] = "new"
    /\ phase' = [phase EXCEPT ![a] = "running"]
    /\ Publish(Message(a, "Start", 0))
    /\ UNCHANGED printed

\* Mutant: line_counter is incremented after the line was published.
LogLine_CountsLate(a) ==
    /\ phase[a] = "running"
    /\ printed[a] < MaxLines
    /\ printed' = [printed EXCEPT ![a] = @ + 1]
    /\ Publish(Message(a, "Msg", IF printed[a] = 0 THEN 1 ELSE printed[a]))
    /\ UNCHANGED phase

LogLine(a) ==
    /\ phase[a] = "running"
    /\ printed[a] < MaxLines
    /\ printed' = [printed EXCEPT ![a] = @ + 1]
    /\ Publish(Message(a, "Msg", printed[a] + 1))
    /\ UNCHANGED phase

BuildFinished(a) ==
    /\ phase[a] = "running"
    /\ phase' = [phase EXCEPT ![a] = "finished"]
    /\ Publish(Message(a, "Finish", 0))
    /\ UNCHANGED printed

-----------------------------------------------------------------------------
(* The collector handles one message at a time.                              *)

Cached(a) == age[a] < MaxOpen

\* LruCache::insert and get_mut make a the youngest handle.  The handles that
\* were younger grow older, and one that reaches MaxOpen is closed.
Touched(a) ==
    [b \in Attempts |->
        IF b = a THEN 0 ELSE IF age[b] < age[a] THEN age[b] + 1 ELSE age[b]]

\* Mutant: the new writer starts from nothing, not from its file.
HandleFor_NotLoaded(a) == IF Cached(a) THEN writers[a] ELSE Closed

\* handle_for: the open handle, or a new one for the file as it is.
HandleFor(a) == IF Cached(a) THEN writers[a] ELSE NewWriter(log[a])

\* The handles after a's was used and became w.
Handles(a, w) ==
    [b \in Attempts |->
        IF b = a THEN w ELSE IF Touched(a)[b] < MaxOpen THEN writers[b] ELSE Closed]

Received(type) == up /\ queue # <<>> /\ Head(queue).type = type

WriteMetadata ==
    /\ Received("Start")
    /\ metadata' = [metadata EXCEPT ![Head(queue).from] = @ + 1]
    /\ queue' = Tail(queue)
    /\ UNCHANGED <<builderVars, up, handleVars, log, result, interrupted>>

\* Mutant: open_file truncates the file it opens.
WriteLine_Truncates ==
    /\ Received("Msg")
    /\ LET a == Head(queue).from
           line == Head(queue).line_number - 1
           w == IF Cached(a) THEN writers[a] ELSE Closed
       IN  /\ ~Panics(w, line)
           /\ log' = [log EXCEPT ![a] = FileAfter(w.buffer, w, line, line + 1)]
           /\ writers' = Handles(a, WriterAfter(w, line, line + 1))
           /\ age' = Touched(a)
    /\ queue' = Tail(queue)
    /\ UNCHANGED <<builderVars, up, metadata, result, interrupted>>

\* The line of the message is written through the handle of its attempt.  A
\* panic in write_to_line is a Crash.
WriteLine ==
    /\ Received("Msg")
    /\ LET a == Head(queue).from
           line == Head(queue).line_number - 1
           w == HandleFor(a)
       IN  /\ ~Panics(w, line)
           /\ log' = [log EXCEPT ![a] = FileAfter(@, w, line, line + 1)]
           /\ writers' = Handles(a, WriterAfter(w, line, line + 1))
           /\ age' = Touched(a)
    /\ queue' = Tail(queue)
    /\ UNCHANGED <<builderVars, up, metadata, result, interrupted>>

\* Mutant: results are not decoded; the worker loop acknowledges them unread.
WriteResult_Undecoded ==
    /\ Received("Finish")
    /\ queue' = Tail(queue)
    /\ UNCHANGED <<builderVars, up, handleVars, fileVars, interrupted>>

WriteResult ==
    /\ Received("Finish")
    /\ result' = [result EXCEPT ![Head(queue).from] = @ + 1]
    /\ queue' = Tail(queue)
    /\ UNCHANGED <<builderVars, up, handleVars, log, metadata, interrupted>>

Collect == WriteMetadata \/ WriteLine \/ WriteResult

\* The collector dies, or panics on an I/O error, and the broker deletes its
\* queue.  Its handles are closed; the files stay.
Crash ==
    /\ up
    /\ up' = FALSE
    /\ queue' = <<>>
    /\ age' = [a \in Attempts |-> MaxOpen]
    /\ writers' = [a \in Attempts |-> Closed]
    /\ interrupted' = [a \in Attempts |->
            interrupted[a] \/ phase[a] = "running" \/ \E i \in DOMAIN queue : queue[i].from = a]
    /\ UNCHANGED <<builderVars, fileVars>>

Restart ==
    /\ ~up
    /\ up' = TRUE
    /\ UNCHANGED <<builderVars, queue, handleVars, fileVars, interrupted>>

Next ==
    \/ \E a \in Attempts : LogStarted(a) \/ LogLine(a) \/ BuildFinished(a)
    \/ WriteMetadata
    \/ WriteLine
    \/ WriteResult
    \/ Crash
    \/ Restart

\* The worker loop takes message after message while it runs.  Builders may
\* die in the middle of an attempt and the collector may stay down.
Spec == Init /\ [][Next]_vars /\ WF_vars(Collect)

-----------------------------------------------------------------------------
(* Properties.                                                               *)

TypeInv ==
    /\ phase \in [Attempts -> {"new", "running", "finished"}]
    /\ printed \in [Attempts -> Nat]
    /\ up \in BOOLEAN
    /\ queue \in Seq(Messages)
    /\ age \in [Attempts -> 0..MaxOpen]
    /\ writers \in [Attempts -> [buffer : Seq(Text), last_line : Nat]]
    /\ log \in [Attempts -> Seq(Text)]
    /\ metadata \in [Attempts -> Nat]
    /\ result \in [Attempts -> Nat]
    /\ interrupted \in [Attempts -> BOOLEAN]

\* An open handle knows what its file holds, and where its end is, across
\* evictions, reopened files and restarts.  No two open handles have the same
\* age, so that there are at most MaxOpen of them.
HandlesMatchFiles ==
    /\ \A a \in Attempts : Cached(a) =>
        /\ writers[a].buffer = log[a]
        /\ Len(log[a]) <= writers[a].last_line + 1
    /\ \A a, b \in Attempts : Cached(a) /\ age[a] = age[b] => a = b

\* Every line on its way belongs behind the end of its file, and behind the
\* lines of the same attempt that precede it: the collector only ever appends,
\* and write_to_line never meets the order in which it panics.
LinesMoveForward ==
    /\ \A i \in DOMAIN queue : queue[i].type = "Msg" =>
        /\ Len(log[queue[i].from]) < queue[i].line_number
        /\ queue[i].line_number <= printed[queue[i].from]
    /\ \A i, j \in DOMAIN queue :
        /\ i < j /\ queue[i].from = queue[j].from
        /\ queue[i].type = "Msg" /\ queue[j].type = "Msg"
        => queue[i].line_number < queue[j].line_number

\* A log with a result, of an attempt that the collector saw from its start to
\* its end, is the whole log: every line in its row, one metadata document,
\* one result document.
CompleteUnlessInterrupted ==
    \A a \in Attempts : result[a] > 0 /\ ~interrupted[a] =>
        /\ log[a] = [i \in 1..printed[a] |-> i]
        /\ metadata[a] = 1
        /\ result[a] = 1

\* A reader of a log file never sees a row change or go away.
LogsOnlyGrow ==
    [][\A a \in Attempts :
        /\ Len(log[a]) <= Len(log'[a])
        /\ \A i \in DOMAIN log[a] : log'[a][i] = log[a][i]]_log

\* A finished attempt gets its result file unless the collector goes down
\* before it gets there.
FinishIsRecorded ==
    \A a \in Attempts : phase[a] = "finished" ~> (result[a] > 0 \/ interrupted[a])

\* The cache, the reloading of files and the append path of the LineWriter
\* implement the plain file of rows.
Promise == INSTANCE LogFile
    WITH logs <- log, Lines <- {<<n, n>> : n \in 1..MaxLines}
RefinesLogFile == Promise!Spec
=============================================================================
