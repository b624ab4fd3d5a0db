------------------------------ MODULE Builder ------------------------------
(***************************************************************************)
(* ofborg/src/tasks/build.rs, run by notifyworker.rs, and what RabbitMQ     *)
(* makes of it: builders take build jobs from the durable queue of their    *)
(* system, one at a time (basic_prefetch(1)), publish the log and the       *)
(* result of an attempt while they work, and acknowledge the job at the end.*)
(*                                                                          *)
(* Every action a worker tells goes over the one channel of its connection, *)
(* in order.  When the connection is gone the broker requeues the job that  *)
(* was not acknowledged, and what it has not received yet is lost.          *)
(*                                                                          *)
(* A line of a log stands for itself by its number.                         *)
(***************************************************************************)
EXTENDS Integers, Sequences, FiniteSets

CONSTANTS
    Builders,
    Jobs,           \* the jobs in the queue of one system
    EmptyJobs,      \* jobs without attributes
    StaleJobs,      \* jobs whose commit may be gone by now
    NoJob,
    ExitCodes,      \* how nix-build can end: exit codes, NoCode for a signal
    NoCode,
    SNIPPET,        \* lines in a result (10)
    MaxLines,       \* bound: lines of a log
    MaxCrashes      \* bound: lost connections

ASSUME JobAssumption ==
    EmptyJobs \subseteq Jobs /\ StaleJobs \subseteq Jobs /\ NoJob \notin Jobs

ASSUME BoundAssumption ==
    SNIPPET \in Nat \ {0} /\ MaxLines \in Nat \ {0, 1} /\ MaxCrashes \in Nat

VARIABLES
    ready,      \* the jobs waiting in the queue
    unacked,    \* unacked[b]: the job delivered to b and not acknowledged
    acked,      \* the jobs the broker has forgotten
    logs,       \* logs[a]: the messages of attempt a the exchange "logs" got
    results,    \* what the exchange "build-results" got
    attempts,   \* attempts[a]: the job of attempt a
    wire,       \* wire[b]: actions told by b that the broker has yet to see
    pc,         \* pc[b]: where the builder b is
    attempt,    \* attempt[b]: its attempt_id
    can_build,  \* can_build[b]: some attribute can be built
    line_counter,
    snippet_log,
    dead,       \* the attempts whose connection was lost
    crashes,    \* how many connections were lost
    gone        \* those of StaleJobs whose commit a builder may miss: the same at all times

brokerVars == <<ready, unacked, acked, logs, results>>
workerVars == <<attempts, pc, attempt, can_build, line_counter, snippet_log>>
vars == <<brokerVars, wire, workerVars, dead, crashes, gone>>

Statuses == {"Skipped", "Success", "Failure", "TimedOut", "UnexpectedError"}

StatusOf(code) ==
    CASE code = 0 -> "Success"
      [] code = 100 -> "Failure"
      [] code = 101 -> "TimedOut"
      [] OTHER -> "UnexpectedError"

\* The actions: publish to "logs", publish to "build-results", Ack.
LogMessage(type, n) == [to |-> "logs", type |-> type, line_number |-> n]
Result(status, output) == [to |-> "build-results", status |-> status, output |-> output]
Ack == [to |-> "ack"]

\* "Merge failed", a line of no log.
MergeFailedOutput == <<0>>

Init ==
    /\ ready = Jobs
    /\ unacked = [b \in Builders |-> NoJob]
    /\ acked = {}
    /\ logs = <<>>
    /\ results = {}
    /\ attempts = <<>>
    /\ wire = [b \in Builders |-> <<>>]
    /\ pc = [b \in Builders |-> "idle"]
    /\ attempt = [b \in Builders |-> 0]
    /\ can_build = [b \in Builders |-> FALSE]
    /\ line_counter = [b \in Builders |-> 0]
    /\ snippet_log = [b \in Builders |-> <<>>]
    /\ dead = {}
    /\ crashes = 0
    /\ gone \in SUBSET StaleJobs

-----------------------------------------------------------------------------
(* The broker.                                                               *)

\* Mutant: the attempt_id is made from the job and not from a fresh Uuid.
Deliver_SameAttempt(b, j) ==
    /\ j \in ready
    /\ unacked[b] = NoJob /\ pc[b] = "idle"
    /\ ready' = ready \ {j}
    /\ unacked' = [unacked EXCEPT ![b] = j]
    /\ pc' = [pc EXCEPT ![b] = "preparing"]
    /\ IF \E a \in DOMAIN attempts : attempts[a] = j
       THEN /\ attempt' = [attempt EXCEPT ![b] = CHOOSE a \in DOMAIN attempts : attempts[a] = j]
            /\ UNCHANGED <<attempts, logs>>
       ELSE /\ attempts' = Append(attempts, j)
            /\ logs' = Append(logs, <<>>)
            /\ attempt' = [attempt EXCEPT ![b] = Len(attempts) + 1]
    /\ line_counter' = [line_counter EXCEPT ![b] = 0]
    /\ snippet_log' = [snippet_log EXCEPT ![b] = <<>>]
    /\ UNCHANGED <<acked, results, wire, can_build, dead, crashes, gone>>

\* A delivery, and JobActions::new in the consumer it is handed to.
Deliver(b, j) ==
    /\ j \in ready
    /\ unacked[b] = NoJob /\ pc[b] = "idle"
    /\ ready' = ready \ {j}
    /\ unacked' = [unacked EXCEPT ![b] = j]
    /\ pc' = [pc EXCEPT ![b] = "preparing"]
    /\ attempts' = Append(attempts, j)
    /\ logs' = Append(logs, <<>>)
    /\ attempt' = [attempt EXCEPT ![b] = Len(attempts) + 1]
    /\ line_counter' = [line_counter EXCEPT ![b] = 0]
    /\ snippet_log' = [snippet_log EXCEPT ![b] = <<>>]
    /\ UNCHANGED <<acked, results, wire, can_build, dead, crashes, gone>>

Received(b, to) == wire[b] # <<>> /\ Head(wire[b]).to = to

BrokerLogs(b) ==
    /\ Received(b, "logs")
    /\ logs' = [logs EXCEPT ![attempt[b]] = Append(@, Head(wire[b]))]
    /\ wire' = [wire EXCEPT ![b] = Tail(@)]
    /\ UNCHANGED <<ready, unacked, acked, results, workerVars, dead, crashes, gone>>

BrokerResult(b) ==
    /\ Received(b, "build-results")
    /\ results' = results \cup
        {[job |-> unacked[b], attempt |-> attempt[b],
          status |-> Head(wire[b]).status, output |-> Head(wire[b]).output]}
    /\ wire' = [wire EXCEPT ![b] = Tail(@)]
    /\ UNCHANGED <<ready, unacked, acked, logs, workerVars, dead, crashes, gone>>

BrokerAck(b) ==
    /\ Received(b, "ack")
    /\ acked' = acked \cup {unacked[b]}
    /\ unacked' = [unacked EXCEPT ![b] = NoJob]
    /\ wire' = [wire EXCEPT ![b] = Tail(@)]
    /\ UNCHANGED <<ready, logs, results, workerVars, dead, crashes, gone>>

\* The builder dies, panics, or only its connection does: it then works on
\* until it tells something, and panics.  Another process takes its place.
Crash(b) ==
    /\ crashes < MaxCrashes
    /\ crashes' = crashes + 1
    /\ unacked[b] # NoJob
    /\ ready' = ready \cup {unacked[b]}
    /\ unacked' = [unacked EXCEPT ![b] = NoJob]
    /\ dead' = dead \cup {attempt[b]}
    /\ wire' = [wire EXCEPT ![b] = <<>>]
    /\ pc' = [pc EXCEPT ![b] = "idle"]
    /\ UNCHANGED <<acked, logs, results, attempts, attempt, can_build, line_counter, snippet_log,
                   gone>>

-----------------------------------------------------------------------------
(* The build worker.                                                         *)

Tell(b, actions) ==
    /\ wire' = [wire EXCEPT ![b] = @ \o actions]
    /\ UNCHANGED <<brokerVars, attempts, attempt, dead, crashes, gone>>

Goto(b, from, to) == pc[b] = from /\ pc' = [pc EXCEPT ![b] = to]

\* Mutant: the job without attributes is returned from without an Ack.
NothingToDo_NoAck(b) ==
    /\ unacked[b] \in EmptyJobs
    /\ Goto(b, "preparing", "idle")
    /\ Tell(b, <<>>)
    /\ UNCHANGED <<can_build, line_counter, snippet_log>>

NothingToDo(b) ==
    /\ unacked[b] \in EmptyJobs
    /\ Goto(b, "preparing", "idle")
    /\ Tell(b, <<Ack>>)
    /\ UNCHANGED <<can_build, line_counter, snippet_log>>

\* The checkout (module Checkout) knows the commit no more.
CommitMissing(b) ==
    /\ unacked[b] \in gone \ EmptyJobs
    /\ Goto(b, "preparing", "idle")
    /\ Tell(b, <<Ack>>)
    /\ UNCHANGED <<can_build, line_counter, snippet_log>>

MergeFailed(b) ==
    /\ unacked[b] \notin EmptyJobs
    /\ Goto(b, "preparing", "idle")
    /\ Tell(b, <<Result("Failure", MergeFailedOutput), Ack>>)
    /\ UNCHANGED <<can_build, line_counter, snippet_log>>

\* The attributes are partitioned by whether they instantiate.
LogStarted(b, can, cannot) ==
    /\ unacked[b] \notin EmptyJobs
    /\ can \/ cannot
    /\ can_build' = [can_build EXCEPT ![b] = can]
    /\ Goto(b, "preparing", IF cannot THEN "errors" ELSE "building")
    /\ Tell(b, <<LogMessage("Start", 0)>>)
    /\ UNCHANGED <<line_counter, snippet_log>>

\* Mutant: a full snippet takes no more lines.
LogLine_KeepsFirst(b) ==
    /\ pc[b] \in {"errors", "building"}
    /\ line_counter[b] < MaxLines
    /\ LET n == line_counter[b] + 1
       IN  /\ line_counter' = [line_counter EXCEPT ![b] = n]
           /\ snippet_log' = IF Len(snippet_log[b]) < SNIPPET
                              THEN [snippet_log EXCEPT ![b] = Append(@, n)]
                              ELSE snippet_log
           /\ Tell(b, <<LogMessage("Msg", n)>>)
    /\ UNCHANGED <<pc, can_build>>

\* Mutant: the line is published before line_counter is incremented.
LogLine_CountsLate(b) ==
    /\ pc[b] \in {"errors", "building"}
    /\ line_counter[b] < MaxLines
    /\ LET n == line_counter[b] + 1
           kept == IF Len(snippet_log[b]) >= SNIPPET THEN Tail(snippet_log[b]) ELSE snippet_log[b]
       IN  /\ line_counter' = [line_counter EXCEPT ![b] = n]
           /\ snippet_log' = [snippet_log EXCEPT ![b] = Append(kept, n)]
           /\ Tell(b, <<LogMessage("Msg", n - 1)>>)
    /\ UNCHANGED <<pc, can_build>>

\* log_line, for a line of an instantiation error or of the build.
LogLine(b) ==
    /\ pc[b] \in {"errors", "building"}
    /\ line_counter[b] < MaxLines
    /\ LET n == line_counter[b] + 1
           kept == IF Len(snippet_log[b]) >= SNIPPET THEN Tail(snippet_log[b]) ELSE snippet_log[b]
       IN  /\ line_counter' = [line_counter EXCEPT ![b] = n]
           /\ snippet_log' = [snippet_log EXCEPT ![b] = Append(kept, n)]
           /\ Tell(b, <<LogMessage("Msg", n)>>)
    /\ UNCHANGED <<pc, can_build>>

\* Mutant: the job is acknowledged before it is answered.
Finish_AckFirst(b, status) ==
    Tell(b, <<Ack, Result(status, snippet_log[b]), LogMessage("Finish", 0)>>)

Finish(b, status) ==
    Tell(b, <<Result(status, snippet_log[b]), LogMessage("Finish", 0), Ack>>)

\* The end of log_instantiation_errors, which has a heading and a blank line
\* at least: nothing is left to do, or the build is spawned.
BuildNotAttempted(b) ==
    /\ line_counter[b] >= 2
    /\ ~can_build[b]
    /\ Goto(b, "errors", "idle")
    /\ Finish(b, "Skipped")
    /\ UNCHANGED <<can_build, line_counter, snippet_log>>

BuildSpawned(b) ==
    /\ line_counter[b] >= 2
    /\ can_build[b]
    /\ Goto(b, "errors", "building")
    /\ Tell(b, <<>>)
    /\ UNCHANGED <<can_build, line_counter, snippet_log>>

\* lines() has ended and wait() has returned (module AsyncCmd).
BuildFinished(b, code) ==
    /\ Goto(b, "building", "idle")
    /\ Finish(b, StatusOf(code))
    /\ UNCHANGED <<can_build, line_counter, snippet_log>>

BrokerStep(b) == BrokerLogs(b) \/ BrokerResult(b) \/ BrokerAck(b)

WorkerStep(b) ==
    \/ NothingToDo(b)
    \/ CommitMissing(b)
    \/ MergeFailed(b)
    \/ \E can, cannot \in BOOLEAN : LogStarted(b, can, cannot)
    \/ LogLine(b)
    \/ BuildNotAttempted(b)
    \/ BuildSpawned(b)
    \/ \E code \in ExitCodes : BuildFinished(b, code)

Next ==
    \E b \in Builders :
        \/ \E j \in Jobs : Deliver(b, j)
        \/ BrokerStep(b)
        \/ Crash(b)
        \/ WorkerStep(b)

\* The broker delivers what is waiting to who is free, and a builder works on
\* while it lives: a build ends, because nix-build has a timeout.
Fairness ==
    /\ \A b \in Builders : WF_vars(BrokerStep(b)) /\ WF_vars(WorkerStep(b))
    /\ \A j \in Jobs : SF_vars(\E b \in Builders : Deliver(b, j))

Spec == Init /\ [][Next]_vars /\ Fairness

-----------------------------------------------------------------------------
(* Properties.                                                               *)

Outputs == Seq(0..MaxLines)
LogMessages == [to : {"logs"}, type : {"Start", "Msg", "Finish"}, line_number : 0..MaxLines]
Results == [to : {"build-results"}, status : Statuses, output : Outputs]
Actions == LogMessages \cup Results \cup {Ack}

TypeOK ==
    /\ ready \in SUBSET Jobs
    /\ unacked \in [Builders -> Jobs \cup {NoJob}]
    /\ acked \in SUBSET Jobs
    /\ logs \in Seq(Seq(LogMessages))
    /\ \A r \in results :
        /\ r.job \in Jobs /\ r.attempt \in DOMAIN attempts
        /\ r.status \in Statuses /\ r.output \in Outputs
    /\ attempts \in Seq(Jobs)
    /\ wire \in [Builders -> Seq(Actions)]
    /\ pc \in [Builders -> {"idle", "preparing", "errors", "building"}]
    /\ attempt \in [Builders -> 0..Len(attempts)]
    /\ can_build \in [Builders -> BOOLEAN]
    /\ line_counter \in [Builders -> 0..MaxLines]
    /\ snippet_log \in [Builders -> Outputs]
    /\ dead \in SUBSET DOMAIN attempts
    /\ crashes \in 0..MaxCrashes
    /\ gone \in SUBSET StaleJobs

\* Type correctness, and: a job is in one place, the queue, one builder or
\* settled, and the snippet holds SNIPPET lines at most.
TypeInv ==
    /\ TypeOK
    /\ \A j \in Jobs :
        Cardinality({b \in Builders : unacked[b] = j})
            + (IF j \in ready THEN 1 ELSE 0) + (IF j \in acked THEN 1 ELSE 0) = 1
    /\ \A b \in Builders : Len(snippet_log[b]) <= SNIPPET

Lines(a) == {i \in DOMAIN logs[a] : logs[a][i].type = "Msg"}

\* A result shows the end of the log of its attempt: the last SNIPPET lines
\* that were published before it, or that the merge failed and there is no log.
ResultsShowTheTail ==
    \A r \in results :
        LET n == Cardinality(Lines(r.attempt))
            k == IF n < SNIPPET THEN n ELSE SNIPPET
        IN  \/ r.output = MergeFailedOutput /\ logs[r.attempt] = <<>>
            \/ /\ r.output # MergeFailedOutput /\ logs[r.attempt] # <<>>
               /\ r.output = [i \in 1..k |-> n - k + i]

\* What the log collector relies on (module LogCollector): an attempt starts
\* its log once, numbers its lines from 1 without a gap, and says nothing
\* after its result, which the other exchange has by then.
LogsWellFormed ==
    \A a \in DOMAIN logs : \A i \in DOMAIN logs[a] :
        /\ logs[a][i].type = "Start" <=> i = 1
        /\ logs[a][i].type = "Msg" => logs[a][i].line_number = i - 1
        /\ logs[a][i].type = "Finish" =>
            i = Len(logs[a]) /\ \E r \in results : r.attempt = a

\* A job is answered a second time only when the connection of the builder
\* that answered it was lost, and then under another attempt_id.
SecondAnswerOnlyAfterCrash ==
    \A r, s \in results : r # s /\ r.job = s.job =>
        /\ r.attempt # s.attempt
        /\ r.attempt < s.attempt => r.attempt \in dead

\* Every job in the queue is settled in the end, as long as the builders do
\* not lose their connections for ever.
JobsSettled == \A j \in Jobs : j \in ready ~> j \in acked

\* The builders and the broker keep the promise of BuildRequests: a job is settled
\* once, and behind its answer unless it has no attributes or its commit may be missed.
Promise == INSTANCE BuildRequests
    WITH answered <- {r.job : r \in results}, settled <- acked,
         silent <- EmptyJobs \cup gone
RefinesBuildRequests == Promise!Spec
=============================================================================
