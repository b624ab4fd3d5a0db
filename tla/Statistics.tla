----------------------------- MODULE Statistics -----------------------------
(***************************************************************************)
(* The events an evaluator publishes (tasks/evaluate.rs, stats.rs), the     *)
(* worker that counts them (tasks/statscollector.rs), the counters it has   *)
(* (the MetricCollector that ofborg/build.rs generates, one mutex for each  *)
(* metric), and the threads that serve them over HTTP (bin/stats.rs).       *)
(***************************************************************************)
EXTENDS Integers, Sequences, SequencesExt, FiniteSets

CONSTANTS
    Evaluators,
    Scrapers,       \* threads of the HTTP server
    MaxJobs,        \* bound: jobs the evaluators receive
    MaxIncidents    \* bound: requests to the HTTP server, messages in the old format
                    \* or in none, and deaths of the collector, together

\* events(), in its order; target_branch_fails_evaluation is never published.
Metrics == <<"stat_collector_legacy_event", "stat_collector_bogus_event", "job_received",
             "evaluation_duration", "evaluation_duration_count", "job_decode_success",
             "job_decode_failure", "issue_already_closed", "issue_fetch_failed",
             "task_evaluation_check_complete">>

Collector == "collector"
Nobody == ""                    \* the sender of a message in the old format
Senders == Evaluators \cup {Collector, Nobody}
NoMessage == [is |-> "nothing"]
Free == "free"

VARIABLES
    queue,      \* stats-events
    message,    \* what the collector is handling
    at,         \* where it is with that
    counters,   \* counters[metric][sender]
    lock,       \* lock[metric]: who holds its mutex
    phase,      \* phase[e]: where the evaluator e is with its job
    reached,    \* reached[s]: how many metrics the thread s has written out
    output,     \* output[s]: what it wrote
    sent,       \* sent[metric][sender]: what was published
    jobs, scrapes, odd, crashes

collectorVars == <<message, at, counters>>
scrapeVars == <<lock, reached, output, scrapes>>
evaluatorVars == <<phase, jobs>>
vars == <<queue, collectorVars, scrapeVars, evaluatorVars, sent, odd, crashes>>

MoreIncidents == scrapes + odd + crashes < MaxIncidents

Zero == [metric \in ToSet(Metrics) |-> [s \in Senders |-> 0]]

Init ==
    /\ queue = <<>>
    /\ message = NoMessage
    /\ at = "idle"
    /\ counters = Zero
    /\ lock = [metric \in ToSet(Metrics) |-> Free]
    /\ phase = [e \in Evaluators |-> "idle"]
    /\ reached = [s \in Scrapers |-> 0]
    /\ output = [s \in Scrapers |-> Zero]
    /\ sent = Zero
    /\ jobs = 0
    /\ scrapes = 0
    /\ odd = 0
    /\ crashes = 0

Event(sender, metric, value) == [is |-> "event", sender |-> sender, metric |-> metric, value |-> value]

-----------------------------------------------------------------------------
(* An evaluator and its events.                                              *)

\* RabbitMQ::notify: the exchange hands the message to the queue.
Notify(sender, metric, value) ==
    /\ queue' = Append(queue, Event(sender, metric, value))
    /\ sent' = [sent EXCEPT ![metric][sender] = @ + value]

Goes(e, from, to) == phase[e] = from /\ phase' = [phase EXCEPT ![e] = to]

Receive(e) ==
    /\ jobs < MaxJobs
    /\ Goes(e, "idle", "received")
    /\ Notify(e, "job_received", 1)
    /\ jobs' = jobs + 1
    /\ UNCHANGED <<collectorVars, scrapeVars, odd, crashes>>

Tells(e, from, metric, to) ==
    /\ Goes(e, from, to)
    /\ Notify(e, metric, 1)
    /\ UNCHANGED <<collectorVars, scrapeVars, jobs, odd, crashes>>

DecodeFails(e) == Tells(e, "received", "job_decode_failure", "idle")
Decode(e) == Tells(e, "received", "job_decode_success", "reading")
IssueClosed(e) == Tells(e, "reading", "issue_already_closed", "idle")
IssueFetchFails(e) == Tells(e, "reading", "issue_fetch_failed", "idle")

\* The timer is started when the target branch has been evaluated and read at
\* once: it tells of no whole second.
EvaluationDuration(e) ==
    /\ Goes(e, "reading", "timed")
    /\ Notify(e, "evaluation_duration", 0)
    /\ UNCHANGED <<collectorVars, scrapeVars, jobs, odd, crashes>>

EvaluationDurationCount(e) == Tells(e, "timed", "evaluation_duration_count", "checking")

Complete(e) == Tells(e, "checking", "task_evaluation_check_complete", "idle")

\* An evaluation that stops early says nothing, nor does a crash.
Stop(e) ==
    /\ phase[e] # "idle"
    /\ phase' = [phase EXCEPT ![e] = "idle"]
    /\ UNCHANGED <<queue, collectorVars, scrapeVars, sent, jobs, odd, crashes>>

Evaluate(e) ==
    \/ Receive(e) \/ DecodeFails(e) \/ Decode(e) \/ IssueClosed(e) \/ IssueFetchFails(e)
    \/ EvaluationDuration(e) \/ EvaluationDurationCount(e) \/ Complete(e) \/ Stop(e)

\* Messages of programs that are older than the format, or no messages at all.
OddMessage(kind) ==
    /\ MoreIncidents
    /\ odd' = odd + 1
    /\ queue' = Append(queue, [is |-> kind, sender |-> Nobody, metric |-> "job_received", value |-> 1])
    /\ sent' = IF kind = "legacy"
               THEN [sent EXCEPT !["job_received"][Nobody] = @ + 1] ELSE sent
    /\ UNCHANGED <<collectorVars, scrapeVars, evaluatorVars, crashes>>

-----------------------------------------------------------------------------
(* StatCollectorWorker, in the loop of worker.rs.                            *)

Take ==
    /\ at = "idle" /\ queue # <<>>
    /\ message' = Head(queue)
    /\ queue' = Tail(queue)
    /\ at' = "decoding"
    /\ UNCHANGED <<counters, scrapeVars, evaluatorVars, sent, odd, crashes>>

DecodeEvent ==
    /\ at = "decoding" /\ message.is = "event"
    /\ at' = "recording"
    /\ UNCHANGED <<queue, message, counters, scrapeVars, evaluatorVars, sent, odd, crashes>>

\* The collector tells itself, through the queue.
DecodeLegacy ==
    /\ at = "decoding" /\ message.is = "legacy"
    /\ Notify(Collector, "stat_collector_legacy_event", 1)
    /\ at' = "recording"
    /\ UNCHANGED <<message, counters, scrapeVars, evaluatorVars, odd, crashes>>

\* What does not decode is acknowledged by the loop.
DecodeBogus ==
    /\ at = "decoding" /\ message.is = "bogus"
    /\ Notify(Collector, "stat_collector_bogus_event", 1)
    /\ at' = "acking"
    /\ UNCHANGED <<message, counters, scrapeVars, evaluatorVars, odd, crashes>>

\* MetricCollector::record: one mutex is taken and left again.
Record ==
    /\ at = "recording" /\ lock[message.metric] = Free
    /\ counters' = [counters EXCEPT ![message.metric][message.sender] = @ + message.value]
    /\ at' = "acking"
    /\ UNCHANGED <<queue, message, scrapeVars, evaluatorVars, sent, odd, crashes>>

Ack ==
    /\ at = "acking"
    /\ message' = NoMessage
    /\ at' = "idle"
    /\ UNCHANGED <<queue, counters, scrapeVars, evaluatorVars, sent, odd, crashes>>

\* The process dies: the counters are gone, the message comes again, and
\* requests that were being served get no answer.
Crash ==
    /\ MoreIncidents
    /\ crashes' = crashes + 1
    /\ queue' = IF message = NoMessage THEN queue ELSE <<message>> \o queue
    /\ message' = NoMessage
    /\ at' = "idle"
    /\ counters' = Zero
    /\ lock' = [metric \in ToSet(Metrics) |-> Free]
    /\ reached' = [s \in Scrapers |-> 0]
    /\ output' = [s \in Scrapers |-> Zero]
    /\ UNCHANGED <<scrapes, evaluatorVars, sent, odd>>

Collect == Take \/ DecodeEvent \/ DecodeLegacy \/ DecodeBogus \/ Record \/ Ack

-----------------------------------------------------------------------------
(* prometheus_output: the guards of all mutexes live to the end of it.       *)

WriteOut(s) ==
    /\ reached[s] < Len(Metrics) /\ (reached[s] = 0 => MoreIncidents)
    /\ LET metric == Metrics[reached[s] + 1]
       IN  /\ lock[metric] = Free
           /\ lock' = [lock EXCEPT ![metric] = s]
           /\ output' = [output EXCEPT ![s][metric] = counters[metric]]
    /\ reached' = [reached EXCEPT ![s] = @ + 1]
    /\ scrapes' = IF reached[s] = 0 THEN scrapes + 1 ELSE scrapes
    /\ UNCHANGED <<queue, collectorVars, evaluatorVars, sent, odd, crashes>>

\* Mutant: the last mutex stays locked.
Respond_KeepsLast(s) ==
    /\ reached[s] = Len(Metrics)
    /\ lock' = [metric \in ToSet(Metrics) |->
                   IF lock[metric] = s /\ metric # Last(Metrics) THEN Free ELSE lock[metric]]
    /\ reached' = [reached EXCEPT ![s] = 0]
    /\ output' = [output EXCEPT ![s] = Zero]
    /\ UNCHANGED <<queue, scrapes, collectorVars, evaluatorVars, sent, odd, crashes>>

Respond(s) ==
    /\ reached[s] = Len(Metrics)
    /\ lock' = [metric \in ToSet(Metrics) |-> IF lock[metric] = s THEN Free ELSE lock[metric]]
    /\ reached' = [reached EXCEPT ![s] = 0]
    /\ output' = [output EXCEPT ![s] = Zero]
    /\ UNCHANGED <<queue, scrapes, collectorVars, evaluatorVars, sent, odd, crashes>>

Scrape(s) == WriteOut(s) \/ Respond(s)

Next ==
    \/ \E e \in Evaluators : Evaluate(e)
    \/ \E kind \in {"legacy", "bogus"} : OddMessage(kind)
    \/ Collect \/ Crash
    \/ \E s \in Scrapers : Scrape(s)

\* The threads of the collector go on; evaluators need not.
Spec == Init /\ [][Next]_vars /\ WF_vars(Collect) /\ \A s \in Scrapers : WF_vars(Scrape(s))

-----------------------------------------------------------------------------

\* A page that is served is what the counters were at one time: the guards of the
\* mutexes shadow each other and are all held until the page is complete
\* (build.rs:532-566), although deliveries are recorded meanwhile.
PagesAreSnapshots ==
    \A s \in Scrapers : reached[s] = Len(Metrics) => output[s] = counters

\* The counters on a page add up, as long as the collector has not been started
\* anew: no evaluator has decoded more jobs than it received, looked at more than
\* it decoded, or completed more than it looked at (evaluate.rs:97-104, 133-153,
\* 227-232, 358; build.rs:198-251 lists them in another order).
PagesAddUp ==
    \A s \in Scrapers, e \in Evaluators : reached[s] = Len(Metrics) /\ crashes = 0 =>
        LET n(metric) == output[s][metric][e] IN
        /\ n("job_received") >= n("job_decode_success") + n("job_decode_failure")
        /\ n("job_decode_success") >= n("issue_already_closed") + n("issue_fetch_failed")
                                      + n("evaluation_duration_count")
        /\ n("evaluation_duration_count") >= n("task_evaluation_check_complete")

\* Each event that was published is counted once, those of old programs as well
\* and those the collector makes of messages it cannot read; after a crash some
\* are missing, and never is one counted twice (statscollector.rs:31-67).
CountedOnce ==
    /\ queue = <<>> /\ at = "idle" /\ crashes = 0 => counters = sent
    /\ \A metric \in ToSet(Metrics) : \A s \in Senders : counters[metric][s] <= sent[metric][s]

\* Every message is handled and every page is served: deliveries and requests
\* wait for mutexes of each other, and never in a circle (build.rs:480-566).
CollectorGoesOn ==
    /\ <>[](queue = <<>> /\ at = "idle")
    /\ \A s \in Scrapers : []<>(reached[s] = 0)
=============================================================================
