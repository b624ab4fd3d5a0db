------------------------------ MODULE Topology ------------------------------
(***************************************************************************)
(* The exchanges and queues between the programs.  Every program declares, *)
(* when it starts, what it reads from, and publishes to names that other   *)
(* programs may or may not have declared yet; the programs start in any    *)
(* order and die, the broker is down for a while, and the web hook is      *)
(* called at any time.  What one delivery does in detail is Pipeline's and *)
(* Evaluation's matter: here a program takes a message, publishes what     *)
(* follows from it and acknowledges, in one step.                          *)
(* The order of a queue and the copies of a message are not told apart.    *)
(***************************************************************************)
EXTENDS Naturals, FiniteSets, Sequences, SequencesExt

CONSTANTS Systems,      \* the systems there are builders for
          NoSystem,     \* of whatever is not for one system
          Nixpkgs,      \* the repository whose pull requests are evaluated, as words
          Sites         \* the instances to look at, each with
                        \*   systems:  the systems that jobs are made for
                        \*   programs: [role, system, all]; all is runner.build_all_jobs
                        \*   events:   a sequence of [kind, repo, asks], as GitHub sends them
                        \*   crashes:  bound: programs that die
                        \*   restarts: bound: times that the broker goes down

Single(role) == [role |-> role, system |-> NoSystem, all |-> FALSE]

IsSequence(s) == s \in Seq(ToSet(s))

ASSUME TopologyAssumption ==
  /\ NoSystem \notin Systems /\ IsSequence(Nixpkgs)
  /\ \A s \in Sites :
       /\ s.systems \subseteq Systems /\ IsFiniteSet(s.systems)
       /\ \A p \in s.programs :
            \/ p.role = "builder" /\ p.system \in Systems /\ p.all \in BOOLEAN
            \/ p \in {Single(r) : r \in {"comment-filter", "evaluation-filter", "poster",
                                         "evaluator", "collector", "stats"}}
       /\ IsSequence(s.events)
       /\ \A i \in DOMAIN s.events : /\ s.events[i].kind \in {"issue_comment", "pull_request"}
                                     /\ IsSequence(s.events[i].repo)
                                     /\ s.events[i].asks \in {"build", "eval"}
       /\ s.crashes \in Nat /\ s.restarts \in Nat

VARIABLES site,       \* the instance it is, which does not change
          running,    \* is the broker up?
          exchanges,  \* the exchanges the broker knows
          queues,     \* and the queues
          bindings,
          contents,   \* the messages of each queue
          up,         \* the programs that run
          deaf,       \* of those, the ones whose channel for statistics was closed
          next,       \* the next event
          crashes, restarts,
          started,    \* the programs that have ever been started
          dropped,    \* the messages that went to no queue
          answered    \* the messages that were acknowledged

broker == <<exchanges, queues, bindings>>
vars == <<site, running, exchanges, queues, bindings, contents, up, deaf, next, crashes, restarts,
          started, dropped, answered>>

Programs == site.programs
Events == site.events
AllPrograms == UNION {s.programs : s \in Sites}

-----------------------------------------------------------------------------
\* What the programs declare.  Queue names are pairs: the name, and the system
\* (or, for a queue the broker names, the program) it is for.

\* The default exchange has no name, nor has a queue that the broker is to name.
Unnamed == ""

Named(q) == <<q, NoSystem>>
Inputs(s) == <<"build-inputs-", s>>
Anonymous(p) == <<Unnamed, p>>
QueueNames ==
  {Named(q) : q \in {"github-events-unknown", "build-inputs", "mass-rebuild-check-jobs",
                     "mass-rebuild-check-inputs", "build-results", "stats-events"}}
    \cup {Inputs(s) : s \in Systems} \cup {Anonymous(p) : p \in AllPrograms}

Exchange(name, type) == [name |-> name, type |-> type, durable |-> TRUE]
Lasting(q) == [name |-> q, durable |-> TRUE]
Exclusive(q) == [name |-> q, durable |-> FALSE]
Binding(q, exchange, key) == [queue |-> q, exchange |-> exchange, key |-> key]

\* What a program declares and binds, and the queue it then consumes from.
\* Keys are sequences of words; a fanout exchange does not look at them.
Declares(exs, qs, binds, reads) ==
  [exchanges |-> exs, queues |-> qs, bindings |-> binds, reads |-> reads]

Comments == Named("build-inputs")
CommentFilter ==
  Declares({Exchange("github-events", "topic"), Exchange("build-jobs", "fanout")},
           {Lasting(Comments)},
           {Binding(Comments, "github-events", <<"issue_comment", "*">>)}, Comments)

PullRequests == Named("mass-rebuild-check-inputs")
EvaluationJobs == Named("mass-rebuild-check-jobs")
\* Mutant: the exchange of events is declared with another type than elsewhere.
EvaluationFilter_Direct ==
  Declares({Exchange("github-events", "direct")},
           {Lasting(EvaluationJobs), Lasting(PullRequests)},
           {Binding(PullRequests, "github-events", <<"pull_request">> \o Nixpkgs)}, PullRequests)
EvaluationFilter ==
  Declares({Exchange("github-events", "topic")},
           {Lasting(EvaluationJobs), Lasting(PullRequests)},
           {Binding(PullRequests, "github-events", <<"pull_request">> \o Nixpkgs)}, PullRequests)

Results == Named("build-results")
Poster ==
  Declares({Exchange("build-results", "fanout")}, {Lasting(Results)},
           {Binding(Results, "build-results", <<>>)}, Results)

Evaluator == Declares({}, {Lasting(EvaluationJobs)}, {}, EvaluationJobs)

Builder(p) ==
  LET q == IF p.all THEN Anonymous(p) ELSE Inputs(p.system)
  IN  Declares({Exchange("build-jobs", "fanout")},
               {IF p.all THEN Exclusive(q) ELSE Lasting(q)},
               {Binding(q, "build-jobs", <<>>)}, q)

Logs == Anonymous(Single("collector"))
\* Mutant: the logs are bound with a key of one word.
Collector_OneWord ==
  Declares({Exchange("logs", "topic")}, {Exclusive(Logs)}, {Binding(Logs, "logs", <<"*">>)}, Logs)
Collector ==
  Declares({Exchange("logs", "topic")}, {Exclusive(Logs)},
           {Binding(Logs, "logs", <<"*", "*">>)}, Logs)

Statistics == Named("stats-events")
Stats ==
  Declares({Exchange("stats", "fanout")}, {Lasting(Statistics)},
           {Binding(Statistics, "stats", <<>>)}, Statistics)

Setup(p) ==
  CASE p.role = "comment-filter"    -> CommentFilter
    [] p.role = "evaluation-filter" -> EvaluationFilter
    [] p.role = "poster"            -> Poster
    [] p.role = "evaluator"         -> Evaluator
    [] p.role = "builder"           -> Builder(p)
    [] p.role = "collector"         -> Collector
    [] p.role = "stats"             -> Stats

\* The receiver of the web hooks declares on every call.
WebHook ==
  LET unknown == Named("github-events-unknown")
  IN  Declares({Exchange("github-events", "topic")}, {Lasting(unknown)},
               {Binding(unknown, "github-events", <<"unknown", "*">>)}, unknown)

-----------------------------------------------------------------------------
\* Messages: an event is named by its place in Events, the others by the event
\* they come from.

Message(kind, of, s) == [kind |-> kind, of |-> of, system |-> s]
EventMessage(i) == Message(Events[i].kind, i, NoSystem)
Kinds == {"issue_comment", "pull_request", "job", "queued", "evaluation", "log", "result", "stat"}
Messages == [kind : Kinds, of : DOMAIN Events, system : Systems \cup {NoSystem}]
IsEvent(m) == m.kind \in {"issue_comment", "pull_request"}

\* Only the web hook asks for its messages to be kept on disk.
Persistent(m) == IsEvent(m)

\* What is published: to an exchange ("" is the default one, whose keys are the
\* names of queues), on the channel the program consumes on or on another.
Publication(exchange, key, m) ==
  [exchange |-> exchange, key |-> key, message |-> m, side |-> FALSE]

\* Mutant: jobs go to the exchange that every builder is bound to.
Jobs_Fanout(i) ==
  SetToSeq({Publication("build-jobs", <<>>, Message("job", i, s)) : s \in site.systems})
Jobs(i) == SetToSeq({Publication(Unnamed, Inputs(s), Message("job", i, s)) : s \in site.systems})
Queued(i) == Publication("build-results", <<>>, Message("queued", i, NoSystem))
Evaluation(i) ==
  Publication(Unnamed, EvaluationJobs, Message("evaluation", i, NoSystem))
Stat(i) ==
  [Publication("stats", <<>>, Message("stat", i, NoSystem)) EXCEPT !.side = TRUE]

\* The key of a log: the repository's full name and the pull request's number.
LogKey(i) == Append(Events[i].repo, "number")

\* What a program publishes for a message, in this order.
Follows(p, m) ==
  CASE p.role = "comment-filter" ->
         IF Events[m.of].asks = "build" THEN Append(Jobs(m.of), Queued(m.of))
                                        ELSE <<Evaluation(m.of)>>
    [] p.role = "evaluation-filter" -> <<Evaluation(m.of)>>
    [] p.role = "evaluator" -> <<Stat(m.of)>> \o Append(Jobs(m.of), Queued(m.of))
    [] p.role = "builder" ->
         LET result == Message("result", m.of, m.system)
         IN  <<Publication("logs", LogKey(m.of), Message("log", m.of, m.system)),
               Publication("build-results", <<>>, result),
               Publication("logs", LogKey(m.of), result)>>
    [] OTHER -> <<>>

-----------------------------------------------------------------------------
Known(q) == \E x \in queues : x.name = q

Init ==
  /\ site \in Sites /\ running = TRUE
  /\ exchanges = {} /\ queues = {} /\ bindings = {}
  /\ contents = [q \in QueueNames |-> {}]
  /\ up = {} /\ deaf = {}
  /\ next = 1 /\ crashes = 0 /\ restarts = 0
  /\ started = {} /\ dropped = {} /\ answered = {}

-----------------------------------------------------------------------------
\* The broker.

\* A star stands for exactly one word.
Matches(pattern, key) ==
  /\ Len(pattern) = Len(key)
  /\ \A i \in DOMAIN key : pattern[i] \in {"*", key[i]}

Routed(pub, exs, qs, binds) ==
  IF pub.exchange = Unnamed
  THEN {q \in {pub.key} : \E x \in qs : x.name = q}
  ELSE {b.queue : b \in {c \in binds :
          /\ c.exchange = pub.exchange
          /\ \E e \in exs : /\ e.name = pub.exchange
                            /\ e.type = "topic" => Matches(c.key, pub.key)}}

\* A declaration that differs from what is there closes the channel.
Agrees(setup) ==
  /\ \A e \in exchanges, f \in setup.exchanges : e.name = f.name => e = f
  /\ \A x \in queues, y \in setup.queues : x.name = y.name => x = y
Declare(setup) ==
  /\ exchanges' = exchanges \cup setup.exchanges
  /\ queues' = queues \cup setup.queues
  /\ bindings' = bindings \cup setup.bindings

\* The connections of the programs in ps end: their exclusive queues go.
Disconnect(ps) ==
  LET gone == {Anonymous(p) : p \in ps}
  IN  /\ queues' = {x \in queues : x.name \notin gone}
      /\ bindings' = {b \in bindings : b.queue \notin gone}
      /\ up' = up \ ps
      /\ deaf' = deaf \ ps

\* The broker goes down, and no program survives it.  What is on its disk is what
\* it will come back with: it may take any time to, in which nobody can connect.
BrokerStops ==
  /\ running /\ restarts < site.restarts
  /\ running' = FALSE
  /\ restarts' = restarts + 1
  /\ exchanges' = {e \in exchanges : e.durable}
  /\ queues' = {x \in queues : x.durable}
  /\ bindings' = {b \in bindings : /\ \E x \in queues' : x.name = b.queue
                                   /\ \E e \in exchanges' : e.name = b.exchange}
  /\ contents' = [q \in QueueNames |->
                    IF \E x \in queues' : x.name = q
                    THEN {m \in contents[q] : Persistent(m)} ELSE {}]
  /\ up' = {} /\ deaf' = {}
  /\ UNCHANGED <<site, next, crashes, started, dropped, answered>>
BrokerStarts ==
  /\ ~running
  /\ running' = TRUE
  /\ UNCHANGED <<site, broker, contents, up, deaf, next, crashes, restarts, started,
                 dropped, answered>>

-----------------------------------------------------------------------------
\* GitHub calls the web hook, which publishes the event and asks for no
\* confirmation: a broker that goes down before it has the event loses it, as
\* it does one that is sent when it is down.
Receive ==
  /\ next \in DOMAIN Events
  /\ running /\ Agrees(WebHook)
  /\ Declare(WebHook)
  /\ LET m == EventMessage(next)
         pub == Publication("github-events", <<m.kind>> \o Events[next].repo, m)
         to == Routed(pub, exchanges', queues', bindings')
     IN  /\ contents' = [q \in QueueNames |->
                           IF q \in to THEN contents[q] \cup {m} ELSE contents[q]]
         /\ dropped' = IF to = {} THEN dropped \cup {m} ELSE dropped
  /\ next' = next + 1
  /\ UNCHANGED <<site, running, up, deaf, crashes, restarts, started, answered>>

\* The web hook reaches no broker in 25 seconds, or may not declare: it ends with
\* an error, GitHub does not call again, and nothing is left of the event.
Rejected ==
  /\ next \in DOMAIN Events
  /\ ~(running /\ Agrees(WebHook))
  /\ dropped' = dropped \cup {EventMessage(next)}
  /\ next' = next + 1
  /\ UNCHANGED <<site, running, broker, contents, up, deaf, crashes, restarts, started,
                 answered>>

\* The service manager starts a program, which declares, binds and consumes.
Start(p) ==
  /\ running /\ p \notin up
  /\ Agrees(Setup(p))
  /\ Declare(Setup(p))
  /\ up' = up \cup {p}
  /\ started' = started \cup {p}
  /\ UNCHANGED <<site, running, contents, deaf, next, crashes, restarts, dropped, answered>>

Crash(p) ==
  /\ p \in up /\ crashes < site.crashes
  /\ crashes' = crashes + 1
  /\ Disconnect({p})
  /\ contents' = [contents EXCEPT ![Anonymous(p)] = {}]
  /\ UNCHANGED <<site, running, exchanges, next, restarts, started, dropped, answered>>

\* What of pubs reaches the broker: to publish to an exchange that is not there
\* closes the channel, and nothing after it on that channel is heard.
Undeclared(pub) == pub.exchange # Unnamed /\ ~\E e \in exchanges : e.name = pub.exchange
Closes(pub) == Undeclared(pub) /\ ~pub.side
Heard(p, pubs) ==
  {i \in DOMAIN pubs : /\ \A j \in 1..i : ~Closes(pubs[j])
                       /\ pubs[i].side => p \notin deaf /\ ~Undeclared(pubs[i])}

\* p takes message m.  When all that follows from it is published it is
\* acknowledged; when the channel is closed under it the program ends, and the
\* message goes back to its queue.
Handle(p, m) ==
  LET pubs == Follows(p, m)
      heard == Heard(p, pubs)
      ok == \A i \in DOMAIN pubs : ~Closes(pubs[i])
      own == Setup(p).reads
      to(i) == Routed(pubs[i], exchanges, queues, bindings)
      sent(q) == {pubs[i].message : i \in {j \in heard : q \in to(j)}}
      kept(q) == IF q # own THEN contents[q]
                 ELSE IF ok THEN contents[q] \ {m}
                 ELSE IF own = Anonymous(p) THEN {} ELSE contents[q]
  IN  /\ p \in up /\ m \in contents[own]
      /\ contents' = [q \in QueueNames |-> kept(q) \cup sent(q)]
      /\ dropped' = dropped \cup
                    {pubs[i].message : i \in {j \in DOMAIN pubs :
                       \/ j \in heard /\ to(j) = {}
                       \/ pubs[j].side /\ j \notin heard}}
      /\ answered' = IF ok THEN answered \cup {m} ELSE answered
      /\ IF ok
         THEN /\ deaf' = IF \E i \in DOMAIN pubs : pubs[i].side /\ Undeclared(pubs[i])
                         THEN deaf \cup {p} ELSE deaf
              /\ UNCHANGED <<queues, bindings, up>>
         ELSE Disconnect({p})
      /\ UNCHANGED <<site, running, exchanges, next, crashes, restarts, started>>

Next ==
  \/ Receive \/ Rejected
  \/ \E p \in Programs : Start(p) \/ Crash(p)
  \/ \E p \in Programs : \E m \in contents[Setup(p).reads] : Handle(p, m)
  \/ BrokerStops \/ BrokerStarts

\* Services are started again whenever they end, GitHub calls when something
\* happens, and a program takes what is in its queue.  A program that is up
\* cannot be started and one that is not takes nothing, so it is fair to both.
\* Nothing says when, or that, the broker comes back.
Goes(p) == p \in Programs /\ (Start(p) \/ \E m \in contents[Setup(p).reads] : Handle(p, m))
Fairness == WF_vars(Receive \/ Rejected) /\ \A p \in AllPrograms : WF_vars(Goes(p))

Spec == Init /\ [][Next]_vars /\ Fairness

-----------------------------------------------------------------------------
\* The state the broker and the programs can be in: a binding joins what is
\* there, a queue that is not there holds nothing, an exclusive queue is there
\* only while its program runs (easyamqp's bind_queue and declare_queue), and a
\* program only while the broker does.
TypeInv ==
  /\ running \in BOOLEAN /\ (up # {} => running)
  /\ \A b \in bindings : /\ Known(b.queue) /\ b.queue \in QueueNames
                         /\ \E e \in exchanges : e.name = b.exchange
  /\ \A q \in QueueNames : contents[q] \subseteq (IF Known(q) THEN Messages ELSE {})
  /\ \A x, y \in queues : x.name = y.name => x = y
  /\ \A p \in Programs : Known(Anonymous(p)) => p \in up
  /\ site \in Sites
  /\ deaf \subseteq up /\ up \subseteq started /\ started \subseteq Programs
  /\ dropped \subseteq Messages /\ answered \subseteq Messages

\* What QueuesInOrder says of the queues: whatever the order in which the programs
\* declare and publish, a queue only ever holds what its reader reads, and a build
\* job is never in the queue of a system it is not for.  Anything else would not be
\* dealt with: most readers acknowledge what they cannot decode unread
\* (worker.rs:84-88), the comment filter and the builder panic and get it again.
Readable(p) ==
  CASE p.role = "comment-filter"    -> {"issue_comment"}
    [] p.role = "evaluation-filter" -> {"pull_request"}
    [] p.role = "poster"            -> {"queued", "result"}
    [] p.role = "evaluator"         -> {"evaluation"}
    [] p.role = "builder"           -> {"job"}
    [] p.role = "collector"         -> {"log", "result"}
    [] p.role = "stats"             -> {"stat"}
OnlyWhatIsRead ==
  \A p \in Programs : \A m \in contents[Setup(p).reads] :
    /\ m.kind \in Readable(p)
    /\ p.role = "builder" => m.system = p.system

\* An event that the web hook could hand over is kept until the program it is for
\* has dealt with it, over deaths of every program and of the broker: the web hook
\* makes it persistent, and its queue has to be too.  The ones that it could not
\* hand over, or that no queue took, are in dropped; DropsExplained says which.
EventsAreKept ==
  \A i \in 1..(next - 1) :
    \/ EventMessage(i) \in dropped \cup answered
    \/ \E q \in QueueNames : EventMessage(i) \in contents[q]

QueuesInOrder == TypeInv /\ OnlyWhatIsRead /\ EventsAreKept

\* Nobody is told of a message that goes to no queue.  It only happens to an event
\* while the broker is down, where the reader has never run (its queue is declared
\* by the reader), to logs while nobody collects them, to a repository that a
\* binding does not name (one with a dot is two words), and to the statistics of an
\* evaluator that began too early.
Excused(m) ==
  LET repo == Events[m.of].repo
  IN  CASE m.kind = "issue_comment" -> \/ Single("comment-filter") \notin started
                                       \/ Len(repo) # 1 \/ ~running
        [] m.kind = "pull_request"  -> \/ Single("evaluation-filter") \notin started
                                       \/ repo # Nixpkgs \/ ~running
        [] m.kind = "evaluation"    -> {Single("evaluation-filter"), Single("evaluator")}
                                          \cap started = {}
        [] m.kind = "job"           -> ~\E b \in started : b.role = "builder" /\ ~b.all
                                                           /\ b.system = m.system
        [] m.kind \in {"log", "result"} -> Single("collector") \notin up \/ Len(repo) # 1
        [] m.kind = "stat"          -> \/ Single("stats") \notin started
                                       \/ Single("evaluator") \in deaf
        [] OTHER                    -> FALSE
DropsExplained == [][\A m \in dropped' \ dropped : Excused(m)]_vars

\* Programs that publish to an exchange nobody has declared yet go down and are
\* started again; from every order of starts and deaths they all end up running,
\* with everything that reached a queue dealt with, if only the broker stays up in
\* the end (easyamqp.rs:338-398, worker.rs:106-118).  Only where no collector or no
\* poster is deployed, and so nobody ever declares the exchange of the logs or of
\* the results, those that publish to it go down on every job for ever.
ComesUp ==
  <>[]running =>
  <>[]({Single("collector"), Single("poster")} \subseteq Programs =>
         /\ up = Programs
         /\ next > Len(Events)
         /\ \A p \in Programs : contents[Setup(p).reads] = {})
=============================================================================
