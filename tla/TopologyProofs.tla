--------------------------- MODULE TopologyProofs ---------------------------
(***************************************************************************)
(* Proofs about Topology, for every set of programs, every sequence of       *)
(* events, any number of crashes and a broker that goes down at any time and *)
(* for any time.  What the broker has is what the programs declare           *)
(* (Standing); a queue holds what its reader reads (Filled); an event that   *)
(* was handed over is somewhere (Remembered).                                *)
(***************************************************************************)
EXTENDS Topology, FiniteSetTheorems, SequenceTheorems, TLAPS

-----------------------------------------------------------------------------
(* What the programs declare.                                                *)

\* All there is: nothing is declared in two ways.
AllExchanges ==
    {Exchange("github-events", "topic"), Exchange("build-jobs", "fanout"),
     Exchange("build-results", "fanout"), Exchange("logs", "topic"), Exchange("stats", "fanout")}
Exclusively(q) == q[1] = Unnamed
AllQueues == {[name |-> q, durable |-> ~Exclusively(q)] : q \in QueueNames}

ResultsBinding == Binding(Results, "build-results", <<>>)
Unknown == Named("github-events-unknown")
AllBindings ==
    {Binding(Comments, "github-events", <<"issue_comment", "*">>),
     Binding(PullRequests, "github-events", <<"pull_request">> \o Nixpkgs),
     Binding(Unknown, "github-events", <<"unknown", "*">>),
     Binding(Statistics, "stats", <<>>), Binding(Logs, "logs", <<"*", "*">>), ResultsBinding}
        \cup {Binding(q, "build-jobs", <<>>) : q \in QueueNames}

\* The names of queues.
LEMMA Names ==
  /\ \A q : Named(q)[1] = q
  /\ \A s : Inputs(s)[1] = "build-inputs-"
  /\ \A p : Anonymous(p)[1] = Unnamed
BY DEF Named, Inputs, Anonymous

\* None of these names is empty.
LEMMA Nameless ==
  /\ Unnamed # "github-events-unknown" /\ Unnamed # "build-inputs" /\ Unnamed # "mass-rebuild-check-jobs"
  /\ Unnamed # "mass-rebuild-check-inputs" /\ Unnamed # "build-results" /\ Unnamed # "stats-events"
  /\ Unnamed # "build-inputs-" /\ Unnamed # "github-events" /\ Unnamed # "build-jobs"
  /\ Unnamed # "logs" /\ Unnamed # "stats"
BY Zenon DEF Unnamed

\* They differ when what they are for does.
LEMMA NamesDiffer ==
  /\ \A s, t : Inputs(s) = Inputs(t) => s = t
  /\ \A p, q : Anonymous(p) = Anonymous(q) => p = q
BY DEF Inputs, Anonymous

\* Whoever is started is one of these, and reads from a queue of his own.
LEMMA Roles ==
  ASSUME site \in Sites, NEW p \in Programs
  PROVE  \/ p = Single("comment-filter") /\ Setup(p) = CommentFilter
         \/ p = Single("evaluation-filter") /\ Setup(p) = EvaluationFilter
         \/ p = Single("poster") /\ Setup(p) = Poster
         \/ p = Single("evaluator") /\ Setup(p) = Evaluator
         \/ p = Single("collector") /\ Setup(p) = Collector
         \/ p = Single("stats") /\ Setup(p) = Stats
         \/ /\ p.role = "builder" /\ p.system \in Systems /\ p.all \in BOOLEAN
            /\ Setup(p) = Builder(p)
<1>1. \/ p.role = "builder" /\ p.system \in Systems /\ p.all \in BOOLEAN
      \/ p \in {Single(r) : r \in {"comment-filter", "evaluation-filter", "poster",
                                   "evaluator", "collector", "stats"}}
  BY TopologyAssumption DEF Programs
<1>2. \A r : Single(r).role = r
  BY DEF Single
<1>3. CASE p.role = "builder" /\ p.system \in Systems /\ p.all \in BOOLEAN
  BY <1>3 DEF Setup
<1>4. ASSUME NEW r \in {"comment-filter", "evaluation-filter", "poster",
                        "evaluator", "collector", "stats"}, p = Single(r)
      PROVE  \/ r = "comment-filter" /\ Setup(p) = CommentFilter
             \/ r = "evaluation-filter" /\ Setup(p) = EvaluationFilter
             \/ r = "poster" /\ Setup(p) = Poster
             \/ r = "evaluator" /\ Setup(p) = Evaluator
             \/ r = "collector" /\ Setup(p) = Collector
             \/ r = "stats" /\ Setup(p) = Stats
  <2>1. p.role = r
    BY <1>2, <1>4
  <2> QED
    BY <2>1 DEF Setup
<1> QED
  BY <1>1, <1>3, <1>4

\* The parts of a declaration.
LEMMA Parts ==
  \A exs, qs, binds, reads :
    /\ Declares(exs, qs, binds, reads).exchanges = exs
    /\ Declares(exs, qs, binds, reads).queues = qs
    /\ Declares(exs, qs, binds, reads).bindings = binds
    /\ Declares(exs, qs, binds, reads).reads = reads
BY DEF Declares

\* What is right about a declaration.
Orderly(setup) ==
    /\ setup.exchanges \subseteq AllExchanges
    /\ setup.queues \subseteq AllQueues
    /\ setup.bindings \subseteq AllBindings
    /\ \A b \in setup.bindings : /\ \E x \in setup.queues : x.name = b.queue
                                 /\ \E e \in setup.exchanges : e.name = b.exchange
    /\ (\E e \in setup.exchanges : e.name = "build-results") => ResultsBinding \in setup.bindings
    /\ setup.reads \in QueueNames

\* What they consist of.
LEMMA Fields ==
  /\ \A q : Lasting(q).name = q /\ Exclusive(q).name = q
  /\ \A name, type : Exchange(name, type).name = name
  /\ \A q, exchange, key : /\ Binding(q, exchange, key).queue = q
                           /\ Binding(q, exchange, key).exchange = exchange
                           /\ Binding(q, exchange, key).key = key
BY DEF Lasting, Exclusive, Exchange, Binding

\* What is declared is kept as it was declared.
LEMMA KeptAsDeclared ==
  \A q \in QueueNames : /\ ~Exclusively(q) => Lasting(q) \in AllQueues
                        /\ Exclusively(q) => Exclusive(q) \in AllQueues
BY DEF Lasting, Exclusive, AllQueues

\* The queues of the programs are queues.
LEMMA QueuesThereAre ==
  /\ Comments \in QueueNames /\ EvaluationJobs \in QueueNames /\ PullRequests \in QueueNames
  /\ Results \in QueueNames /\ Statistics \in QueueNames /\ Unknown \in QueueNames
  /\ \A s \in Systems : Inputs(s) \in QueueNames
  /\ \A p \in Programs : site \in Sites => Anonymous(p) \in QueueNames
  /\ \A q \in {Comments, EvaluationJobs, PullRequests, Results, Statistics, Unknown} : ~Exclusively(q)
  /\ \A s : ~Exclusively(Inputs(s))
  /\ \A p : Exclusively(Anonymous(p))
<1>1. \A p \in Programs : site \in Sites => p \in AllPrograms
  BY DEF Programs, AllPrograms
<1> QED
  BY <1>1, Names, Nameless DEF QueueNames, Comments, EvaluationJobs, PullRequests, Results, Statistics,
     Unknown, Exclusively

\* What every program declares is in order, and the only exclusive queue in it is
\* the one it reads from.
LEMMA OrderlySetups ==
  ASSUME site \in Sites, NEW p \in Programs
  PROVE  /\ Orderly(Setup(p))
         /\ \A x \in Setup(p).queues :
               Exclusively(x.name) => x.name = Anonymous(p) /\ Setup(p).reads = x.name
<1> DEFINE Good(setup) == /\ Orderly(setup)
                          /\ \A x \in setup.queues :
                                Exclusively(x.name) => x.name = Anonymous(p) /\ setup.reads = x.name
<1>1. Good(CommentFilter)
  BY Parts, Fields, KeptAsDeclared, QueuesThereAre DEF CommentFilter, Orderly, AllExchanges, AllBindings
<1>2. Good(EvaluationFilter)
  BY Parts, Fields, KeptAsDeclared, QueuesThereAre DEF EvaluationFilter, Orderly, AllExchanges, AllBindings
<1>3. Good(Poster)
  BY Parts, Fields, KeptAsDeclared, QueuesThereAre DEF Poster, Orderly, AllExchanges, AllBindings, ResultsBinding
<1>4. Good(Evaluator)
  BY Parts, Fields, KeptAsDeclared, QueuesThereAre DEF Evaluator, Orderly
<1>5. p = Single("collector") => Good(Collector)
  BY Parts, Fields, KeptAsDeclared, QueuesThereAre DEF Collector, Orderly, AllExchanges, AllBindings, Logs
<1>6. Good(Stats)
  BY Parts, Fields, KeptAsDeclared, QueuesThereAre DEF Stats, Orderly, AllExchanges, AllBindings
<1>7. p.system \in Systems => Good(Builder(p))
  BY Parts, Fields, KeptAsDeclared, QueuesThereAre DEF Builder, Orderly, AllExchanges, AllBindings
<1> HIDE DEF Good
<1>8. Good(Setup(p))
  BY <1>1, <1>2, <1>3, <1>4, <1>5, <1>6, <1>7, Roles
<1> QED
  BY <1>8 DEF Good

\* So is that of the web hook.
LEMMA OrderlyWebHook ==
  /\ Orderly(WebHook)
  /\ \A x \in WebHook.queues : ~Exclusively(x.name)
BY Parts, Fields, KeptAsDeclared, QueuesThereAre DEF WebHook, Orderly, AllExchanges, AllBindings, Unknown

-----------------------------------------------------------------------------
(* Where a message goes.                                                     *)

\* A message is in a queue whose reader reads it, and an event in one that
\* outlives the broker.
Fits(m, q) ==
    /\ IsEvent(m) => ~Exclusively(q)
    /\ \A p \in Programs : Setup(p).reads = q =>
          /\ m.kind \in Readable(p)
          /\ p.role = "builder" => m.system = p.system

\* Where messages fit.
LEMMA FitsWhere ==
  ASSUME site \in Sites, NEW m
  PROVE  /\ m.kind = "issue_comment" => Fits(m, Comments)
         /\ m.kind = "pull_request" => Fits(m, PullRequests)
         /\ m.kind \in {"queued", "result"} => Fits(m, Results)
         /\ m.kind = "evaluation" => Fits(m, EvaluationJobs)
         /\ m.kind = "stat" => Fits(m, Statistics)
         /\ m.kind \in {"log", "result"} => Fits(m, Logs)
         /\ \A s \in Systems : m.kind = "job" /\ m.system = s => Fits(m, Inputs(s))
         /\ Fits(m, Unknown)
<1> DEFINE Role(p) ==
      \/ p.role = "comment-filter" /\ Setup(p).reads = Comments
      \/ p.role = "evaluation-filter" /\ Setup(p).reads = PullRequests
      \/ p.role = "poster" /\ Setup(p).reads = Results
      \/ p.role = "evaluator" /\ Setup(p).reads = EvaluationJobs
      \/ p.role = "collector" /\ Setup(p).reads = Logs
      \/ p.role = "stats" /\ Setup(p).reads = Statistics
      \/ p.role = "builder" /\ p.all = TRUE /\ Setup(p).reads = Anonymous(p)
      \/ p.role = "builder" /\ p.all = FALSE /\ Setup(p).reads = Inputs(p.system)
<1>1. ASSUME NEW p \in Programs PROVE Role(p)
  <2>1. \A r : Single(r).role = r
    BY DEF Single
  <2>2. /\ CommentFilter.reads = Comments /\ EvaluationFilter.reads = PullRequests
        /\ Poster.reads = Results /\ Evaluator.reads = EvaluationJobs
        /\ Collector.reads = Logs /\ Stats.reads = Statistics
        /\ Builder(p).reads = IF p.all THEN Anonymous(p) ELSE Inputs(p.system)
    BY Parts DEF CommentFilter, EvaluationFilter, Poster, Evaluator, Collector, Stats, Builder
  <2> QED
    BY <2>1, <2>2, Roles
<1>2. /\ \A p : p.role = "comment-filter" => Readable(p) = {"issue_comment"}
      /\ \A p : p.role = "evaluation-filter" => Readable(p) = {"pull_request"}
      /\ \A p : p.role = "poster" => Readable(p) = {"queued", "result"}
      /\ \A p : p.role = "evaluator" => Readable(p) = {"evaluation"}
      /\ \A p : p.role = "collector" => Readable(p) = {"log", "result"}
      /\ \A p : p.role = "stats" => Readable(p) = {"stat"}
      /\ \A p : p.role = "builder" => Readable(p) = {"job"}
  BY DEF Readable
<1>3. /\ Exclusively(Logs) /\ ~Exclusively(Comments) /\ ~Exclusively(PullRequests)
      /\ ~Exclusively(Results) /\ ~Exclusively(EvaluationJobs) /\ ~Exclusively(Statistics)
      /\ ~Exclusively(Unknown) /\ \A s : ~Exclusively(Inputs(s))
      /\ \A p : Exclusively(Anonymous(p))
  BY QueuesThereAre DEF Logs
<1>4. IsEvent(m) <=> m.kind \in {"issue_comment", "pull_request"}
  BY DEF IsEvent
<1> HIDE DEF Role
<1>5. /\ Comments[1] = "build-inputs" /\ PullRequests[1] = "mass-rebuild-check-inputs"
      /\ Results[1] = "build-results" /\ EvaluationJobs[1] = "mass-rebuild-check-jobs"
      /\ Statistics[1] = "stats-events" /\ Unknown[1] = "github-events-unknown"
      /\ Logs[1] = Unnamed /\ \A s : Inputs(s)[1] = "build-inputs-" /\ \A p : Anonymous(p)[1] = Unnamed
  BY Names DEF Comments, PullRequests, Results, EvaluationJobs, Statistics, Unknown, Logs
<1>6. ASSUME NEW p \in Programs
      PROVE  /\ Setup(p).reads = Comments => p.role = "comment-filter"
             /\ Setup(p).reads = PullRequests => p.role = "evaluation-filter"
             /\ Setup(p).reads = Results => p.role = "poster"
             /\ Setup(p).reads = EvaluationJobs => p.role = "evaluator"
             /\ Setup(p).reads = Statistics => p.role = "stats"
             /\ Setup(p).reads # Unknown
  <2> PICK first : first = Setup(p).reads[1]
    OBVIOUS
  <2>1. \/ p.role = "comment-filter" /\ first = "build-inputs"
        \/ p.role = "evaluation-filter" /\ first = "mass-rebuild-check-inputs"
        \/ p.role = "poster" /\ first = "build-results"
        \/ p.role = "evaluator" /\ first = "mass-rebuild-check-jobs"
        \/ p.role = "stats" /\ first = "stats-events"
        \/ first = Unnamed \/ first = "build-inputs-"
    BY <1>1, <1>5 DEF Role
  <2> QED
    BY <1>5, <2>1, Nameless
<1>7. ASSUME NEW p \in Programs, NEW s, Setup(p).reads = Inputs(s)
      PROVE  p.role = "builder" /\ p.system = s
  <2>1. p.role = "builder" /\ Setup(p).reads = Inputs(p.system)
    <3>1. Setup(p).reads[1] = "build-inputs-"
      BY <1>5, <1>7
    <3> QED
      BY <1>1, <1>5, <3>1, Nameless DEF Role
  <2> QED
    BY <1>7, <2>1, NamesDiffer
<1>8. ASSUME NEW p \in Programs, Setup(p).reads = Logs PROVE p.role = "collector"
  <2>1. Single("collector").role = "collector"
    BY DEF Single
  <2>2. CASE Setup(p).reads = Anonymous(p)
    BY <1>8, <2>1, <2>2, NamesDiffer DEF Logs
  <2>3. CASE Setup(p).reads # Anonymous(p)
    BY <1>1, <1>5, <1>8, <2>3, Nameless DEF Role
  <2> QED
    BY <2>2, <2>3
<1> QED
  BY <1>2, <1>3, <1>4, <1>6, <1>7, <1>8 DEF Fits

\* A key of two words or more begins with its first.
LEMMA FirstWord ==
  ASSUME NEW S, NEW word \in S, NEW s \in Seq(S)
  PROVE  /\ <<word>> \o s \in Seq(S) /\ Len(<<word>> \o s) = Len(s) + 1
         /\ (<<word>> \o s)[1] = word /\ DOMAIN (<<word>> \o s) = 1..(Len(s) + 1)
         /\ Len(s) \in Nat
         /\ \A n \in 2..(Len(s) + 1) : (<<word>> \o s)[n] = s[n - 1]
<1>1. <<word>> \in Seq(S) /\ Len(<<word>>) = 1 /\ <<word>>[1] = word
  OBVIOUS
<1>2. PICK one : one = <<word>>
  OBVIOUS
<1>3. one \in Seq(S) /\ Len(one) = 1 /\ one[1] = word /\ Len(s) \in Nat
  BY <1>1, <1>2
<1>4. /\ one \o s \in Seq(S) /\ Len(one \o s) = Len(one) + Len(s)
      /\ \A n \in 1..(Len(one) + Len(s)) :
            (one \o s)[n] = IF n <= Len(one) THEN one[n] ELSE s[n - Len(one)]
  BY <1>3, ConcatProperties
<1>5. 1 \in 1..(Len(one) + Len(s)) /\ 1 <= Len(one) /\ Len(one) + Len(s) = Len(s) + 1
  BY <1>3
<1> HIDE <1>2
<1>6. one \o s \in Seq(S) /\ Len(one \o s) = Len(s) + 1 /\ (one \o s)[1] = word
  BY <1>3, <1>4, <1>5
<1>7. DOMAIN (one \o s) = 1..(Len(s) + 1)
  BY <1>6
<1>8. \A n \in 2..(Len(s) + 1) : (one \o s)[n] = s[n - 1]
  BY <1>3, <1>4
<1> QED
  BY <1>2, <1>3, <1>6, <1>7, <1>8

\* A binding leads to a queue where the messages of its exchange fit.
LEMMA BindingWhere ==
  ASSUME NEW b \in AllBindings, NEW pub, NEW q, b.queue = q, b.exchange = pub.exchange,
         pub.exchange = "github-events" => Matches(b.key, pub.key)
  PROVE  /\ pub.exchange # Unnamed
         /\ pub.exchange = "build-results" => q = Results
         /\ pub.exchange = "stats" => q = Statistics
         /\ pub.exchange = "logs" => q = Logs
         /\ pub.exchange = "github-events" =>
               \/ q = Comments /\ Matches(<<"issue_comment", "*">>, pub.key)
               \/ q = PullRequests /\ Matches(<<"pull_request">> \o Nixpkgs, pub.key)
               \/ q = Unknown
<1>1. \A x, exchange, key : /\ Binding(x, exchange, key).queue = x
                           /\ Binding(x, exchange, key).exchange = exchange
                           /\ Binding(x, exchange, key).key = key
  BY DEF Binding
<1>2. CASE b \in {Binding(x, "build-jobs", <<>>) : x \in QueueNames}
  BY <1>1, <1>2, Nameless
<1>3. CASE b = ResultsBinding
  BY <1>1, <1>3, Nameless DEF ResultsBinding
<1>4. CASE b = Binding(Comments, "github-events", <<"issue_comment", "*">>)
  BY <1>1, <1>4, Nameless
<1>5. CASE b = Binding(PullRequests, "github-events", <<"pull_request">> \o Nixpkgs)
  BY <1>1, <1>5, Nameless
<1>6. CASE b = Binding(Unknown, "github-events", <<"unknown", "*">>)
  BY <1>1, <1>6, Nameless
<1>7. CASE b = Binding(Statistics, "stats", <<>>)
  BY <1>1, <1>7, Nameless
<1>8. CASE b = Binding(Logs, "logs", <<"*", "*">>)
  BY <1>1, <1>8, Nameless
<1> QED
  BY <1>2, <1>3, <1>4, <1>5, <1>6, <1>7, <1>8 DEF AllBindings

\* So does a publication.
LEMMA RoutedWhere ==
  ASSUME NEW exs, exs \subseteq AllExchanges, NEW qs, NEW binds, binds \subseteq AllBindings,
         NEW pub, NEW q \in Routed(pub, exs, qs, binds)
  PROVE  /\ pub.exchange = Unnamed => q = pub.key
         /\ pub.exchange = "build-results" => q = Results
         /\ pub.exchange = "stats" => q = Statistics
         /\ pub.exchange = "logs" => q = Logs
         /\ pub.exchange = "github-events" =>
               \/ q = Comments /\ Matches(<<"issue_comment", "*">>, pub.key)
               \/ q = PullRequests /\ Matches(<<"pull_request">> \o Nixpkgs, pub.key)
               \/ q = Unknown
<1>1. CASE pub.exchange = Unnamed
  BY <1>1, Nameless DEF Routed
<1>2. CASE pub.exchange # Unnamed
  <2>1. PICK b \in binds : /\ b.queue = q /\ b.exchange = pub.exchange
                           /\ \E e \in exs : /\ e.name = pub.exchange
                                             /\ e.type = "topic" => Matches(b.key, pub.key)
    BY <1>2 DEF Routed
  <2>2. pub.exchange = "github-events" => Matches(b.key, pub.key)
    BY <2>1 DEF AllExchanges, Exchange
  <2>3. b \in AllBindings /\ b.queue = q /\ b.exchange = pub.exchange
    BY <2>1
  <2> QED
    BY <1>2, <2>2, <2>3, BindingWhere
<1> QED
  BY <1>1, <1>2, Nameless

\* The set as a sequence has its elements.
LEMMA SetToSeqType ==
  ASSUME NEW S, IsFiniteSet(S)
  PROVE  SetToSeq(S) \in Seq(S)
<1>1. Cardinality(S) \in Nat /\ ExistsBijection(1..Cardinality(S), S)
  BY FS_CardinalityType
<1>2. PICK f \in [1..Cardinality(S) -> S] : IsInjective(f)
  BY <1>1 DEF ExistsBijection, Bijection, Injection, IsInjective
<1>3. SetToSeq(S) \in [1..Cardinality(S) -> S]
  BY <1>2 DEF SetToSeq
<1> QED
  BY <1>1, <1>3, Nameless

\* A key is a sequence of words, the last of them the number.
LEMMA LogKeyWords ==
  ASSUME site \in Sites, NEW i \in DOMAIN Events
  PROVE  /\ Len(Events[i].repo) = 1 =>
              Len(LogKey(i)) = 2 /\ DOMAIN LogKey(i) = {1, 2}
         /\ Len(Events[i].repo) \in Nat
<1> DEFINE repo == Events[i].repo
<1>1. repo \in Seq(ToSet(repo))
  BY TopologyAssumption DEF Events, IsSequence
<1> HIDE DEF repo
<1> PICK S : S = ToSet(repo) \cup {"number"}
  OBVIOUS
<1>2. repo \in Seq(S) /\ "number" \in S
  BY <1>1
<1>3. Append(repo, "number") \in Seq(S) /\ Len(Append(repo, "number")) = Len(repo) + 1 /\ Len(repo) \in Nat
  BY <1>2, AppendProperties
<1>4. DOMAIN Append(repo, "number") = 1..Len(Append(repo, "number"))
  BY <1>3
<1>5. LogKey(i) = Append(repo, "number")
  BY DEF LogKey, repo
<1> PICK key : key = Append(repo, "number")
  OBVIOUS
<1>6. Len(key) = Len(repo) + 1 /\ DOMAIN key = 1..Len(key) /\ Len(repo) \in Nat
  BY <1>3, <1>4
<1>7. Len(repo) = 1 => Len(key) = 2 /\ DOMAIN key = {1, 2}
  BY <1>6
<1> QED
  BY <1>5, <1>6, <1>7 DEF repo

\* What is published for a message, but for the statistics.
Job(i, s) == Publication(Unnamed, Inputs(s), Message("job", i, s))
Log(m, kind) == Publication("logs", LogKey(m.of), Message(kind, m.of, m.system))
Result(m) == Publication("build-results", <<>>, Message("result", m.of, m.system))
JobsFor(m) == {Job(m.of, s) : s \in site.systems}
Ordinary(m) ==
    JobsFor(m) \cup {Queued(m.of), Evaluation(m.of), Log(m, "log"), Log(m, "result"), Result(m)}

\* The jobs for an event.
LEMMA JobsAre ==
  ASSUME site \in Sites, NEW m
  PROVE  Jobs(m.of) \in Seq(JobsFor(m))
<1> DEFINE f == [s \in site.systems |-> Job(m.of, s)]
<1>1. IsFiniteSet(site.systems)
  BY TopologyAssumption
<1>2. f \in Surjection(site.systems, JobsFor(m))
  BY DEF Surjection, JobsFor
<1>3. IsFiniteSet(JobsFor(m))
  BY <1>1, <1>2, FS_Surjection
<1>4. SetToSeq(JobsFor(m)) \in Seq(JobsFor(m))
  BY <1>3, SetToSeqType
<1> QED
  BY <1>4 DEF Jobs, JobsFor, Job

\* What follows from a message: the statistics, which only an evaluator sends,
\* come first.
LEMMA FollowsAre ==
  ASSUME site \in Sites, NEW p \in Programs, NEW m
  PROVE  \A i \in DOMAIN Follows(p, m) :
            /\ i \in Nat \ {0}
            /\ \/ Follows(p, m)[i] \in Ordinary(m)
               \/ i = 1 /\ Follows(p, m)[i] = Stat(m.of) /\ p = Single("evaluator")
<1> DEFINE S == Ordinary(m)
<1>1. /\ Queued(m.of) \in S /\ Evaluation(m.of) \in S
      /\ Log(m, "log") \in S /\ Log(m, "result") \in S /\ Result(m) \in S /\ JobsFor(m) \subseteq S
  BY DEF Ordinary
<1>2. Jobs(m.of) \in Seq(S)
  <2>1. Jobs(m.of) \in Seq(JobsFor(m))
    BY JobsAre
  <2> QED
    BY <1>1, <2>1
<1> HIDE DEF S
<1>3. Append(Jobs(m.of), Queued(m.of)) \in Seq(S)
  BY <1>1, <1>2, AppendProperties
<1>4. <<Evaluation(m.of)>> \in Seq(S) /\ <<>> \in Seq(S)
  BY <1>1
<1>5. <<Log(m, "log"), Result(m), Log(m, "result")>> \in Seq(S)
  BY <1>1
<1>6. CASE p.role = "evaluator"
  <2>1. p = Single("evaluator")
    BY <1>6, Roles DEF Single
  <2> PICK rest : rest = Append(Jobs(m.of), Queued(m.of))
    OBVIOUS
  <2>2. rest \in Seq(S) /\ Follows(p, m) = <<Stat(m.of)>> \o rest
    BY <1>3, <1>6 DEF Follows
  <2> PICK T : T = S \cup {Stat(m.of)}
    OBVIOUS
  <2>3. Stat(m.of) \in T /\ rest \in Seq(T)
    BY <2>2
  <2>4. /\ (<<Stat(m.of)>> \o rest)[1] = Stat(m.of) /\ Len(rest) \in Nat
        /\ DOMAIN (<<Stat(m.of)>> \o rest) = 1..(Len(rest) + 1)
        /\ \A i \in 2..(Len(rest) + 1) : (<<Stat(m.of)>> \o rest)[i] = rest[i - 1]
    BY <2>3, FirstWord
  <2>5. \A i \in 1..Len(rest) : rest[i] \in S
    BY <2>2
  <2>6. ASSUME NEW i \in 1..(Len(rest) + 1)
        PROVE  /\ i \in Nat \ {0}
               /\ i = 1 \/ (i \in 2..(Len(rest) + 1) /\ i - 1 \in 1..Len(rest))
    BY <2>4
  <2>7. \A i \in 1..(Len(rest) + 1) :
           \/ i = 1 /\ (<<Stat(m.of)>> \o rest)[i] = Stat(m.of)
           \/ (<<Stat(m.of)>> \o rest)[i] \in S
    BY <2>4, <2>5, <2>6
  <2>8. \A i \in DOMAIN Follows(p, m) :
           /\ i \in Nat \ {0}
           /\ Follows(p, m)[i] \in S \/ (i = 1 /\ Follows(p, m)[i] = Stat(m.of))
    BY <2>2, <2>4, <2>6, <2>7
  <2> QED
    BY <2>1, <2>8 DEF S
<1>7. CASE p.role # "evaluator"
  <2>1. Follows(p, m) \in {Append(Jobs(m.of), Queued(m.of)), <<Evaluation(m.of)>>, <<>>,
                           <<Log(m, "log"), Result(m), Log(m, "result")>>}
    <3>1. p.role \in {"comment-filter", "evaluation-filter", "poster", "collector", "stats", "builder"}
      BY <1>7, Roles DEF Single
    <3> QED
      BY <3>1 DEF Follows, Log, Result
  <2>2. Follows(p, m) \in Seq(S)
    BY <1>3, <1>4, <1>5, <2>1
  <2>3. \A i \in DOMAIN Follows(p, m) : i \in Nat \ {0} /\ Follows(p, m)[i] \in S
    BY <2>2
  <2> QED
    BY <2>3 DEF S
<1> QED
  BY <1>6, <1>7

\* What follows from a message is a message.
LEMMA MessagesFollow ==
  ASSUME site \in Sites, NEW m \in Messages
  PROVE  /\ \A pub \in Ordinary(m) : pub.message \in Messages /\ pub.side = FALSE /\ ~IsEvent(pub.message)
         /\ Stat(m.of).message \in Messages /\ ~IsEvent(Stat(m.of).message)
         /\ \A kind, s : /\ Message(kind, m.of, s).kind = kind /\ Message(kind, m.of, s).of = m.of
                         /\ Message(kind, m.of, s).system = s
<1>1. m.of \in DOMAIN Events /\ m.system \in Systems \cup {NoSystem} /\ site.systems \subseteq Systems
  BY TopologyAssumption DEF Messages
<1>2. \A kind \in Kinds : \A s \in Systems \cup {NoSystem} : Message(kind, m.of, s) \in Messages
  BY <1>1 DEF Messages, Message
<1>3. \A kind, s : /\ Message(kind, m.of, s).kind = kind /\ Message(kind, m.of, s).of = m.of
                   /\ Message(kind, m.of, s).system = s
  BY DEF Message
<1>4. \A kind, s : kind \in Kinds \ {"issue_comment", "pull_request"} => ~IsEvent(Message(kind, m.of, s))
  BY <1>3 DEF IsEvent
<1>5. {"job", "queued", "evaluation", "log", "result", "stat"}
         \subseteq Kinds \ {"issue_comment", "pull_request"}
  BY DEF Kinds
<1>6. \A kind \in {"job", "queued", "evaluation", "log", "result", "stat"} :
         \A s \in Systems \cup {NoSystem} : /\ Message(kind, m.of, s) \in Messages
                                            /\ ~IsEvent(Message(kind, m.of, s))
  BY <1>2, <1>4, <1>5
<1>7. Stat(m.of).message \in Messages /\ ~IsEvent(Stat(m.of).message)
  BY <1>6 DEF Stat, Publication
<1> DEFINE Fine(pub) == pub.message \in Messages /\ pub.side = FALSE /\ ~IsEvent(pub.message)
<1>8. \A s \in site.systems : Fine(Job(m.of, s))
  <2> SUFFICES ASSUME NEW s \in site.systems PROVE Fine(Job(m.of, s))
    OBVIOUS
  <2>1. Message("job", m.of, s) \in Messages /\ ~IsEvent(Message("job", m.of, s))
    BY <1>1, <1>6
  <2>2. Job(m.of, s).message = Message("job", m.of, s) /\ Job(m.of, s).side = FALSE
    BY DEF Job, Publication
  <2> QED
    BY <2>1, <2>2
<1>9. Fine(Queued(m.of)) /\ Fine(Evaluation(m.of))
  BY <1>6 DEF Queued, Evaluation, Publication
<1>10. Fine(Log(m, "log")) /\ Fine(Log(m, "result")) /\ Fine(Result(m))
  <2>1. \A kind \in {"log", "result"} : /\ Message(kind, m.of, m.system) \in Messages
                                        /\ ~IsEvent(Message(kind, m.of, m.system))
    BY <1>1, <1>6
  <2>2. \A kind : /\ Log(m, kind).message = Message(kind, m.of, m.system)
                  /\ Log(m, kind).side = FALSE
    BY DEF Log, Publication
  <2>3. Result(m).message = Message("result", m.of, m.system) /\ Result(m).side = FALSE
    BY DEF Result, Publication
  <2> QED
    BY <2>1, <2>2, <2>3
<1> HIDE DEF Fine
<1>11. \A pub \in Ordinary(m) : Fine(pub)
  BY <1>8, <1>9, <1>10 DEF Ordinary, JobsFor
<1> QED
  BY <1>3, <1>7, <1>11 DEF Fine

-----------------------------------------------------------------------------
(* What the broker has, and who runs.                                        *)

\* The declarations are the programs': an exclusive queue is the one its program
\* reads from, while it runs; of a program that ever ran, all but that queue is
\* there, and of one that runs, all.
Lasts(setup) ==
    /\ setup.exchanges \subseteq exchanges
    /\ \A x \in setup.queues : ~Exclusively(x.name) => x \in queues
    /\ \A b \in setup.bindings : ~Exclusively(b.queue) => b \in bindings
Stands(setup) ==
    /\ setup.exchanges \subseteq exchanges
    /\ setup.queues \subseteq queues
    /\ setup.bindings \subseteq bindings
Standing ==
    /\ site \in Sites
    /\ exchanges \subseteq AllExchanges /\ queues \subseteq AllQueues /\ bindings \subseteq AllBindings
    /\ \A b \in bindings : Known(b.queue) /\ \E e \in exchanges : e.name = b.exchange
    /\ \A x \in queues : Exclusively(x.name) =>
          \E p \in up : x.name = Anonymous(p) /\ Setup(p).reads = x.name
    /\ (\E e \in exchanges : e.name = "build-results") => ResultsBinding \in bindings
    /\ deaf \subseteq up /\ up \subseteq started /\ started \subseteq Programs
    /\ \A p \in started : Lasts(Setup(p))
    /\ \A p \in up : Stands(Setup(p))

\* To declare adds what is right, and takes nothing away.
LEMMA DeclareStands ==
  ASSUME Standing, NEW setup, Orderly(setup), Declare(setup), site' = site, deaf' = deaf,
         \/ /\ UNCHANGED <<up, started>>
            /\ \A x \in setup.queues : ~Exclusively(x.name)
         \/ \E p \in Programs :
               /\ setup = Setup(p) /\ up' = up \cup {p} /\ started' = started \cup {p}
  PROVE  Standing' /\ Stands(setup)'
<1>1. exchanges \subseteq exchanges' /\ queues \subseteq queues' /\ bindings \subseteq bindings'
  BY DEF Declare
<1>2. Stands(setup)'
  BY DEF Declare, Stands
<1>3. /\ exchanges' \subseteq AllExchanges /\ queues' \subseteq AllQueues
      /\ bindings' \subseteq AllBindings
  BY DEF Declare, Standing, Orderly
<1>4. \A b \in bindings' : Known(b.queue)' /\ \E e \in exchanges' : e.name = b.exchange
  BY DEF Declare, Standing, Orderly, Known
<1>5. (\E e \in exchanges' : e.name = "build-results") => ResultsBinding \in bindings'
  BY DEF Declare, Standing, Orderly
<1>6. \A p : /\ Lasts(Setup(p)) => Lasts(Setup(p))'
             /\ Stands(Setup(p)) => Stands(Setup(p))'
             /\ Stands(Setup(p)) => Lasts(Setup(p))
             /\ Stands(Setup(p))' => Lasts(Setup(p))'
  BY <1>1 DEF Lasts, Stands
<1>7. CASE UNCHANGED <<up, started>> /\ \A x \in setup.queues : ~Exclusively(x.name)
  <2>1. \A x \in queues' : Exclusively(x.name) =>
           \E p \in up' : x.name = Anonymous(p) /\ Setup(p).reads = x.name
    BY <1>7 DEF Declare, Standing
  <2>2. /\ (\A p \in started : Lasts(Setup(p)))' /\ (\A p \in up : Stands(Setup(p)))'
        /\ deaf' \subseteq up' /\ up' \subseteq started' /\ started' \subseteq Programs'
    BY <1>6, <1>7 DEF Standing, Programs
  <2> QED
    BY <1>2, <1>3, <1>4, <1>5, <2>1, <2>2 DEF Standing
<1>8. ASSUME NEW p \in Programs, setup = Setup(p), up' = up \cup {p}, started' = started \cup {p}
      PROVE  Standing'
  <2>1. \A x \in setup.queues :
           Exclusively(x.name) => x.name = Anonymous(p) /\ Setup(p).reads = x.name
    BY <1>8, OrderlySetups DEF Standing
  <2>2. \A x \in queues' : Exclusively(x.name) =>
           \E r \in up' : x.name = Anonymous(r) /\ Setup(r).reads = x.name
    BY <1>8, <2>1 DEF Declare, Standing
  <2>3. /\ (\A r \in started : Lasts(Setup(r)))' /\ (\A r \in up : Stands(Setup(r)))'
        /\ deaf' \subseteq up' /\ up' \subseteq started' /\ started' \subseteq Programs'
    BY <1>2, <1>6, <1>8 DEF Standing, Programs
  <2> QED
    BY <1>3, <1>4, <1>5, <2>2, <2>3 DEF Standing
<1> QED
  BY <1>2, <1>7, <1>8

\* When a program goes, so does its exclusive queue and nothing else.
LEMMA DisconnectStands ==
  ASSUME Standing, NEW p \in up, Disconnect({p}), UNCHANGED <<site, exchanges, started>>
  PROVE  /\ Standing'
         /\ \A q : Known(q)' <=> Known(q) /\ q # Anonymous(p)
         /\ Known(Anonymous(p)) => Setup(p).reads = Anonymous(p)
<1>1. /\ queues' = {x \in queues : x.name # Anonymous(p)}
      /\ bindings' = {b \in bindings : b.queue # Anonymous(p)}
      /\ up' = up \ {p} /\ deaf' = deaf \ {p}
  BY DEF Disconnect
<1>2. \A q : Known(q)' <=> Known(q) /\ q # Anonymous(p)
  BY <1>1 DEF Known
<1>3. Known(Anonymous(p)) => Setup(p).reads = Anonymous(p)
  BY QueuesThereAre, NamesDiffer DEF Known, Standing
<1>4. ~Exclusively(Results) /\ ResultsBinding.queue = Results /\ Exclusively(Anonymous(p))
  BY QueuesThereAre DEF ResultsBinding, Binding
<1>5. (\E e \in exchanges' : e.name = "build-results") => ResultsBinding \in bindings'
  BY <1>1, <1>4 DEF Standing
<1>6. /\ exchanges' \subseteq AllExchanges /\ queues' \subseteq AllQueues
      /\ bindings' \subseteq AllBindings
  BY <1>1 DEF Standing
<1>7. \A b \in bindings' : Known(b.queue)' /\ \E e \in exchanges' : e.name = b.exchange
  BY <1>1, <1>2 DEF Standing
<1>8. \A x \in queues' : Exclusively(x.name) =>
         \E r \in up' : x.name = Anonymous(r) /\ Setup(r).reads = x.name
  BY <1>1 DEF Standing
<1>9. \A r \in started : Lasts(Setup(r))'
  BY <1>1, <1>4 DEF Standing, Lasts
<1>10. ASSUME NEW r \in up \ {p} PROVE Stands(Setup(r))'
  <2>1. r \in Programs /\ Stands(Setup(r))
    BY DEF Standing
  <2>2. /\ Orderly(Setup(r))
        /\ \A x \in Setup(r).queues : Exclusively(x.name) => x.name = Anonymous(r)
    BY <2>1, OrderlySetups DEF Standing
  <2>3. \A x \in Setup(r).queues : x.name # Anonymous(p)
    BY <1>4, <2>2, NamesDiffer
  <2>4. \A b \in Setup(r).bindings : b.queue # Anonymous(p)
    BY <2>2, <2>3 DEF Orderly
  <2> QED
    BY <1>1, <2>1, <2>3, <2>4 DEF Stands
<1> QED
  BY <1>1, <1>2, <1>3, <1>5, <1>6, <1>7, <1>8, <1>9, <1>10 DEF Standing, Programs

\* What is on the disk of the broker is what lasts.
LEMMA StopStands ==
  ASSUME Standing, BrokerStops
  PROVE  /\ Standing'
         /\ \A q : Known(q)' <=> Known(q) /\ ~Exclusively(q)
<1>1. /\ exchanges' = exchanges /\ up' = {} /\ deaf' = {} /\ UNCHANGED <<site, started>>
  <2>1. \A e \in exchanges : e.durable
    BY DEF Standing, AllExchanges, Exchange
  <2> QED
    BY <2>1 DEF BrokerStops
<1>2. queues' = {x \in queues : ~Exclusively(x.name)}
  <2>1. \A x \in queues : x.durable = ~Exclusively(x.name)
    BY DEF Standing, AllQueues
  <2> QED
    BY <2>1 DEF BrokerStops
<1>3. \A q : Known(q)' <=> Known(q) /\ ~Exclusively(q)
  BY <1>2 DEF Known
<1>4. bindings' = {b \in bindings : ~Exclusively(b.queue)}
  <2>1. bindings' = {b \in bindings : /\ \E x \in queues' : x.name = b.queue
                                      /\ \E e \in exchanges' : e.name = b.exchange}
    BY DEF BrokerStops
  <2> QED
    BY <1>1, <1>2, <2>1 DEF Standing, Known
<1>5. ~Exclusively(Results) /\ ResultsBinding.queue = Results
  BY QueuesThereAre DEF ResultsBinding, Binding
<1>6. (\E e \in exchanges' : e.name = "build-results") => ResultsBinding \in bindings'
  BY <1>1, <1>4, <1>5 DEF Standing
<1>7. /\ exchanges' \subseteq AllExchanges /\ queues' \subseteq AllQueues
      /\ bindings' \subseteq AllBindings
  BY <1>1, <1>2, <1>4 DEF Standing
<1>8. \A b \in bindings' : Known(b.queue)' /\ \E e \in exchanges' : e.name = b.exchange
  BY <1>1, <1>3, <1>4 DEF Standing
<1>9. \A x \in queues' : ~Exclusively(x.name)
  BY <1>2
<1>10. \A r \in started : Lasts(Setup(r))'
  BY <1>1, <1>2, <1>4 DEF Standing, Lasts
<1> QED
  BY <1>1, <1>3, <1>6, <1>7, <1>8, <1>9, <1>10 DEF Standing, Programs

-----------------------------------------------------------------------------
(* What is in the queues.                                                    *)

Filled ==
    /\ contents \in [QueueNames -> SUBSET Messages]
    /\ \A q \in QueueNames : \A m \in contents[q] : Known(q) /\ Fits(m, q)
Remembered ==
    /\ next \in Nat
    /\ dropped \subseteq Messages /\ answered \subseteq Messages
    /\ EventsAreKept
Inv == Standing /\ Filled /\ Remembered

\* A queue where something goes is there.
LEMMA RoutedKnown ==
  ASSUME NEW exs, NEW qs, qs \subseteq AllQueues, NEW binds,
         \A b \in binds : \E x \in qs : x.name = b.queue,
         NEW pub, NEW q \in Routed(pub, exs, qs, binds)
  PROVE  q \in QueueNames /\ \E x \in qs : x.name = q
<1>1. \E x \in qs : x.name = q
  BY DEF Routed
<1>2. \A x \in AllQueues : x.name \in QueueNames
  BY DEF AllQueues
<1> QED
  BY <1>1, <1>2

\* An event is a message.
LEMMA EventsAreMessages ==
  ASSUME site \in Sites, NEW i \in DOMAIN Events
  PROVE  /\ EventMessage(i) \in Messages /\ IsEvent(EventMessage(i))
         /\ EventMessage(i).kind = Events[i].kind /\ EventMessage(i).of = i
         /\ Events[i].kind \in {"issue_comment", "pull_request"}
<1>1. Events[i].kind \in {"issue_comment", "pull_request"}
  BY TopologyAssumption DEF Events
<1> QED
  BY <1>1 DEF EventMessage, Message, Messages, Kinds, IsEvent

\* The key of an event begins with its kind.
LEMMA EventKey ==
  ASSUME site \in Sites, NEW i \in DOMAIN Events
  PROVE  LET key == <<Events[i].kind>> \o Events[i].repo
             comments == <<"issue_comment", "*">>
             pulls == <<"pull_request">> \o Nixpkgs
         IN  /\ Matches(comments, key) => Events[i].kind = "issue_comment"
             /\ Matches(pulls, key) => Events[i].kind = "pull_request"
             /\ Events[i].kind = "issue_comment" /\ Len(Events[i].repo) = 1 => Matches(comments, key)
             /\ Events[i].kind = "pull_request" /\ Events[i].repo = Nixpkgs => Matches(pulls, key)
<1> DEFINE repo == Events[i].repo
           kind == Events[i].kind
<1>1. repo \in Seq(ToSet(repo)) /\ Nixpkgs \in Seq(ToSet(Nixpkgs))
  BY TopologyAssumption DEF Events, IsSequence
<1> HIDE DEF repo, kind
<1> PICK S : S = ToSet(repo) \cup ToSet(Nixpkgs) \cup {kind, "pull_request", "issue_comment", "*"}
  OBVIOUS
<1> PICK key : key = <<kind>> \o repo
  OBVIOUS
<1> PICK pulls : pulls = <<"pull_request">> \o Nixpkgs
  OBVIOUS
<1>2. /\ repo \in Seq(S) /\ Nixpkgs \in Seq(S) /\ kind \in S
      /\ "pull_request" \in S /\ "issue_comment" \in S /\ "*" \in S
  BY <1>1
<1>3. key[1] = kind /\ Len(key) = Len(repo) + 1 /\ DOMAIN key = 1..(Len(repo) + 1) /\ Len(repo) \in Nat
  <2>1. /\ Len(<<kind>> \o repo) = Len(repo) + 1 /\ (<<kind>> \o repo)[1] = kind
        /\ DOMAIN (<<kind>> \o repo) = 1..(Len(repo) + 1) /\ Len(repo) \in Nat
    BY <1>2, FirstWord
  <2> QED
    BY <2>1
<1>4. pulls[1] = "pull_request"
  <2>1. (<<"pull_request">> \o Nixpkgs)[1] = "pull_request"
    BY <1>2, FirstWord
  <2> QED
    BY <2>1
<1>5. 1 \in DOMAIN key
  BY <1>3
<1> PICK comments : comments = <<"issue_comment", "*">>
  OBVIOUS
<1>6. comments[1] = "issue_comment" /\ comments[2] = "*" /\ Len(comments) = 2
  OBVIOUS
<1>7. Matches(comments, key) => kind = "issue_comment"
  BY <1>3, <1>5, <1>6 DEF Matches
<1>8. Matches(pulls, key) => kind = "pull_request"
  BY <1>3, <1>4, <1>5 DEF Matches
<1>9. kind = "issue_comment" /\ Len(repo) = 1 => Matches(comments, key)
  BY <1>3, <1>6 DEF Matches
<1>10. kind = "pull_request" /\ repo = Nixpkgs => Matches(pulls, key)
  BY DEF Matches
<1> QED
  BY <1>7, <1>8, <1>9, <1>10 DEF repo, kind

\* At the start there is nothing.
LEMMA InvInit ==
  ASSUME Init
  PROVE  Inv
<1>1. Standing
  BY DEF Init, Standing
<1>2. Filled
  BY DEF Init, Filled
<1>3. Remembered
  BY DEF Init, Remembered, EventsAreKept
<1> QED
  BY <1>1, <1>2, <1>3 DEF Inv

\* The readers of an instance are the same in all of it.
LEMMA SameInstance ==
  ASSUME site' = site
  PROVE  /\ Programs' = Programs /\ Events' = Events /\ Messages' = Messages
         /\ \A i : EventMessage(i)' = EventMessage(i)
         /\ \A m, q : Fits(m, q)' <=> Fits(m, q)
BY DEF Programs, Events, Messages, EventMessage, Fits

\* An event comes in.
LEMMA InvReceive ==
  ASSUME Inv, Receive
  PROVE  Inv'
<1> DEFINE m == EventMessage(next)
           pub == Publication("github-events", <<m.kind>> \o Events[next].repo, m)
           to == Routed(pub, exchanges', queues', bindings')
<1>1. /\ next \in DOMAIN Events /\ site \in Sites /\ Standing /\ next \in Nat
      /\ UNCHANGED <<site, up, deaf, started, answered>> /\ next' = next + 1
  BY DEF Inv, Receive, Standing, Remembered
<1>2. Standing'
  BY <1>1, OrderlyWebHook, DeclareStands DEF Receive
<1>3. /\ contents' = [q \in QueueNames |-> IF q \in to THEN contents[q] \cup {m} ELSE contents[q]]
      /\ dropped' = IF to = {} THEN dropped \cup {m} ELSE dropped
  BY DEF Receive
<1>4. m \in Messages /\ m.kind = Events[next].kind /\ IsEvent(m)
  BY <1>1, EventsAreMessages
<1>5. /\ pub.exchange = "github-events" /\ pub.key = <<Events[next].kind>> \o Events[next].repo
      /\ pub.message = m
  BY <1>4 DEF Publication
<1>6. \A q : Known(q) => Known(q)'
  BY DEF Receive, Declare, Known
<1> HIDE DEF m, pub
<1>7. ASSUME NEW q \in to PROVE q \in QueueNames /\ Known(q)' /\ Fits(m, q)
  <2>1. q \in QueueNames /\ Known(q)'
    <3>1. queues' \subseteq AllQueues /\ \A b \in bindings' : \E x \in queues' : x.name = b.queue
      BY <1>2 DEF Standing, Known
    <3>2. q \in QueueNames /\ \E x \in queues' : x.name = q
      BY <3>1, RoutedKnown
    <3> QED
      BY <3>2 DEF Known
  <2>2. \/ q = Comments /\ Matches(<<"issue_comment", "*">>, pub.key)
        \/ q = PullRequests /\ Matches(<<"pull_request">> \o Nixpkgs, pub.key)
        \/ q = Unknown
    <3>1. exchanges' \subseteq AllExchanges /\ bindings' \subseteq AllBindings
      BY <1>2 DEF Standing
    <3> QED
      BY <1>5, <3>1, RoutedWhere
  <2>3. \/ q = Comments /\ m.kind = "issue_comment"
        \/ q = PullRequests /\ m.kind = "pull_request"
        \/ q = Unknown
    BY <1>1, <1>4, <1>5, <2>2, EventKey
  <2> QED
    BY <1>1, <2>1, <2>3, FitsWhere
<1> HIDE DEF to
<1>8. Filled'
  <2>1. contents' \in [QueueNames -> SUBSET Messages]
    BY <1>3, <1>4 DEF Inv, Filled
  <2>2. \A q \in QueueNames : \A n \in contents'[q] : Known(q)' /\ Fits(n, q)
    BY <1>3, <1>6, <1>7 DEF Inv, Filled
  <2> QED
    BY <1>1, <2>1, <2>2, SameInstance DEF Filled
<1>9. EventsAreKept'
  <2>1. ASSUME NEW i \in 1..next
        PROVE  \/ EventMessage(i) \in dropped' \cup answered'
               \/ \E q \in QueueNames : EventMessage(i) \in contents'[q]
    <3>1. CASE i = next
      BY <1>3, <1>7, <3>1 DEF m
    <3>2. CASE i # next
      <4>1. \/ EventMessage(i) \in dropped \cup answered
            \/ \E q \in QueueNames : EventMessage(i) \in contents[q]
        BY <1>1, <3>2 DEF Inv, Remembered, EventsAreKept
      <4>2. dropped \subseteq dropped' /\ answered' = answered
        BY <1>1, <1>3
      <4>3. \A q \in QueueNames : contents[q] \subseteq contents'[q]
        BY <1>3
      <4> QED
        BY <4>1, <4>2, <4>3
    <3> QED
      BY <3>1, <3>2
  <2>2. next' - 1 = next
    BY <1>1
  <2> QED
    BY <1>1, <2>1, <2>2, SameInstance DEF EventsAreKept
<1>10. Remembered'
  BY <1>1, <1>3, <1>4, <1>9, SameInstance DEF Inv, Remembered
<1> QED
  BY <1>2, <1>8, <1>10 DEF Inv

\* What is kept of what was in the queues, and what is added, decides whether
\* they are still in order.
LEMMA InvKept ==
  ASSUME Inv, Standing', UNCHANGED <<site, next>>,
         contents' \in [QueueNames -> SUBSET Messages],
         dropped \subseteq dropped', dropped' \subseteq Messages,
         answered \subseteq answered', answered' \subseteq Messages,
         \A q \in QueueNames : \A m \in contents'[q] \ contents[q] : Known(q)' /\ Fits(m, q),
         \A q \in QueueNames : contents'[q] # {} => Known(q)',
         \A q \in QueueNames : \A m \in contents[q] \ contents'[q] : IsEvent(m) => m \in answered'
  PROVE  Inv'
<1>1. Filled'
  BY SameInstance DEF Inv, Filled
<1>2. EventsAreKept'
  <2>1. ASSUME NEW i \in 1..(next - 1)
        PROVE  \/ EventMessage(i) \in dropped' \cup answered'
               \/ \E q \in QueueNames : EventMessage(i) \in contents'[q]
    <3>1. CASE EventMessage(i) \in dropped \cup answered
      BY <3>1
    <3>2. CASE \E q \in QueueNames : EventMessage(i) \in contents[q]
      <4>1. IsEvent(EventMessage(i))
        <5>1. PICK q \in QueueNames : EventMessage(i) \in contents[q]
          BY <3>2
        <5>2. EventMessage(i) \in Messages
          BY <5>1 DEF Inv, Filled
        <5>3. i \in DOMAIN Events
          BY <5>2 DEF Messages, EventMessage, Message
        <5> QED
          BY <5>3, EventsAreMessages DEF Inv, Standing
      <4> QED
        BY <3>2, <4>1
    <3> QED
      BY <3>1, <3>2 DEF Inv, Remembered, EventsAreKept
  <2> QED
    BY <2>1, SameInstance DEF EventsAreKept
<1>3. Remembered'
  BY <1>2, SameInstance DEF Inv, Remembered
<1> QED
  BY <1>1, <1>3 DEF Inv

\* A program is started.
LEMMA InvStart ==
  ASSUME Inv, NEW p \in Programs, Start(p)
  PROVE  Inv'
<1>1. Standing /\ UNCHANGED <<site, next, contents, dropped, answered, deaf>>
  BY DEF Inv, Start
<1>2. Orderly(Setup(p))
  BY <1>1, OrderlySetups DEF Standing
<1>3. Standing'
  BY <1>1, <1>2, DeclareStands DEF Start
<1>4. \A q : Known(q) => Known(q)'
  BY DEF Start, Declare, Known
<1> QED
  BY <1>1, <1>3, <1>4, InvKept DEF Inv, Filled, Remembered

\* A program dies.
LEMMA InvCrash ==
  ASSUME Inv, NEW p \in Programs, Crash(p)
  PROVE  Inv'
<1>1. Standing /\ p \in up /\ Disconnect({p}) /\ UNCHANGED <<site, exchanges, started>>
  BY DEF Inv, Crash
<1>2. /\ Standing'
      /\ \A q : Known(q)' <=> Known(q) /\ q # Anonymous(p)
  BY <1>1, DisconnectStands
<1>3. /\ contents' = [contents EXCEPT ![Anonymous(p)] = {}]
      /\ UNCHANGED <<site, next, dropped, answered>>
  BY DEF Crash
<1>4. \A m : IsEvent(m) => ~Fits(m, Anonymous(p))
  BY QueuesThereAre DEF Fits
<1> QED
  BY <1>2, <1>3, <1>4, InvKept DEF Inv, Filled, Remembered

\* The broker goes down and leaves what is on its disk.
LEMMA InvStops ==
  ASSUME Inv, BrokerStops
  PROVE  Inv'
<1>1. /\ Standing'
      /\ \A q : Known(q)' <=> Known(q) /\ ~Exclusively(q)
  BY StopStands DEF Inv
<1>2. /\ contents' = [q \in QueueNames |->
                        IF Known(q)' THEN {m \in contents[q] : Persistent(m)} ELSE {}]
      /\ UNCHANGED <<site, next, dropped, answered>>
  BY DEF BrokerStops, Known
<1>3. \A q \in QueueNames : \A m \in contents[q] : IsEvent(m) => m \in contents'[q]
  BY <1>1, <1>2 DEF Inv, Filled, Fits, Persistent
<1> QED
  BY <1>1, <1>2, <1>3, InvKept DEF Inv, Filled, Remembered

\* What a program publishes reaches queues where it fits, and never the
\* exclusive queue of the program itself.
LEMMA SentWhere ==
  ASSUME Inv, NEW p \in Programs, NEW m \in Messages, NEW i \in DOMAIN Follows(p, m),
         NEW q \in Routed(Follows(p, m)[i], exchanges, queues, bindings)
  PROVE  q \in QueueNames /\ Known(q) /\ Fits(Follows(p, m)[i].message, q) /\ q # Anonymous(p)
<1> DEFINE pub == Follows(p, m)[i]
<1>1. site \in Sites /\ Standing
  BY DEF Inv, Standing
<1>2. pub \in Ordinary(m) \/ pub = Stat(m.of)
  BY <1>1, FollowsAre
<1>3. p # Single("collector")
  <2>1. Single("collector").role = "collector"
    BY DEF Single
  <2>2. p.role = "collector" => Follows(p, m) = <<>>
    BY DEF Follows
  <2>3. DOMAIN Follows(p, m) # {}
    OBVIOUS
  <2> QED
    BY <2>1, <2>2, <2>3
<1> HIDE DEF pub
<1>4. q \in QueueNames /\ Known(q)
  <2>1. queues \subseteq AllQueues /\ \A b \in bindings : \E x \in queues : x.name = b.queue
    BY <1>1 DEF Standing, Known
  <2>2. q \in QueueNames /\ \E x \in queues : x.name = q
    BY <2>1, RoutedKnown DEF pub
  <2> QED
    BY <2>2 DEF Known
<1>5. /\ pub.exchange = Unnamed => q = pub.key
      /\ pub.exchange = "build-results" => q = Results
      /\ pub.exchange = "stats" => q = Statistics
      /\ pub.exchange = "logs" => q = Logs
  <2>1. exchanges \subseteq AllExchanges /\ bindings \subseteq AllBindings
    BY <1>1 DEF Standing
  <2>2. q \in Routed(pub, exchanges, queues, bindings)
    BY DEF pub
  <2> QED
    BY <2>1, <2>2, RoutedWhere
<1>6. \A kind, s : /\ Message(kind, m.of, s).kind = kind
                   /\ Message(kind, m.of, s).system = s
  BY DEF Message
<1>7. CASE pub \in JobsFor(m)
  <2>1. PICK s \in site.systems : pub = Job(m.of, s)
    BY <1>7 DEF JobsFor
  <2>2. s \in Systems
    BY <1>1, TopologyAssumption
  <2>3. /\ pub.exchange = Unnamed /\ pub.key = Inputs(s)
        /\ pub.message = Message("job", m.of, s)
    BY <2>1 DEF Job, Publication
  <2>4. q = Inputs(s) /\ pub.message.kind = "job" /\ pub.message.system = s
    BY <1>5, <1>6, <2>3
  <2>5. Fits(pub.message, q)
    BY <1>1, <2>2, <2>4, FitsWhere
  <2> QED
    BY <1>4, <2>4, <2>5, Names, Nameless DEF pub
<1>8. CASE pub = Queued(m.of) \/ pub = Result(m)
  <2>1. pub.exchange = "build-results" /\ pub.message.kind \in {"queued", "result"}
    BY <1>6, <1>8 DEF Queued, Result, Publication
  <2>2. q = Results /\ Fits(pub.message, q)
    BY <1>1, <1>5, <2>1, FitsWhere
  <2> QED
    BY <1>4, <2>2, QueuesThereAre DEF pub
<1>9. CASE pub = Evaluation(m.of)
  <2>1. pub.exchange = Unnamed /\ pub.key = EvaluationJobs /\ pub.message.kind = "evaluation"
    BY <1>6, <1>9 DEF Evaluation, Publication
  <2>2. q = EvaluationJobs /\ Fits(pub.message, q)
    BY <1>1, <1>5, <2>1, FitsWhere
  <2> QED
    BY <1>4, <2>2, QueuesThereAre DEF pub
<1>10. CASE pub = Stat(m.of)
  <2>1. pub.exchange = "stats" /\ pub.message.kind = "stat"
    BY <1>6, <1>10 DEF Stat, Publication
  <2>2. q = Statistics /\ Fits(pub.message, q)
    BY <1>1, <1>5, <2>1, FitsWhere
  <2> QED
    BY <1>4, <2>2, QueuesThereAre DEF pub
<1>11. CASE pub = Log(m, "log") \/ pub = Log(m, "result")
  <2>1. pub.exchange = "logs" /\ pub.message.kind \in {"log", "result"}
    BY <1>6, <1>11 DEF Log, Publication
  <2>2. q = Logs /\ Fits(pub.message, q)
    BY <1>1, <1>5, <2>1, FitsWhere
  <2> QED
    BY <1>3, <1>4, <2>2, NamesDiffer DEF pub, Logs
<1> QED
  BY <1>2, <1>7, <1>8, <1>9, <1>10, <1>11 DEF Ordinary

\* A program takes a message.
LEMMA InvHandle ==
  ASSUME Inv, NEW p \in Programs, NEW m \in contents[Setup(p).reads], Handle(p, m)
  PROVE  Inv'
<1> DEFINE pubs == Follows(p, m)
           heard == Heard(p, pubs)
           ok == \A i \in DOMAIN pubs : ~Closes(pubs[i])
           own == Setup(p).reads
           to(i) == Routed(pubs[i], exchanges, queues, bindings)
           sent(q) == {pubs[i].message : i \in {j \in heard : q \in to(j)}}
           kept(q) == IF q # own THEN contents[q]
                      ELSE IF ok THEN contents[q] \ {m}
                      ELSE IF own = Anonymous(p) THEN {} ELSE contents[q]
           more == {pubs[i].message : i \in {j \in DOMAIN pubs :
                       \/ j \in heard /\ to(j) = {}
                       \/ pubs[j].side /\ j \notin heard}}
<1>1. site \in Sites /\ Standing /\ Filled /\ Remembered
  BY DEF Inv, Standing
<1>2. own \in QueueNames
  BY <1>1, OrderlySetups DEF Orderly
<1>3. m \in Messages
  BY <1>1, <1>2 DEF Filled
<1>4. /\ p \in up
      /\ contents' = [q \in QueueNames |-> kept(q) \cup sent(q)]
      /\ dropped' = dropped \cup more
      /\ answered' = IF ok THEN answered \cup {m} ELSE answered
      /\ UNCHANGED <<site, exchanges, next, started>>
  BY DEF Handle
<1>5. /\ ok => /\ UNCHANGED <<queues, bindings, up>>
               /\ deaf' \in {deaf, deaf \cup {p}}
      /\ ~ok => Disconnect({p})
  BY DEF Handle
<1>6. \A i \in DOMAIN pubs : pubs[i].message \in Messages
  <2>1. \A pub \in Ordinary(m) : pub.message \in Messages
    BY <1>1, <1>3, MessagesFollow
  <2>2. Stat(m.of).message \in Messages
    BY <1>1, <1>3, MessagesFollow
  <2>3. \A i \in DOMAIN pubs : pubs[i] \in Ordinary(m) \/ pubs[i] = Stat(m.of)
    BY <1>1, FollowsAre
  <2> HIDE DEF pubs
  <2> QED
    BY <2>1, <2>2, <2>3
<1>7. heard \subseteq DOMAIN pubs
  BY DEF Heard
<1>8. \A i \in DOMAIN pubs : \A q \in to(i) :
         q \in QueueNames /\ Known(q) /\ Fits(pubs[i].message, q) /\ q # Anonymous(p)
  BY <1>3, SentWhere
<1> HIDE DEF pubs, heard, to
<1>9. more \subseteq Messages
  BY <1>6
<1>10. \A q \in QueueNames : \A n \in sent(q) :
          n \in Messages /\ Known(q) /\ Fits(n, q) /\ q # Anonymous(p)
  BY <1>6, <1>7, <1>8
<1> HIDE DEF more, sent
<1>11. contents' \in [QueueNames -> SUBSET Messages]
  BY <1>1, <1>4, <1>10 DEF Filled
<1>12. Standing' /\ \A q : Known(q)' <=> Known(q) /\ (ok \/ q # Anonymous(p))
  <2>1. CASE ok
    <3>1. UNCHANGED <<site, exchanges, queues, bindings, up, started>> /\ deaf' \subseteq deaf \cup {p}
      BY <1>4, <1>5, <2>1
    <3> HIDE DEF ok
    <3> QED
      BY <1>1, <1>4, <2>1, <3>1 DEF Standing, Known, Programs, Lasts, Stands
  <2>2. CASE ~ok
    <3>1. Disconnect({p})
      BY <1>5, <2>2
    <3> HIDE DEF ok
    <3> QED
      BY <1>1, <1>4, <2>2, <3>1, DisconnectStands
  <2> QED
    BY <2>1, <2>2
<1>13. Known(Anonymous(p)) => own = Anonymous(p)
  BY QueuesThereAre, NamesDiffer, <1>1 DEF Known, Standing
<1> HIDE DEF ok
<1>14. \A q \in QueueNames : \A n \in contents'[q] \ contents[q] : Known(q)' /\ Fits(n, q)
  BY <1>4, <1>10, <1>12
<1>15. ASSUME NEW q \in QueueNames, contents'[q] # {} PROVE Known(q)'
  <2>1. contents'[q] = kept(q) \cup sent(q)
    BY <1>4
  <2>2. sent(q) # {} => Known(q) /\ q # Anonymous(p)
    BY <1>10
  <2>3. kept(q) # {} => Known(q) /\ (ok \/ q # Anonymous(p))
    BY <1>1, <1>13 DEF Filled
  <2> QED
    BY <1>12, <1>15, <2>1, <2>2, <2>3
<1>16. \A q \in QueueNames : \A n \in contents[q] \ contents'[q] : IsEvent(n) => n \in answered'
  <2>1. \A n : IsEvent(n) => ~Fits(n, Anonymous(p))
    BY QueuesThereAre DEF Fits
  <2> QED
    BY <1>1, <1>4, <2>1 DEF Filled
<1> HIDE DEF own, kept
<1>17. dropped \subseteq dropped' /\ dropped' \subseteq Messages
  BY <1>1, <1>4, <1>9 DEF Remembered
<1>18. answered \subseteq answered' /\ answered' \subseteq Messages
  BY <1>1, <1>3, <1>4 DEF Remembered
<1> QED
  BY <1>4, <1>11, <1>12, <1>14, <1>15, <1>16, <1>17, <1>18, InvKept

\* What the programs declare never contradicts itself, so the web hook fails only
\* while the broker is down.
LEMMA HookAgrees ==
  ASSUME Standing
  PROVE  Agrees(WebHook)
<1> DEFINE events == Exchange("github-events", "topic")
<1>1. WebHook.exchanges = {events} /\ events.name = "github-events"
  BY Parts, Fields DEF WebHook
<1> HIDE DEF events
<1>2. \A e \in AllExchanges : e.name = "github-events" => e = events
  BY Fields DEF AllExchanges, events
<1>3. \A x, y \in AllQueues : x.name = y.name => x = y
  BY DEF AllQueues
<1> QED
  BY <1>1, <1>2, <1>3, OrderlyWebHook DEF Orderly, Standing, Agrees

\* Nothing happens at the broker.
LEMMA InvUnchanged ==
  ASSUME Inv, UNCHANGED <<site, exchanges, queues, bindings, contents, up, deaf, next, started,
                         dropped, answered>>
  PROVE  Inv'
<1>1. Standing'
  BY DEF Inv, Standing, Known, Programs, Lasts, Stands
<1>2. \A q : Known(q)' <=> Known(q)
  BY DEF Known
<1> QED
  BY <1>1, <1>2, InvKept DEF Inv, Filled, Remembered

\* An event is lost at the web hook.
LEMMA InvRejected ==
  ASSUME Inv, Rejected
  PROVE  Inv'
<1>1. /\ next \in DOMAIN Events /\ site \in Sites /\ next \in Nat
      /\ UNCHANGED <<site, exchanges, queues, bindings, contents, up, deaf, started, answered>>
      /\ next' = next + 1 /\ dropped' = dropped \cup {EventMessage(next)}
  BY DEF Inv, Rejected, Standing, Remembered, broker
<1>2. Standing'
  BY <1>1 DEF Inv, Standing, Known, Programs, Lasts, Stands
<1>3. Filled'
  BY <1>1, SameInstance DEF Inv, Filled, Known
<1>4. EventsAreKept'
  <2>1. ASSUME NEW i \in 1..next
        PROVE  \/ EventMessage(i) \in dropped' \cup answered
               \/ \E q \in QueueNames : EventMessage(i) \in contents[q]
    <3>1. CASE i = next
      BY <1>1, <3>1
    <3>2. CASE i # next
      BY <1>1, <3>2 DEF Inv, Remembered, EventsAreKept
    <3> QED
      BY <3>1, <3>2
  <2>2. next' - 1 = next
    BY <1>1
  <2> QED
    BY <1>1, <2>1, <2>2, SameInstance DEF EventsAreKept
<1>5. Remembered'
  BY <1>1, <1>4, EventsAreMessages, SameInstance DEF Inv, Remembered
<1> QED
  BY <1>2, <1>3, <1>5 DEF Inv

\* Every step keeps the broker in order.
LEMMA InvNext ==
  ASSUME Inv, [Next]_vars
  PROVE  Inv'
<1>1. CASE UNCHANGED vars
  BY <1>1, InvUnchanged DEF vars
<1>2. CASE BrokerStarts
  BY <1>2, InvUnchanged DEF BrokerStarts, broker
<1> QED
  BY <1>1, <1>2, InvReceive, InvRejected, InvStart, InvCrash, InvStops, InvHandle DEF Next

\* A program runs only while the broker does.
Connected == running \in BOOLEAN /\ (up # {} => running)
LEMMA ConnectedNext ==
  ASSUME Connected, [Next]_vars
  PROVE  Connected'
<1>1. CASE UNCHANGED vars
  BY <1>1 DEF vars, Connected
<1>2. CASE Receive \/ Rejected
  BY <1>2 DEF Receive, Rejected, Connected
<1>3. CASE BrokerStops \/ BrokerStarts
  BY <1>3 DEF BrokerStops, BrokerStarts, Connected
<1>4. ASSUME NEW p \in Programs, Start(p) \/ Crash(p) PROVE Connected'
  BY <1>4 DEF Start, Crash, Connected
<1>5. ASSUME NEW p \in Programs, NEW m \in contents[Setup(p).reads], Handle(p, m)
      PROVE  Connected'
  <2>1. p \in up /\ running' = running
    BY <1>5 DEF Handle
  <2> QED
    BY <2>1 DEF Connected
<1> QED
  BY <1>1, <1>2, <1>3, <1>4, <1>5 DEF Next

\* The broker's state and the programs', in every reachable state.
THEOREM Invariant == Spec => [](Inv /\ Connected)
<1>1. Init => Inv /\ Connected
  <2>1. Init => Inv
    BY InvInit
  <2>2. Init => Connected
    BY DEF Init, Connected
  <2> QED
    BY <2>1, <2>2
<1>2. Inv /\ Connected /\ [Next]_vars => (Inv /\ Connected)'
  BY InvNext, ConnectedNext
<1> QED
  BY <1>1, <1>2, PTL DEF Spec

\* QueuesInOrder: whatever the order in which the programs start, declare, publish
\* and die, and whenever the broker is down, a queue only holds what its reader can
\* decode, and an event that was handed over is kept until it is dealt with
\* (easyamqp.rs:338-398, php/web/index.php:142-173).
THEOREM InOrder == Spec => []QueuesInOrder
<1>1. ASSUME Inv, Connected PROVE TypeInv
  <2>1. \A b \in bindings : /\ Known(b.queue) /\ b.queue \in QueueNames
                            /\ \E e \in exchanges : e.name = b.exchange
    BY <1>1 DEF Inv, Standing, AllQueues, Known
  <2>2. \A q \in QueueNames : contents[q] \subseteq (IF Known(q) THEN Messages ELSE {})
    BY <1>1 DEF Inv, Filled
  <2>3. \A x, y \in queues : x.name = y.name => x = y
    BY <1>1 DEF Inv, Standing, AllQueues
  <2>4. \A p \in Programs : Known(Anonymous(p)) => p \in up
    BY <1>1, QueuesThereAre, NamesDiffer DEF Inv, Standing, Known
  <2> QED
    BY <1>1, <2>1, <2>2, <2>3, <2>4 DEF Inv, Standing, Remembered, Connected, TypeInv
<1>2. ASSUME Inv PROVE OnlyWhatIsRead
  BY <1>2, OrderlySetups DEF Inv, Standing, Filled, Fits, Orderly, OnlyWhatIsRead
<1>3. Inv /\ Connected => QueuesInOrder
  BY <1>1, <1>2 DEF Inv, Remembered, QueuesInOrder
<1> QED
  BY <1>3, Invariant, PTL

-----------------------------------------------------------------------------
(* What is dropped.                                                          *)

\* Whoever has declared can be reached.
LEMMA Reached ==
  ASSUME Standing
  PROVE  /\ Single("comment-filter") \in started =>
              Binding(Comments, "github-events", <<"issue_comment", "*">>) \in bindings
         /\ Single("evaluation-filter") \in started =>
              /\ Binding(PullRequests, "github-events", <<"pull_request">> \o Nixpkgs) \in bindings
              /\ Known(EvaluationJobs)
         /\ Single("evaluator") \in started => Known(EvaluationJobs)
         /\ Single("stats") \in started =>
              /\ Binding(Statistics, "stats", <<>>) \in bindings
              /\ \E e \in exchanges : e.name = "stats"
         /\ Single("collector") \in up => Binding(Logs, "logs", <<"*", "*">>) \in bindings
         /\ \A b \in started : b.role = "builder" /\ ~b.all => Known(Inputs(b.system))
<1>1. \A r : Single(r).role = r
  BY DEF Single
<1>2. started \subseteq Programs /\ up \subseteq Programs /\ site \in Sites
  BY DEF Standing
<1>3. Single("comment-filter") \in started => Lasts(CommentFilter)
  BY <1>1, <1>2, Roles DEF Standing
<1>4. Single("evaluation-filter") \in started => Lasts(EvaluationFilter)
  BY <1>1, <1>2, Roles DEF Standing
<1>5. Single("evaluator") \in started => Lasts(Evaluator)
  BY <1>1, <1>2, Roles DEF Standing
<1>6. Single("stats") \in started => Lasts(Stats)
  BY <1>1, <1>2, Roles DEF Standing
<1>7. Single("collector") \in up => Stands(Collector)
  BY <1>1, <1>2, Roles DEF Standing
<1>8. ASSUME NEW b \in started, b.role = "builder", ~b.all PROVE Known(Inputs(b.system))
  <2>1. Lasts(Builder(b)) /\ b.system \in Systems
    BY <1>1, <1>2, <1>8, Roles DEF Standing
  <2>2. Lasting(Inputs(b.system)) \in Builder(b).queues
    BY <1>8, Parts DEF Builder
  <2>3. Lasting(Inputs(b.system)).name = Inputs(b.system) /\ ~Exclusively(Inputs(b.system))
    BY <2>1, Fields, QueuesThereAre
  <2> QED
    BY <2>1, <2>2, <2>3 DEF Lasts, Known
<1>9. Lasts(CommentFilter) => Binding(Comments, "github-events", <<"issue_comment", "*">>) \in bindings
  BY Parts, Fields, QueuesThereAre DEF CommentFilter, Lasts
<1>10. Lasts(EvaluationFilter) =>
         /\ Binding(PullRequests, "github-events", <<"pull_request">> \o Nixpkgs) \in bindings
         /\ Known(EvaluationJobs)
  BY Parts, Fields, QueuesThereAre DEF EvaluationFilter, Lasts, Known
<1>11. Lasts(Evaluator) => Known(EvaluationJobs)
  BY Parts, Fields, QueuesThereAre DEF Evaluator, Lasts, Known
<1>12. Lasts(Stats) => /\ Binding(Statistics, "stats", <<>>) \in bindings
                       /\ \E e \in exchanges : e.name = "stats"
  BY Parts, Fields, QueuesThereAre DEF Stats, Lasts
<1>13. Stands(Collector) => Binding(Logs, "logs", <<"*", "*">>) \in bindings
  BY Parts DEF Collector, Stands
<1> QED
  BY <1>3, <1>4, <1>5, <1>6, <1>7, <1>8, <1>9, <1>10, <1>11, <1>12, <1>13

\* A binding is followed, of a topic exchange when the key matches.
LEMMA RoutedBy ==
  ASSUME NEW exs, exs \subseteq AllExchanges, NEW qs, NEW binds, NEW b \in binds, NEW pub,
         b.exchange = pub.exchange, pub.exchange # Unnamed,
         \E e \in exs : e.name = pub.exchange,
         pub.exchange \in {"github-events", "logs"} => Matches(b.key, pub.key)
  PROVE  b.queue \in Routed(pub, exs, qs, binds)
<1>1. PICK e \in exs : e.name = pub.exchange
  OBVIOUS
<1>2. e.type = "topic" => e.name \in {"github-events", "logs"}
  BY DEF AllExchanges, Exchange
<1> QED
  BY <1>1, <1>2 DEF Routed

\* An event that goes nowhere.
LEMMA EventExcused ==
  ASSUME Inv, Receive, NEW m \in dropped' \ dropped
  PROVE  Excused(m)
<1> DEFINE pub == Publication("github-events", <<m.kind>> \o Events[next].repo, m)
           to == Routed(pub, exchanges', queues', bindings')
<1>1. m = EventMessage(next) /\ to = {}
  BY DEF Receive
<1>2. next \in DOMAIN Events /\ site \in Sites /\ Standing
  BY DEF Inv, Receive, Standing
<1>3. m.kind = Events[next].kind /\ m.of = next /\ m.kind \in {"issue_comment", "pull_request"}
  BY <1>1, <1>2, EventsAreMessages
<1>4. /\ exchanges' \subseteq AllExchanges /\ bindings \subseteq bindings'
      /\ \E e \in exchanges' : e.name = "github-events"
  <2>1. Standing' /\ Stands(WebHook)'
    BY <1>2, OrderlyWebHook, DeclareStands DEF Receive
  <2>2. Exchange("github-events", "topic") \in WebHook.exchanges
    BY Parts DEF WebHook
  <2>3. Exchange("github-events", "topic").name = "github-events"
    BY Fields
  <2> QED
    BY <2>1, <2>2, <2>3 DEF Standing, Stands, Receive, Declare
<1>5. /\ pub.exchange = "github-events" /\ pub.exchange # Unnamed
      /\ pub.key = <<Events[next].kind>> \o Events[next].repo
  BY <1>3, Nameless DEF Publication
<1> HIDE DEF pub
<1>6. \A b \in bindings : b.exchange = "github-events" => ~Matches(b.key, pub.key)
  BY <1>1, <1>4, <1>5, RoutedBy
<1>7. CASE m.kind = "issue_comment"
  <2>1. ASSUME Single("comment-filter") \in started, Len(Events[next].repo) = 1 PROVE FALSE
    <3>1. Binding(Comments, "github-events", <<"issue_comment", "*">>) \in bindings
      BY <1>2, <2>1, Reached
    <3>2. Matches(<<"issue_comment", "*">>, pub.key)
      BY <1>2, <1>3, <1>5, <1>7, <2>1, EventKey
    <3> QED
      BY <1>6, <3>1, <3>2, Fields
  <2> QED
    BY <1>3, <1>7, <2>1 DEF Excused
<1>8. CASE m.kind = "pull_request"
  <2>1. ASSUME Single("evaluation-filter") \in started, Events[next].repo = Nixpkgs PROVE FALSE
    <3>1. Binding(PullRequests, "github-events", <<"pull_request">> \o Nixpkgs) \in bindings
      BY <1>2, <2>1, Reached
    <3>2. Matches(<<"pull_request">> \o Nixpkgs, pub.key)
      BY <1>2, <1>3, <1>5, <1>8, <2>1, EventKey
    <3> QED
      BY <1>6, <3>1, <3>2, Fields
  <2> QED
    BY <1>3, <1>8, <2>1 DEF Excused
<1> QED
  BY <1>3, <1>7, <1>8

\* An event the web hook loses.
LEMMA RejectedExcused ==
  ASSUME Inv, Rejected, NEW m \in dropped' \ dropped
  PROVE  Excused(m)
<1>1. m = EventMessage(next) /\ ~running
  BY HookAgrees DEF Inv, Rejected
<1>2. m.kind \in {"issue_comment", "pull_request"}
  BY <1>1, EventsAreMessages DEF Inv, Standing, Rejected
<1> QED
  BY <1>1, <1>2 DEF Excused

\* Something published that goes nowhere, and was heard.
LEMMA HeardExcused ==
  ASSUME Inv, NEW m \in Messages, NEW pub, pub \in Ordinary(m) \/ pub = Stat(m.of),
         ~Undeclared(pub), Routed(pub, exchanges, queues, bindings) = {}
  PROVE  Excused(pub.message)
<1>1. Standing /\ site \in Sites /\ exchanges \subseteq AllExchanges /\ m.of \in DOMAIN Events
  BY DEF Inv, Standing, Messages
<1>2. \A kind, s : /\ Message(kind, m.of, s).kind = kind
                   /\ Message(kind, m.of, s).system = s
                   /\ Message(kind, m.of, s).of = m.of
  BY DEF Message
<1>3. pub.exchange # Unnamed => \E e \in exchanges : e.name = pub.exchange
  BY DEF Undeclared
<1>4. ASSUME pub.exchange # Unnamed, NEW b \in bindings, b.exchange = pub.exchange,
             pub.exchange \in {"github-events", "logs"} => Matches(b.key, pub.key)
      PROVE  FALSE
  BY <1>1, <1>3, <1>4, RoutedBy
<1>5. pub.exchange = Unnamed => ~Known(pub.key)
  BY DEF Routed, Known
<1>6. CASE pub \in JobsFor(m)
  <2>1. PICK s \in site.systems : pub = Job(m.of, s)
    BY <1>6 DEF JobsFor
  <2>2. pub.exchange = Unnamed /\ pub.key = Inputs(s) /\ pub.message = Message("job", m.of, s)
    BY <2>1 DEF Job, Publication
  <2>3. pub.message.kind = "job" /\ pub.message.system = s
    BY <1>2, <2>2
  <2>4. ~\E b \in started : b.role = "builder" /\ ~b.all /\ b.system = s
    BY <1>1, <1>5, <2>2, Reached
  <2> QED
    BY <2>3, <2>4 DEF Excused
<1>7. CASE pub = Queued(m.of) \/ pub = Result(m)
  <2>1. pub.exchange = "build-results"
    BY <1>7 DEF Queued, Result, Publication
  <2>2. ResultsBinding \in bindings
    BY <1>1, <1>3, <2>1, Nameless DEF Standing
  <2>3. ResultsBinding.exchange = "build-results"
    BY DEF ResultsBinding, Binding
  <2> QED
    BY <1>4, <2>1, <2>2, <2>3, Nameless
<1>8. CASE pub = Evaluation(m.of)
  <2>1. /\ pub.exchange = Unnamed /\ pub.key = EvaluationJobs
        /\ pub.message = Message("evaluation", m.of, NoSystem)
    BY <1>8 DEF Evaluation, Publication
  <2>2. pub.message.kind = "evaluation"
    BY <1>2, <2>1
  <2>3. Single("evaluation-filter") \notin started /\ Single("evaluator") \notin started
    BY <1>1, <1>5, <2>1, Reached
  <2> QED
    BY <2>2, <2>3 DEF Excused
<1>9. CASE pub = Stat(m.of)
  <2>1. pub.exchange = "stats" /\ pub.message = Message("stat", m.of, NoSystem)
    BY <1>9 DEF Stat, Publication
  <2>2. pub.message.kind = "stat"
    BY <1>2, <2>1
  <2>3. Single("stats") \notin started
    BY <1>1, <1>4, <2>1, Reached, Fields, Nameless
  <2> QED
    BY <2>2, <2>3 DEF Excused
<1>10. ASSUME NEW kind \in {"log", "result"}, pub = Log(m, kind)
       PROVE  Excused(pub.message)
  <2>1. /\ pub.exchange = "logs" /\ pub.key = LogKey(m.of)
        /\ pub.message = Message(kind, m.of, m.system)
    BY <1>10 DEF Log, Publication
  <2>2. pub.message.kind = kind /\ pub.message.of = m.of
    BY <1>2, <2>1
  <2>3. ASSUME Single("collector") \in up, Len(Events[m.of].repo) = 1 PROVE FALSE
    <3>1. Binding(Logs, "logs", <<"*", "*">>) \in bindings
      BY <1>1, <2>3, Reached
    <3>2. Matches(<<"*", "*">>, pub.key)
      <4> PICK stars : stars = <<"*", "*">>
        OBVIOUS
      <4>1. Len(stars) = 2 /\ stars[1] = "*" /\ stars[2] = "*"
        OBVIOUS
      <4>2. Len(pub.key) = 2 /\ DOMAIN pub.key = {1, 2}
        BY <1>1, <2>1, <2>3, LogKeyWords
      <4> QED
        BY <4>1, <4>2 DEF Matches
    <3>3. pub.exchange # Unnamed
      BY <2>1, Nameless
    <3> QED
      BY <1>4, <2>1, <3>1, <3>2, <3>3, Fields
  <2> QED
    BY <2>2, <2>3 DEF Excused
<1> QED
  BY <1>6, <1>7, <1>8, <1>9, <1>10 DEF Ordinary

\* What a program publishes and no queue gets.
LEMMA PublishedExcused ==
  ASSUME Inv, NEW p \in Programs, NEW n \in contents[Setup(p).reads], Handle(p, n),
         NEW m \in dropped' \ dropped
  PROVE  Excused(m)
<1> DEFINE pubs == Follows(p, n)
           to(j) == Routed(pubs[j], exchanges, queues, bindings)
<1>1. /\ site \in Sites /\ Standing /\ n \in Messages /\ n.of \in DOMAIN Events
  <2>1. Setup(p).reads \in QueueNames
    BY OrderlySetups DEF Inv, Standing, Orderly
  <2> QED
    BY <2>1 DEF Inv, Standing, Filled, Messages
<1>2. PICK i \in DOMAIN pubs :
         /\ m = pubs[i].message
         /\ \/ i \in Heard(p, pubs) /\ to(i) = {}
            \/ pubs[i].side /\ i \notin Heard(p, pubs)
  BY DEF Handle
<1>3. /\ i \in Nat \ {0}
      /\ \/ pubs[i] \in Ordinary(n)
         \/ i = 1 /\ pubs[i] = Stat(n.of) /\ p = Single("evaluator")
  BY <1>1, FollowsAre
<1>4. \A pub \in Ordinary(n) : pub.side = FALSE
  BY <1>1, MessagesFollow
<1> HIDE DEF pubs
<1>5. CASE i \in Heard(p, pubs) /\ to(i) = {}
  <2>1. ~Closes(pubs[i]) /\ (pubs[i].side => ~Undeclared(pubs[i]))
    <3>1. i \in 1..i
      BY <1>3
    <3> QED
      BY <1>5, <3>1 DEF Heard
  <2>2. ~Undeclared(pubs[i])
    BY <2>1 DEF Closes
  <2> QED
    BY <1>1, <1>2, <1>3, <1>5, <2>2, HeardExcused
<1>6. CASE pubs[i].side /\ i \notin Heard(p, pubs)
  <2>1. i = 1 /\ pubs[i] = Stat(n.of) /\ p = Single("evaluator")
    BY <1>3, <1>4, <1>6
  <2>2. m.kind = "stat" /\ pubs[i].exchange = "stats"
    BY <1>2, <2>1 DEF Stat, Publication, Message
  <2>3. \A j \in 1..i : ~Closes(pubs[j])
    <3>1. 1..i = {1}
      BY <2>1
    <3> QED
      BY <1>6, <2>1, <3>1 DEF Closes
  <2>4. p \in deaf \/ Undeclared(pubs[i])
    BY <1>2, <1>6, <2>3 DEF Heard
  <2>5. Undeclared(pubs[i]) => Single("stats") \notin started
    BY <1>1, <2>2, Reached DEF Undeclared
  <2> QED
    BY <2>1, <2>2, <2>4, <2>5 DEF Excused
<1> QED
  BY <1>2, <1>5, <1>6

\* DropsExplained: nothing is lost at the web hook but while the broker is down, and
\* nothing between the programs but where its reader has never run, or, of the logs
\* and the statistics, does not listen; or where its repository is not one a binding
\* names (php/web/index.php:18-34, easyamqp.rs:400-407, worker.rs:67-132).
THEOREM Explained == Spec => DropsExplained
<1>1. Inv /\ [Next]_vars => [\A m \in dropped' \ dropped : Excused(m)]_vars
  <2> SUFFICES ASSUME Inv, Next, NEW m \in dropped' \ dropped
               PROVE  Excused(m)
    OBVIOUS
  <2>1. CASE Receive \/ Rejected
    BY <2>1, EventExcused, RejectedExcused
  <2>2. CASE \E p \in Programs : Start(p) \/ Crash(p)
    BY <2>2 DEF Start, Crash
  <2>3. CASE \E p \in Programs : \E n \in contents[Setup(p).reads] : Handle(p, n)
    BY <2>3, PublishedExcused
  <2>4. CASE BrokerStops \/ BrokerStarts
    BY <2>4 DEF BrokerStops, BrokerStarts
  <2> QED
    BY <2>1, <2>2, <2>3, <2>4 DEF Next
<1> QED
  BY <1>1, Invariant, PTL DEF Spec, DropsExplained
=============================================================================
