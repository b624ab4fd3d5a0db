--------------------------- MODULE BuilderProofs ---------------------------
(***************************************************************************)
(* Proofs about Builder, for every set of builders and jobs, every length   *)
(* of log and snippet, and every number of lost connections: each job is in *)
(* one place, the builders keep the promise of BuildRequests, logs are well *)
(* formed, results show their ends, and a second answer needs a crash.      *)
(*                                                                          *)
(* The promise needs to be known of what is on the wire: an Ack is the last *)
(* action of its job, and a result has been told before it, or is on the    *)
(* wire in front of it, unless the job is one that gets no answer.          *)
(*                                                                          *)
(* Logs and results need more: what the broker has of an attempt and what   *)
(* is on the wire are together a log from its beginning, its result in      *)
(* front of its end.  An attempt goes through the six stages of StageInv.   *)
(***************************************************************************)
EXTENDS Builder, SequenceTheorems, FiniteSetTheorems, TLAPS

Silent == EmptyJobs \cup gone
Answered == {r.job : r \in results}

\* Every job is in the queue, settled, or with one builder.
Waiting(j) == j \in ready /\ j \notin acked /\ \A b \in Builders : unacked[b] # j
Settled(j) == j \notin ready /\ j \in acked /\ \A b \in Builders : unacked[b] # j
Held(j) ==
    /\ j \notin ready /\ j \notin acked
    /\ \E b \in Builders : unacked[b] = j /\ \A c \in Builders : unacked[c] = j => c = b
Places == \A j \in Jobs : Waiting(j) \/ Settled(j) \/ Held(j)

\* A builder without a job has nothing on the wire; the Ack comes last, when
\* the builder is through with the job and a result is on its way.
IsAck(b, i) == wire[b][i].to = "ack"
ResultTold(b) == \E i \in DOMAIN wire[b] : wire[b][i].to = "build-results"
WireInv ==
    \A b \in Builders :
        /\ unacked[b] = NoJob => wire[b] = <<>> /\ pc[b] = "idle"
        /\ \A i \in DOMAIN wire[b] : IsAck(b, i) =>
            /\ i = Len(wire[b])
            /\ pc[b] = "idle"
            /\ unacked[b] \in Silent \cup Answered \/ ResultTold(b)

\* A builder that has a job has an attempt.
Busy == \A b \in Builders : unacked[b] # NoJob => attempt[b] \in DOMAIN attempts

Inv == TypeOK /\ Places /\ WireInv /\ Busy

-----------------------------------------------------------------------------
(* Sequences.                                                                *)

LEMMA TailFacts ==
  ASSUME NEW S, NEW s \in Seq(S), s # <<>>
  PROVE  /\ Tail(s) \in Seq(S)
         /\ Len(Tail(s)) = Len(s) - 1 /\ Len(s) \in Nat \ {0}
         /\ 1 \in DOMAIN s /\ Head(s) = s[1] /\ s[1] \in S
         /\ \A i \in DOMAIN Tail(s) : i \in Nat /\ i + 1 \in DOMAIN s /\ Tail(s)[i] = s[i + 1]
         /\ \A i \in DOMAIN s :
                i = 1 \/ (i - 1 \in DOMAIN Tail(s) /\ Tail(s)[i - 1] = s[i] /\ i \in Nat)
<1>1. DOMAIN s = 1..Len(s) /\ DOMAIN Tail(s) = 1..(Len(s) - 1) /\ Len(s) \in Nat \ {0}
  OBVIOUS
<1>2. \A i \in 1..(Len(s) - 1) : Tail(s)[i] = s[i + 1]
  OBVIOUS
<1> QED
  BY <1>1, <1>2

LEMMA ExceptFacts ==
  ASSUME NEW S, NEW s \in Seq(S), NEW i \in DOMAIN s, NEW x \in S
  PROVE  [s EXCEPT ![i] = x] \in Seq(S)
  OBVIOUS

LEMMA ConcatFacts ==
  ASSUME NEW S, NEW s \in Seq(S), NEW t \in Seq(S)
  PROVE  /\ s \o t \in Seq(S)
         /\ Len(s \o t) = Len(s) + Len(t) /\ Len(s) \in Nat /\ Len(t) \in Nat
         /\ \A i \in DOMAIN s : i \in DOMAIN (s \o t) /\ (s \o t)[i] = s[i]
         /\ \A i \in DOMAIN t :
                Len(s) + i \in DOMAIN (s \o t) /\ (s \o t)[Len(s) + i] = t[i]
         /\ \A k \in DOMAIN (s \o t) :
                k \in DOMAIN s \/ \E i \in DOMAIN t : k = Len(s) + i
<1>1. /\ s \o t \in Seq(S) /\ Len(s \o t) = Len(s) + Len(t)
      /\ Len(s) \in Nat /\ Len(t) \in Nat
      /\ DOMAIN s = 1..Len(s) /\ DOMAIN t = 1..Len(t) /\ DOMAIN (s \o t) = 1..Len(s \o t)
  OBVIOUS
<1>2. \A i \in DOMAIN s : i \in DOMAIN (s \o t) /\ (s \o t)[i] = s[i]
  BY <1>1
<1>3. \A i \in DOMAIN t : Len(s) + i \in DOMAIN (s \o t) /\ (s \o t)[Len(s) + i] = t[i]
  BY <1>1
<1>4. ASSUME NEW k \in DOMAIN (s \o t)
      PROVE  k \in DOMAIN s \/ \E i \in DOMAIN t : k = Len(s) + i
  <2>1. CASE k > Len(s)
    <3>1. k - Len(s) \in DOMAIN t /\ k = Len(s) + (k - Len(s))
      BY <1>1, <2>1
    <3> QED
      BY <3>1
  <2>2. CASE k <= Len(s)
    BY <1>1, <2>2
  <2> QED
    BY <1>1, <2>1, <2>2
<1> QED
  BY <1>1, <1>2, <1>3, <1>4

-----------------------------------------------------------------------------
(* What is told.                                                             *)

LEMMA ActionTypes ==
  /\ \A type \in {"Start", "Msg", "Finish"}, n \in 0..MaxLines :
         LogMessage(type, n) \in Actions /\ LogMessage(type, n).to = "logs"
  /\ \A status \in Statuses, output \in Outputs :
         Result(status, output) \in Actions /\ Result(status, output).to = "build-results"
  /\ Ack \in Actions /\ Ack.to = "ack"
  /\ \A m \in Actions :
         /\ m.to = "logs" => m \in LogMessages
         /\ m.to = "build-results" => m \in Results
<1>1. \A type \in {"Start", "Msg", "Finish"}, n \in 0..MaxLines :
         LogMessage(type, n) \in Actions /\ LogMessage(type, n).to = "logs"
  BY DEF LogMessage, LogMessages, Actions
<1>2. \A status \in Statuses, output \in Outputs :
         Result(status, output) \in Actions /\ Result(status, output).to = "build-results"
  BY DEF Result, Results, Actions
<1>3. Ack \in Actions /\ Ack.to = "ack"
  BY DEF Ack, Actions
<1>4. \A m \in Actions :
         /\ m.to = "logs" => m \in LogMessages
         /\ m.to = "build-results" => m \in Results
  BY <1>3 DEF Actions, LogMessages, Results
<1> QED
  BY <1>1, <1>2, <1>3, <1>4

LEMMA Constants ==
  /\ 0 \in 0..MaxLines /\ MaxLines \in Nat
  /\ MergeFailedOutput \in Outputs /\ <<>> \in Outputs
  /\ \A code : StatusOf(code) \in Statuses
<1>1. 0 \in 0..MaxLines /\ MaxLines \in Nat
  BY BoundAssumption
<1>2. MergeFailedOutput \in Outputs /\ <<>> \in Outputs
  BY <1>1 DEF MergeFailedOutput, Outputs
<1>3. \A code : StatusOf(code) \in Statuses
  BY DEF StatusOf, Statuses
<1> QED
  BY <1>1, <1>2, <1>3

\* A builder that is not through with its job has no Ack on the wire.
LEMMA WorkingBuilder ==
  ASSUME Inv, NEW b \in Builders, pc[b] # "idle"
  PROVE  /\ unacked[b] \in Jobs /\ attempt[b] \in DOMAIN attempts
         /\ \A i \in DOMAIN wire[b] : wire[b][i].to # "ack"
  BY DEF Inv, TypeOK, WireInv, Busy, IsAck

\* Whatever a builder tells, Acks come last and behind a result.
AckLast(b, actions, next) ==
    \A i \in DOMAIN actions : actions[i].to = "ack" =>
        /\ i = Len(actions) /\ next = "idle"
        /\ \/ unacked[b] \in Silent
           \/ \E k \in DOMAIN actions : actions[k].to = "build-results"

LEMMA TellWire ==
  ASSUME Inv, NEW b \in Builders, pc[b] # "idle",
         NEW actions \in Seq(Actions), Tell(b, actions),
         NEW next \in {"idle", "preparing", "errors", "building"},
         pc' = [pc EXCEPT ![b] = next],
         AckLast(b, actions, next)
  PROVE  /\ WireInv' /\ Places' /\ Busy'
         /\ wire' \in [Builders -> Seq(Actions)]
         /\ pc' \in [Builders -> {"idle", "preparing", "errors", "building"}]
<1>1. /\ wire' = [wire EXCEPT ![b] = @ \o actions]
      /\ UNCHANGED <<ready, unacked, acked, logs, results, attempts, attempt, dead, crashes, gone>>
      /\ UNCHANGED Answered
  BY DEF Tell, brokerVars, Answered
<1>2. /\ wire[b] \in Seq(Actions) /\ wire' \in [Builders -> Seq(Actions)]
      /\ wire'[b] = wire[b] \o actions
      /\ \A c \in Builders \ {b} : wire'[c] = wire[c] /\ pc'[c] = pc[c]
      /\ pc'[b] = next
      /\ pc' \in [Builders -> {"idle", "preparing", "errors", "building"}]
  <2>1. wire \in [Builders -> Seq(Actions)] /\ wire[b] \in Seq(Actions)
    BY DEF Inv, TypeOK
  <2>2. wire[b] \o actions \in Seq(Actions)
    BY <2>1, ConcatFacts
  <2>3. /\ wire' \in [Builders -> Seq(Actions)] /\ wire'[b] = wire[b] \o actions
        /\ \A c \in Builders \ {b} : wire'[c] = wire[c]
    BY <1>1, <2>1, <2>2
  <2>4. /\ pc' \in [Builders -> {"idle", "preparing", "errors", "building"}]
        /\ pc'[b] = next /\ \A c \in Builders \ {b} : pc'[c] = pc[c]
    BY DEF Inv, TypeOK
  <2> QED
    BY <2>1, <2>3, <2>4
<1>5. /\ Len(wire'[b]) = Len(wire[b]) + Len(actions)
      /\ \A l \in DOMAIN actions : /\ Len(wire[b]) + l \in DOMAIN wire'[b]
                                   /\ wire'[b][Len(wire[b]) + l] = actions[l]
      /\ \A i \in DOMAIN wire'[b] :
            i \in DOMAIN wire[b] \/ \E l \in DOMAIN actions : i = Len(wire[b]) + l
      /\ \A i \in DOMAIN wire[b] : wire'[b][i] = wire[b][i]
  <2>1. wire[b] \in Seq(Actions) /\ wire'[b] = wire[b] \o actions
    BY <1>2
  <2> QED
    BY <2>1, ConcatFacts
<1>3. Places' /\ Busy'
  BY <1>1 DEF Inv, Places, Waiting, Settled, Held, Busy
<1>4. WireInv'
  <2>0. Silent' = Silent
    BY <1>1 DEF Silent
  <2> SUFFICES ASSUME NEW c \in Builders
               PROVE  /\ unacked'[c] = NoJob => wire'[c] = <<>> /\ pc'[c] = "idle"
                      /\ \A i \in DOMAIN wire'[c] : wire'[c][i].to = "ack" =>
                            /\ i = Len(wire'[c])
                            /\ pc'[c] = "idle"
                            /\ \/ unacked'[c] \in Silent \cup Answered'
                               \/ \E k \in DOMAIN wire'[c] : wire'[c][k].to = "build-results"
    BY <2>0 DEF WireInv, IsAck, ResultTold
  <2>1. CASE c # b
    <3>1. /\ unacked'[c] = unacked[c] /\ wire'[c] = wire[c] /\ pc'[c] = pc[c]
          /\ Answered' = Answered
      BY <1>1, <1>2, <2>1
    <3> QED
      BY <3>1 DEF Inv, WireInv, IsAck, ResultTold
  <2>2. CASE c = b
    <3>1. unacked'[b] # NoJob
      BY <1>1, WorkingBuilder, JobAssumption
    <3>2. ASSUME NEW i \in DOMAIN wire'[b], wire'[b][i].to = "ack"
          PROVE  /\ i = Len(wire'[b])
                 /\ next = "idle"
                 /\ \/ unacked[b] \in Silent
                    \/ \E k \in DOMAIN wire'[b] : wire'[b][k].to = "build-results"
      <4>1. PICK k \in DOMAIN actions : i = Len(wire[b]) + k /\ actions[k].to = "ack"
        <5>1. i \notin DOMAIN wire[b]
          BY <1>5, <3>2, WorkingBuilder
        <5>2. PICK l \in DOMAIN actions : i = Len(wire[b]) + l
          BY <1>5, <5>1
        <5> QED
          BY <1>5, <3>2, <5>2
      <4>2. k = Len(actions) /\ next = "idle" /\ Len(wire'[b]) = Len(wire[b]) + Len(actions)
        BY <1>5, <4>1 DEF AckLast
      <4>3. CASE unacked[b] \in Silent
        BY <4>1, <4>2, <4>3
      <4>4. CASE \E l \in DOMAIN actions : actions[l].to = "build-results"
        <5>1. PICK l \in DOMAIN actions : actions[l].to = "build-results"
          BY <4>4
        <5>2. Len(wire[b]) + l \in DOMAIN wire'[b] /\ wire'[b][Len(wire[b]) + l] = actions[l]
          BY <1>5, <5>1
        <5> QED
          BY <4>1, <4>2, <5>1, <5>2
      <4> QED
        BY <4>1, <4>3, <4>4 DEF AckLast
    <3> QED
      BY <1>1, <1>2, <2>2, <3>1, <3>2
  <2> QED
    BY <2>1, <2>2
<1> QED
  BY <1>2, <1>3, <1>4

\* So a step of the worker keeps the invariant if its own variables keep their types.
LEMMA TellInv ==
  ASSUME Inv, NEW b \in Builders, pc[b] # "idle",
         NEW actions \in Seq(Actions), Tell(b, actions),
         NEW next \in {"idle", "preparing", "errors", "building"},
         pc' = [pc EXCEPT ![b] = next],
         \A i \in DOMAIN actions : actions[i].to = "ack" =>
            /\ i = Len(actions) /\ next = "idle"
            /\ \/ unacked[b] \in Silent
               \/ \E k \in DOMAIN actions : actions[k].to = "build-results",
         can_build' \in [Builders -> BOOLEAN],
         line_counter' \in [Builders -> 0..MaxLines],
         snippet_log' \in [Builders -> Outputs]
  PROVE  Inv' /\ UNCHANGED <<Answered, acked>>
<1>1. UNCHANGED <<ready, unacked, acked, logs, results, attempts, attempt, dead, crashes, gone>>
  BY DEF Tell, brokerVars
<1>2. /\ WireInv' /\ Places' /\ Busy'
      /\ wire' \in [Builders -> Seq(Actions)]
      /\ pc' \in [Builders -> {"idle", "preparing", "errors", "building"}]
  <2>1. AckLast(b, actions, next)
    BY DEF AckLast
  <2> QED
    BY <2>1, TellWire
<1>3. TypeOK'
  BY <1>1, <1>2 DEF Inv, TypeOK
<1> QED
  BY <1>1, <1>2, <1>3 DEF Inv, Answered

-----------------------------------------------------------------------------
(* The invariant.                                                            *)

LEMMA Initially == Init => Inv
<1> SUFFICES ASSUME Init PROVE Inv
  OBVIOUS
<1>1. TypeOK
  BY Constants, BoundAssumption DEF Init, TypeOK
<1>2. Places /\ WireInv /\ Busy
  BY JobAssumption DEF Init, Places, Waiting, WireInv, IsAck, Busy
<1> QED
  BY <1>1, <1>2 DEF Inv

LEMMA DeliverInv ==
  ASSUME Inv, NEW b \in Builders, NEW j \in Jobs, Deliver(b, j)
  PROVE  Inv' /\ UNCHANGED <<Answered, acked>>
<1>1. /\ attempts \in Seq(Jobs) /\ attempts' \in Seq(Jobs) /\ Len(attempts) \in Nat
      /\ Len(attempts') = Len(attempts) + 1
      /\ DOMAIN attempts = 1..Len(attempts) /\ DOMAIN attempts' = 1..(Len(attempts) + 1)
      /\ logs' \in Seq(Seq(LogMessages))
  BY DEF Inv, TypeOK, Deliver
<1>2. TypeOK'
  <2>1. ready' \in SUBSET Jobs /\ unacked' \in [Builders -> Jobs \cup {NoJob}]
        /\ acked' \in SUBSET Jobs
    BY DEF Inv, TypeOK, Deliver
  <2>2. /\ wire' \in [Builders -> Seq(Actions)] /\ can_build' \in [Builders -> BOOLEAN]
        /\ pc' \in [Builders -> {"idle", "preparing", "errors", "building"}]
        /\ crashes' \in 0..MaxCrashes /\ gone' \in SUBSET StaleJobs
    BY DEF Inv, TypeOK, Deliver
  <2>3. line_counter' \in [Builders -> 0..MaxLines] /\ snippet_log' \in [Builders -> Outputs]
    BY Constants DEF Inv, TypeOK, Deliver
  <2>4. attempt' \in [Builders -> 0..Len(attempts')] /\ dead' \in SUBSET DOMAIN attempts'
    BY <1>1 DEF Inv, TypeOK, Deliver
  <2>5. \A r \in results' :
          /\ r.job \in Jobs /\ r.attempt \in DOMAIN attempts'
          /\ r.status \in Statuses /\ r.output \in Outputs
    BY <1>1 DEF Inv, TypeOK, Deliver
  <2> QED
    BY <1>1, <2>1, <2>2, <2>3, <2>4, <2>5 DEF TypeOK
<1>3. Places'
  <2>1. /\ j \in ready /\ ready' = ready \ {j} /\ acked' = acked
        /\ unacked[b] = NoJob /\ unacked'[b] = j
        /\ \A c \in Builders \ {b} : unacked'[c] = unacked[c]
    BY DEF Inv, TypeOK, Deliver
  <2>2. Waiting(j)
    BY <2>1 DEF Inv, Places, Settled, Held
  <2>3. Held(j)'
    BY <2>1, <2>2 DEF Waiting, Held
  <2>4. ASSUME NEW k \in Jobs, k # j
        PROVE  Waiting(k)' \/ Settled(k)' \/ Held(k)'
    <3>1. \A c \in Builders : unacked'[c] = k <=> unacked[c] = k
      BY <2>1, <2>4, JobAssumption
    <3>2. (k \in ready' <=> k \in ready) /\ (k \in acked' <=> k \in acked)
      BY <2>1, <2>4
    <3>3. Waiting(k) \/ Settled(k) \/ Held(k)
      BY DEF Inv, Places
    <3> QED
      BY <3>1, <3>2, <3>3 DEF Waiting, Settled, Held
  <2> QED
    BY <2>3, <2>4 DEF Places
<1>4. WireInv'
  <2>1. wire[b] = <<>> /\ wire' = wire /\ results' = results /\ Silent' = Silent
    BY DEF Inv, WireInv, Deliver, Silent
  <2>2. \A c \in Builders \ {b} : unacked'[c] = unacked[c] /\ pc'[c] = pc[c]
    BY DEF Inv, TypeOK, Deliver
  <2>3. unacked'[b] # NoJob
    BY JobAssumption DEF Inv, TypeOK, Deliver
  <2> QED
    BY <2>1, <2>2, <2>3 DEF Inv, WireInv, IsAck, ResultTold, Answered
<1>5. Busy'
  BY <1>1 DEF Inv, TypeOK, Busy, Deliver
<1> QED
  BY <1>2, <1>3, <1>4, <1>5 DEF Inv, Deliver, Answered

\* The broker takes the first action of a builder off the wire.
LEMMA WireShorter ==
  ASSUME Inv, NEW b \in Builders, wire[b] # <<>>, wire' = [wire EXCEPT ![b] = Tail(@)]
  PROVE  /\ wire' \in [Builders -> Seq(Actions)] /\ wire'[b] = Tail(wire[b])
         /\ \A c \in Builders \ {b} : wire'[c] = wire[c]
         /\ Head(wire[b]) \in Actions /\ Head(wire[b]) = wire[b][1]
         /\ unacked[b] \in Jobs /\ attempt[b] \in DOMAIN attempts
  BY TailFacts DEF Inv, TypeOK, WireInv, Busy

LEMMA TailWire ==
  ASSUME Inv, NEW b \in Builders, wire[b] # <<>>, wire' = [wire EXCEPT ![b] = Tail(@)],
         UNCHANGED <<unacked, pc, gone>>, Answered \subseteq Answered',
         wire[b][1].to # "ack",
         wire[b][1].to = "build-results" => unacked[b] \in Answered'
  PROVE  WireInv'
<1>1. /\ wire'[b] = Tail(wire[b]) /\ \A c \in Builders \ {b} : wire'[c] = wire[c]
      /\ unacked[b] # NoJob
  BY WireShorter, JobAssumption
<1>2. /\ Len(wire'[b]) = Len(wire[b]) - 1 /\ Len(wire[b]) \in Nat \ {0}
      /\ \A i \in DOMAIN wire'[b] :
             i \in Nat /\ i + 1 \in DOMAIN wire[b] /\ wire'[b][i] = wire[b][i + 1]
      /\ \A i \in DOMAIN wire[b] :
             i = 1 \/ (i - 1 \in DOMAIN wire'[b] /\ wire'[b][i - 1] = wire[b][i] /\ i \in Nat)
  <2>1. wire[b] \in Seq(Actions)
    BY DEF Inv, TypeOK
  <2>2. /\ Len(Tail(wire[b])) = Len(wire[b]) - 1 /\ Len(wire[b]) \in Nat \ {0}
        /\ \A i \in DOMAIN Tail(wire[b]) :
               i \in Nat /\ i + 1 \in DOMAIN wire[b] /\ Tail(wire[b])[i] = wire[b][i + 1]
        /\ \A i \in DOMAIN wire[b] :
               i = 1 \/ (i - 1 \in DOMAIN Tail(wire[b]) /\ Tail(wire[b])[i - 1] = wire[b][i]
                         /\ i \in Nat)
    BY <2>1, TailFacts
  <2> QED
    BY <1>1, <2>2
<1>3. ASSUME NEW i \in DOMAIN wire'[b], wire'[b][i].to = "ack"
      PROVE  /\ i = Len(wire'[b])
             /\ pc'[b] = "idle"
             /\ \/ unacked'[b] \in Silent \cup Answered'
                \/ \E k \in DOMAIN wire'[b] : wire'[b][k].to = "build-results"
  <2>1. i + 1 \in DOMAIN wire[b] /\ wire[b][i + 1].to = "ack" /\ i \in Nat
    BY <1>2, <1>3
  <2>2. /\ i + 1 = Len(wire[b]) /\ pc[b] = "idle"
        /\ unacked[b] \in Silent \cup Answered \/ ResultTold(b)
    BY <2>1 DEF Inv, WireInv, IsAck
  <2>3. CASE ResultTold(b)
    <3>1. PICK k \in DOMAIN wire[b] : wire[b][k].to = "build-results"
      BY <2>3 DEF ResultTold
    <3>2. i = Len(wire'[b]) /\ pc'[b] = "idle"
      BY <1>2, <2>1, <2>2
    <3>3. CASE k = 1
      BY <3>1, <3>2, <3>3
    <3>4. CASE k # 1
      <4>1. k - 1 \in DOMAIN wire'[b] /\ wire'[b][k - 1].to = "build-results"
        BY <1>2, <3>1, <3>4
      <4> QED
        BY <3>2, <4>1
    <3> QED
      BY <3>3, <3>4
  <2> QED
    BY <1>2, <2>1, <2>2, <2>3
<1>4. Silent' = Silent
  BY DEF Silent
<1> QED
  BY <1>1, <1>3, <1>4 DEF Inv, WireInv, IsAck, ResultTold

LEMMA BrokerLogsInv ==
  ASSUME Inv, NEW b \in Builders, BrokerLogs(b)
  PROVE  Inv' /\ UNCHANGED <<Answered, acked>>
<1>1. /\ wire[b] # <<>> /\ wire[b][1].to = "logs" /\ Head(wire[b]) \in LogMessages
      /\ wire' = [wire EXCEPT ![b] = Tail(@)] /\ wire' \in [Builders -> Seq(Actions)]
      /\ UNCHANGED <<ready, unacked, acked, results, attempts, pc, attempt, can_build,
                     line_counter, snippet_log, dead, crashes, gone>>
  BY WireShorter, ActionTypes DEF BrokerLogs, Received, workerVars
<1>2. logs' \in Seq(Seq(LogMessages))
  <2>1. logs \in Seq(Seq(LogMessages))
        /\ logs' = [logs EXCEPT ![attempt[b]] = Append(@, Head(wire[b]))]
    BY DEF Inv, TypeOK, BrokerLogs
  <2>2. CASE attempt[b] \in DOMAIN logs
    <3>1. Append(logs[attempt[b]], Head(wire[b])) \in Seq(LogMessages)
      BY <1>1, <2>1, <2>2
    <3> QED
      BY <2>1, <2>2, <3>1, ExceptFacts
  <2>3. CASE attempt[b] \notin DOMAIN logs
    <3>1. logs' = logs
      BY <2>1, <2>3
    <3> QED
      BY <2>1, <3>1
  <2> QED
    BY <2>2, <2>3
<1>3. TypeOK'
  BY <1>1, <1>2 DEF Inv, TypeOK
<1>4. WireInv'
  BY <1>1, TailWire DEF Answered
<1> QED
  BY <1>1, <1>3, <1>4 DEF Inv, Places, Waiting, Settled, Held, Busy, Answered

LEMMA BrokerResultInv ==
  ASSUME Inv, NEW b \in Builders, BrokerResult(b)
  PROVE  /\ Inv'
         /\ unacked[b] \in Jobs \ acked
         /\ Answered' = Answered \cup {unacked[b]} /\ acked' = acked
<1>1. /\ wire[b] # <<>> /\ wire[b][1].to = "build-results" /\ Head(wire[b]) \in Results
      /\ wire' = [wire EXCEPT ![b] = Tail(@)] /\ wire' \in [Builders -> Seq(Actions)]
      /\ unacked[b] \in Jobs /\ attempt[b] \in DOMAIN attempts
      /\ UNCHANGED <<ready, unacked, acked, logs, attempts, pc, attempt, can_build,
                     line_counter, snippet_log, dead, crashes, gone>>
  BY WireShorter, ActionTypes DEF BrokerResult, Received, workerVars
<1> DEFINE answer == [job |-> unacked[b], attempt |-> attempt[b],
                      status |-> Head(wire[b]).status, output |-> Head(wire[b]).output]
<1>2. /\ results' = results \cup {answer} /\ answer.job = unacked[b]
      /\ answer.attempt \in DOMAIN attempts
      /\ answer.status \in Statuses /\ answer.output \in Outputs
  BY <1>1 DEF BrokerResult, Results
<1>3. Answered' = Answered \cup {unacked[b]}
  BY <1>2 DEF Answered
<1>4. TypeOK'
  BY <1>1, <1>2 DEF Inv, TypeOK
<1>5. WireInv'
  BY <1>1, <1>3, TailWire
<1>6. unacked[b] \notin acked
  BY <1>1, JobAssumption DEF Inv, Places, Waiting, Settled, Held
<1>7. Places' /\ Busy'
  BY <1>1 DEF Inv, Places, Waiting, Settled, Held, Busy
<1> QED
  BY <1>1, <1>3, <1>4, <1>5, <1>6, <1>7 DEF Inv

LEMMA BrokerAckInv ==
  ASSUME Inv, NEW b \in Builders, BrokerAck(b)
  PROVE  /\ Inv'
         /\ unacked[b] \in Jobs \ acked /\ unacked[b] \in Silent \cup Answered
         /\ Answered' = Answered /\ acked' = acked \cup {unacked[b]}
<1>1. /\ wire[b] # <<>> /\ wire[b][1].to = "ack"
      /\ wire' = [wire EXCEPT ![b] = Tail(@)] /\ wire' \in [Builders -> Seq(Actions)]
      /\ wire'[b] = Tail(wire[b])
      /\ \A c \in Builders \ {b} : wire'[c] = wire[c]
      /\ unacked[b] \in Jobs
      /\ unacked' = [unacked EXCEPT ![b] = NoJob] /\ acked' = acked \cup {unacked[b]}
      /\ UNCHANGED <<ready, results, logs, attempts, pc, attempt, can_build,
                     line_counter, snippet_log, dead, crashes, gone>>
  BY WireShorter DEF BrokerAck, Received, workerVars
<1>2. /\ unacked[b] \notin acked
  BY <1>1, JobAssumption DEF Inv, Places, Waiting, Settled, Held
<1>3. /\ Len(wire[b]) = 1 /\ pc[b] = "idle"
      /\ unacked[b] \in Silent \cup Answered \/ ResultTold(b)
  <2>1. 1 \in DOMAIN wire[b]
    BY <1>1 DEF Inv, TypeOK
  <2> QED
    BY <1>1, <2>1 DEF Inv, WireInv, IsAck
<1>4. wire'[b] = <<>> /\ ~ResultTold(b)
  <2>1. wire[b] \in Seq(Actions)
    BY DEF Inv, TypeOK
  <2> QED
    BY <1>1, <1>3, <2>1 DEF ResultTold
<1>5. TypeOK'
  BY <1>1 DEF Inv, TypeOK
<1>6. Places'
  <2>1. /\ unacked'[b] = NoJob /\ \A c \in Builders \ {b} : unacked'[c] = unacked[c]
    BY <1>1 DEF Inv, TypeOK
  <2>2. PICK j \in Jobs : j = unacked[b]
    BY <1>1
  <2>3. Settled(j)'
    <3>1. Held(j)
      BY <2>2 DEF Inv, Places, Waiting, Settled
    <3> QED
      BY <1>1, <2>1, <2>2, <3>1, JobAssumption DEF Settled, Held
  <2>4. ASSUME NEW k \in Jobs, k # j
        PROVE  Waiting(k)' \/ Settled(k)' \/ Held(k)'
    <3>1. \A c \in Builders : unacked'[c] = k <=> unacked[c] = k
      BY <2>1, <2>2, <2>4, JobAssumption
    <3>2. (k \in ready' <=> k \in ready) /\ (k \in acked' <=> k \in acked)
      BY <1>1, <2>2, <2>4
    <3>3. Waiting(k) \/ Settled(k) \/ Held(k)
      BY DEF Inv, Places
    <3> QED
      BY <3>1, <3>2, <3>3 DEF Waiting, Settled, Held
  <2> QED
    BY <2>3, <2>4 DEF Places
<1>7. WireInv' /\ Busy'
  <2>1. /\ unacked'[b] = NoJob /\ \A c \in Builders \ {b} : unacked'[c] = unacked[c]
        /\ Answered' = Answered /\ Silent' = Silent
    BY <1>1 DEF Inv, TypeOK, Answered, Silent
  <2> QED
    BY <1>1, <1>3, <1>4, <2>1 DEF Inv, WireInv, IsAck, ResultTold, Busy
<1> QED
  BY <1>1, <1>2, <1>3, <1>4, <1>5, <1>6, <1>7 DEF Inv, Answered

LEMMA CrashInv ==
  ASSUME Inv, NEW b \in Builders, Crash(b)
  PROVE  Inv' /\ UNCHANGED <<Answered, acked>>
<1>1. unacked[b] \in Jobs /\ attempt[b] \in DOMAIN attempts
  BY DEF Inv, TypeOK, Busy, Crash
<1>2. TypeOK'
  <2>1. ready' \in SUBSET Jobs /\ unacked' \in [Builders -> Jobs \cup {NoJob}]
    BY <1>1 DEF Inv, TypeOK, Crash
  <2>2. dead' \in SUBSET DOMAIN attempts' /\ attempts' = attempts
    BY <1>1 DEF Inv, TypeOK, Crash
  <2>3. crashes' \in 0..MaxCrashes
    BY BoundAssumption DEF Inv, TypeOK, Crash
  <2>4. /\ wire' \in [Builders -> Seq(Actions)]
        /\ pc' \in [Builders -> {"idle", "preparing", "errors", "building"}]
    BY DEF Inv, TypeOK, Crash
  <2>5. UNCHANGED <<acked, logs, results, attempt, can_build, line_counter, snippet_log,
                  gone>>
    BY DEF Crash
  <2> QED
    BY <2>1, <2>2, <2>3, <2>4, <2>5 DEF Inv, TypeOK
<1>3. Places'
  <2>1. /\ ready' = ready \cup {unacked[b]} /\ acked' = acked /\ unacked'[b] = NoJob
        /\ \A c \in Builders \ {b} : unacked'[c] = unacked[c]
    BY DEF Inv, TypeOK, Crash
  <2>2. Held(unacked[b])
    BY <1>1 DEF Inv, Places, Waiting, Settled
  <2>3. ASSUME NEW k \in Jobs, k # unacked[b]
        PROVE  Waiting(k)' \/ Settled(k)' \/ Held(k)'
    <3>1. \A c \in Builders : unacked'[c] = k <=> unacked[c] = k
      BY <2>1, <2>3, JobAssumption
    <3>2. (k \in ready' <=> k \in ready) /\ (k \in acked' <=> k \in acked)
      BY <2>1, <2>3
    <3>3. Waiting(k) \/ Settled(k) \/ Held(k)
      BY DEF Inv, Places
    <3> QED
      BY <3>1, <3>2, <3>3 DEF Waiting, Settled, Held
  <2> QED
    <3>1. ASSUME NEW k \in Jobs
          PROVE  Waiting(k)' \/ Settled(k)' \/ Held(k)'
      <4>1. CASE k = unacked[b]
        <5>1. Waiting(k)'
          BY <2>1, <2>2, <4>1, <1>1, JobAssumption DEF Held, Waiting
        <5> QED
          BY <5>1
      <4> QED
        BY <2>3, <4>1
    <3> QED
      BY <3>1 DEF Places
<1>4. WireInv' /\ Busy'
  <2>1. /\ unacked'[b] = NoJob /\ wire'[b] = <<>> /\ pc'[b] = "idle"
        /\ \A c \in Builders \ {b} :
               unacked'[c] = unacked[c] /\ wire'[c] = wire[c] /\ pc'[c] = pc[c]
        /\ Answered' = Answered /\ Silent' = Silent /\ UNCHANGED <<attempt, attempts>>
    BY DEF Inv, TypeOK, Crash, Answered, Silent
  <2> QED
    BY <2>1 DEF Inv, WireInv, IsAck, ResultTold, Busy
<1> QED
  BY <1>2, <1>3, <1>4 DEF Inv, Crash, Answered

-----------------------------------------------------------------------------
(* The steps of the worker.                                                  *)

\* An Ack alone, for a job that gets no answer.
LEMMA AckOnlyInv ==
  ASSUME Inv, NEW b \in Builders, unacked[b] \in Silent,
         Goto(b, "preparing", "idle"), Tell(b, <<Ack>>),
         UNCHANGED <<can_build, line_counter, snippet_log>>
  PROVE  Inv' /\ UNCHANGED <<Answered, acked>>
<1> DEFINE actions == <<Ack>>
<1>1. /\ actions \in Seq(Actions) /\ Len(actions) = 1 /\ DOMAIN actions = {1}
  BY ActionTypes
<1>2. /\ can_build' \in [Builders -> BOOLEAN] /\ line_counter' \in [Builders -> 0..MaxLines]
      /\ snippet_log' \in [Builders -> Outputs]
  BY DEF Inv, TypeOK
<1>3. pc[b] # "idle" /\ pc' = [pc EXCEPT ![b] = "idle"]
  BY DEF Goto
<1> HIDE DEF actions
<1>4. Tell(b, actions)
  BY DEF actions
<1> QED
  BY <1>1, <1>2, <1>3, <1>4, TellInv

\* The end of a build: its result, the end of its log, the Ack.
LEMMA FinishInv ==
  ASSUME Inv, NEW b \in Builders, NEW status \in Statuses,
         NEW from \in {"errors", "building"}, Goto(b, from, "idle"), Finish(b, status),
         UNCHANGED <<can_build, line_counter, snippet_log>>
  PROVE  Inv' /\ UNCHANGED <<Answered, acked>>
<1> DEFINE result == Result(status, snippet_log[b])
           end == LogMessage("Finish", 0)
           actions == <<result, end, Ack>>
<1>1. /\ can_build' \in [Builders -> BOOLEAN] /\ line_counter' \in [Builders -> 0..MaxLines]
      /\ snippet_log' \in [Builders -> Outputs] /\ snippet_log[b] \in Outputs
  BY DEF Inv, TypeOK
<1>2. /\ result \in Actions /\ result.to = "build-results"
      /\ end \in Actions /\ end.to = "logs" /\ Ack \in Actions
  BY <1>1, Constants, ActionTypes
<1>3. Tell(b, actions)
  BY DEF Finish
<1> HIDE DEF result, end
<1>4. /\ actions \in Seq(Actions) /\ Len(actions) = 3 /\ DOMAIN actions = 1..3
      /\ actions[1] = result /\ actions[2] = end /\ actions[3] = Ack
  BY <1>2
<1>5. pc[b] # "idle" /\ pc' = [pc EXCEPT ![b] = "idle"]
  BY DEF Goto
<1> HIDE DEF actions
<1>6. /\ 1 \in DOMAIN actions /\ actions[1].to = "build-results"
      /\ \A i \in DOMAIN actions : actions[i].to = "ack" => i = Len(actions)
  BY <1>2, <1>4
<1> QED
  BY <1>1, <1>3, <1>4, <1>5, <1>6, TellInv

LEMMA MergeFailedInv ==
  ASSUME Inv, NEW b \in Builders, MergeFailed(b)
  PROVE  Inv' /\ UNCHANGED <<Answered, acked>>
<1> DEFINE result == Result("Failure", MergeFailedOutput)
           actions == <<result, Ack>>
<1>1. /\ can_build' \in [Builders -> BOOLEAN] /\ line_counter' \in [Builders -> 0..MaxLines]
      /\ snippet_log' \in [Builders -> Outputs]
  BY DEF Inv, TypeOK, MergeFailed
<1>2. result \in Actions /\ result.to = "build-results" /\ Ack \in Actions
  BY Constants, ActionTypes DEF Statuses
<1>3. Tell(b, actions)
  BY DEF MergeFailed
<1> HIDE DEF result
<1>4. /\ actions \in Seq(Actions) /\ Len(actions) = 2 /\ DOMAIN actions = 1..2
      /\ actions[1] = result /\ actions[2] = Ack
  BY <1>2
<1>5. pc[b] # "idle" /\ pc' = [pc EXCEPT ![b] = "idle"]
  BY DEF Goto, MergeFailed
<1> HIDE DEF actions
<1>6. /\ 1 \in DOMAIN actions /\ actions[1].to = "build-results"
      /\ \A i \in DOMAIN actions : actions[i].to = "ack" => i = Len(actions)
  BY <1>2, <1>4
<1> QED
  BY <1>1, <1>3, <1>4, <1>5, <1>6, TellInv

LEMMA LogStartedInv ==
  ASSUME Inv, NEW b \in Builders, NEW can \in BOOLEAN, NEW cannot \in BOOLEAN,
         LogStarted(b, can, cannot)
  PROVE  Inv' /\ UNCHANGED <<Answered, acked>>
<1> DEFINE begin == LogMessage("Start", 0)
           actions == <<begin>>
           next == IF cannot THEN "errors" ELSE "building"
<1>1. /\ can_build' \in [Builders -> BOOLEAN] /\ line_counter' \in [Builders -> 0..MaxLines]
      /\ snippet_log' \in [Builders -> Outputs]
  BY DEF Inv, TypeOK, LogStarted
<1>2. begin \in Actions /\ begin.to = "logs"
  BY Constants, ActionTypes
<1>3. Tell(b, actions)
  BY DEF LogStarted
<1> HIDE DEF begin
<1>4. actions \in Seq(Actions) /\ \A i \in DOMAIN actions : actions[i].to # "ack"
  BY <1>2
<1>5. pc[b] # "idle" /\ pc' = [pc EXCEPT ![b] = next] /\ next \in {"errors", "building"}
  BY DEF Goto, LogStarted
<1> HIDE DEF actions, next
<1> QED
  BY <1>1, <1>3, <1>4, <1>5, TellInv

\* A line moves through the snippet: the oldest makes room for it.
LEMMA LogLineInv ==
  ASSUME Inv, NEW b \in Builders, LogLine(b)
  PROVE  Inv' /\ UNCHANGED <<Answered, acked>>
<1> DEFINE n == line_counter[b] + 1
           kept == IF Len(snippet_log[b]) >= SNIPPET
                   THEN Tail(snippet_log[b]) ELSE snippet_log[b]
           line == LogMessage("Msg", n)
           actions == <<line>>
<1>1. /\ line_counter[b] \in 0..MaxLines /\ line_counter[b] < MaxLines
      /\ snippet_log[b] \in Outputs /\ MaxLines \in Nat
      /\ line_counter \in [Builders -> 0..MaxLines] /\ snippet_log \in [Builders -> Outputs]
      /\ can_build' \in [Builders -> BOOLEAN]
      /\ pc[b] \in {"errors", "building"} /\ pc' = [pc EXCEPT ![b] = pc[b]]
      /\ line_counter' = [line_counter EXCEPT ![b] = n]
      /\ snippet_log' = [snippet_log EXCEPT ![b] = Append(kept, n)]
      /\ Tell(b, actions)
  BY Constants DEF Inv, TypeOK, LogLine
<1>2. n \in 0..MaxLines
  BY <1>1
<1>3. kept \in Outputs
  <2>1. CASE Len(snippet_log[b]) >= SNIPPET
    <3>1. snippet_log[b] # <<>>
      BY <1>1, <2>1, BoundAssumption DEF Outputs
    <3> QED
      BY <1>1, <2>1, <3>1 DEF Outputs
  <2> QED
    BY <1>1, <2>1
<1>4. Append(kept, n) \in Outputs
  BY <1>2, <1>3 DEF Outputs
<1>5. line \in Actions /\ line.to = "logs"
  BY <1>2, ActionTypes
<1> HIDE DEF line, kept, n
<1>6. actions \in Seq(Actions) /\ \A i \in DOMAIN actions : actions[i].to # "ack"
  BY <1>5
<1>7. line_counter' \in [Builders -> 0..MaxLines] /\ snippet_log' \in [Builders -> Outputs]
  BY <1>1, <1>2, <1>4
<1>8. Tell(b, actions)
  BY <1>1
<1> HIDE DEF actions
<1>9. /\ pc[b] # "idle" /\ pc[b] \in {"idle", "preparing", "errors", "building"}
      /\ can_build' \in [Builders -> BOOLEAN]
  BY <1>1
<1>10. CASE pc[b] = "errors"
  <2>1. pc' = [pc EXCEPT ![b] = "errors"]
    BY <1>1, <1>10
  <2> QED
    BY <1>6, <1>7, <1>8, <1>9, <2>1, TellInv
<1>11. CASE pc[b] = "building"
  <2>1. pc' = [pc EXCEPT ![b] = "building"]
    BY <1>1, <1>11
  <2> QED
    BY <1>6, <1>7, <1>8, <1>9, <2>1, TellInv
<1> QED
  BY <1>1, <1>10, <1>11

LEMMA BuildSpawnedInv ==
  ASSUME Inv, NEW b \in Builders, BuildSpawned(b)
  PROVE  Inv' /\ UNCHANGED <<Answered, acked>>
<1> DEFINE actions == <<>>
<1>1. /\ can_build' \in [Builders -> BOOLEAN] /\ line_counter' \in [Builders -> 0..MaxLines]
      /\ snippet_log' \in [Builders -> Outputs]
  BY DEF Inv, TypeOK, BuildSpawned
<1>2. actions \in Seq(Actions) /\ DOMAIN actions = {}
  OBVIOUS
<1>3. Tell(b, actions) /\ pc[b] # "idle" /\ pc' = [pc EXCEPT ![b] = "building"]
  BY DEF BuildSpawned, Goto
<1> HIDE DEF actions
<1> QED
  BY <1>1, <1>2, <1>3, TellInv

LEMMA WorkerInv ==
  ASSUME Inv, NEW b \in Builders, WorkerStep(b)
  PROVE  Inv' /\ UNCHANGED <<Answered, acked>>
<1>1. CASE NothingToDo(b)
  BY <1>1, AckOnlyInv DEF NothingToDo, Silent
<1>2. CASE CommitMissing(b)
  BY <1>2, AckOnlyInv DEF CommitMissing, Silent
<1>3. CASE MergeFailed(b)
  BY <1>3, MergeFailedInv
<1>4. CASE \E can, cannot \in BOOLEAN : LogStarted(b, can, cannot)
  BY <1>4, LogStartedInv
<1>5. CASE LogLine(b)
  BY <1>5, LogLineInv
<1>6. CASE BuildNotAttempted(b)
  BY <1>6, FinishInv DEF BuildNotAttempted, Statuses
<1>7. CASE BuildSpawned(b)
  BY <1>7, BuildSpawnedInv
<1>8. CASE \E code \in ExitCodes : BuildFinished(b, code)
  <2>1. PICK code \in ExitCodes : BuildFinished(b, code)
    BY <1>8
  <2>2. StatusOf(code) \in Statuses
    BY Constants
  <2> QED
    BY <2>1, <2>2, FinishInv DEF BuildFinished
<1> QED
  BY <1>1, <1>2, <1>3, <1>4, <1>5, <1>6, <1>7, <1>8 DEF WorkerStep

-----------------------------------------------------------------------------
(* The promise.                                                              *)

\* Every step keeps the invariant, and answers one job that is not settled,
\* settles one that was answered or gets no answer, or does neither.
LEMMA Step ==
  ASSUME Inv, [Next]_vars
  PROVE  /\ Inv'
         /\ \/ UNCHANGED <<Answered, acked>>
            \/ \E j \in Jobs \ acked :
                  \/ Answered' = Answered \cup {j} /\ acked' = acked
                  \/ /\ j \in Silent \cup Answered
                     /\ Answered' = Answered /\ acked' = acked \cup {j}
<1>1. CASE UNCHANGED vars
  BY <1>1 DEF Inv, TypeOK, Places, Waiting, Settled, Held, WireInv, IsAck, ResultTold,
              Answered, Silent, Busy, vars, brokerVars, workerVars
<1>2. ASSUME NEW b \in Builders, NEW j \in Jobs, Deliver(b, j)
      PROVE  Inv' /\ UNCHANGED <<Answered, acked>>
  BY <1>2, DeliverInv
<1>3. ASSUME NEW b \in Builders, BrokerLogs(b)
      PROVE  Inv' /\ UNCHANGED <<Answered, acked>>
  BY <1>3, BrokerLogsInv
<1>4. ASSUME NEW b \in Builders, BrokerResult(b)
      PROVE  Inv' /\ \E j \in Jobs \ acked : Answered' = Answered \cup {j} /\ acked' = acked
  BY <1>4, BrokerResultInv
<1>5. ASSUME NEW b \in Builders, BrokerAck(b)
      PROVE  Inv' /\ \E j \in Jobs \ acked : /\ j \in Silent \cup Answered
                                             /\ Answered' = Answered
                                             /\ acked' = acked \cup {j}
  BY <1>5, BrokerAckInv
<1>6. ASSUME NEW b \in Builders, Crash(b)
      PROVE  Inv' /\ UNCHANGED <<Answered, acked>>
  BY <1>6, CrashInv
<1>7. ASSUME NEW b \in Builders, WorkerStep(b)
      PROVE  Inv' /\ UNCHANGED <<Answered, acked>>
  BY <1>7, WorkerInv
<1> QED
  BY <1>1, <1>2, <1>3, <1>4, <1>5, <1>6, <1>7 DEF Next, BrokerStep

\* Which jobs get no answer is settled from the start.
LEMMA GoneFixed ==
  ASSUME [Next]_vars
  PROVE  gone' = gone
<1>1. CASE UNCHANGED vars
  BY <1>1 DEF vars
<1>2. ASSUME NEW b \in Builders, NEW j \in Jobs, Deliver(b, j)
      PROVE  gone' = gone
  BY <1>2 DEF Deliver
<1>3. ASSUME NEW b \in Builders, BrokerStep(b) \/ Crash(b)
      PROVE  gone' = gone
  BY <1>3 DEF BrokerStep, BrokerLogs, BrokerResult, BrokerAck, Crash
<1>4. ASSUME NEW b \in Builders, WorkerStep(b)
      PROVE  gone' = gone
  BY <1>4 DEF WorkerStep, NothingToDo, CommitMissing, MergeFailed, LogStarted,
              LogLine, BuildNotAttempted, BuildSpawned, BuildFinished, Finish, Tell
<1> QED
  BY <1>1, <1>2, <1>3, <1>4 DEF Next

\* The builders keep the promise of BuildRequests: a job is settled once, behind
\* its answer unless it gets none, and is not touched afterwards.
THEOREM Refinement == Spec => RefinesBuildRequests
<1>1. Init => Promise!Init
  BY JobAssumption DEF Init, Promise!Init
<1>2. Inv /\ [Next]_vars => [Promise!Next]_<<Answered, acked, Silent>>
  <2> SUFFICES ASSUME Inv, [Next]_vars
               PROVE  [Promise!Next]_<<Answered, acked, Silent>>
    OBVIOUS
  <2>0. Silent' = Silent
    BY GoneFixed DEF Silent
  <2>1. ASSUME NEW j \in Jobs \ acked, Answered' = Answered \cup {j}, acked' = acked
        PROVE  Promise!Next
    BY <2>0, <2>1 DEF Promise!Next, Promise!Answer, Answered, Silent
  <2>2. ASSUME NEW j \in Jobs \ acked, j \in Silent \cup Answered,
               Answered' = Answered, acked' = acked \cup {j}
        PROVE  Promise!Next
    BY <2>0, <2>2 DEF Promise!Next, Promise!Settle, Answered, Silent
  <2> QED
    BY <2>0, <2>1, <2>2, Step
<1>3. Init => Inv
  BY Initially
<1>4. Inv /\ [Next]_vars => Inv'
  BY Step
<1>5. [Promise!Next]_<<Answered, acked, Silent>> => [Promise!Next]_<<{r.job : r \in results}, acked, EmptyJobs \cup gone>>
  BY DEF Answered, Silent
<1> QED
  BY <1>1, <1>2, <1>3, <1>4, <1>5, PTL DEF Spec, RefinesBuildRequests, Promise!Spec

-----------------------------------------------------------------------------
(* Logs and results.                                                         *)

\* The log of an attempt: its beginning, and the lines behind it.
Entry(i) == IF i = 1 THEN LogMessage("Start", 0) ELSE LogMessage("Msg", i - 1)

\* The last lines of a log of n lines.
TailOf(n) == LET k == IF n < SNIPPET THEN n ELSE SNIPPET IN [i \in 1..k |-> n - k + i]

IsBusy(b) == unacked[b] # NoJob
Log(b) == logs[attempt[b]]
Answers(a) == {r \in results : r.attempt = a}

\* Where an attempt is, between what the broker has of it and what is on the wire.
Preparing(b) ==
    /\ pc[b] = "preparing" /\ line_counter[b] = 0 /\ snippet_log[b] = <<>>
    /\ Log(b) = <<>> /\ wire[b] = <<>> /\ Answers(attempt[b]) = {}

\* Lines the broker has, and those that are in front of what else is on the wire.
Lined(b) ==
    /\ Len(Log(b)) <= line_counter[b] + 1
    /\ \A i \in DOMAIN Log(b) : Log(b)[i] = Entry(i)
    /\ \A i \in 1..(line_counter[b] + 1 - Len(Log(b))) :
           i \in DOMAIN wire[b] /\ wire[b][i] = Entry(Len(Log(b)) + i)

Left(b) == line_counter[b] + 1 - Len(Log(b))

Talking(b) ==
    /\ pc[b] \in {"errors", "building"}
    /\ Lined(b) /\ Len(wire[b]) = Left(b)
    /\ snippet_log[b] = TailOf(line_counter[b]) /\ Answers(attempt[b]) = {}

Finishing(b) ==
    /\ pc[b] = "idle"
    /\ Lined(b) /\ Len(wire[b]) = Left(b) + 3
    /\ wire[b][Left(b) + 1].to = "build-results"
    /\ wire[b][Left(b) + 1].output = TailOf(line_counter[b])
    /\ wire[b][Left(b) + 2] = LogMessage("Finish", 0) /\ wire[b][Left(b) + 3] = Ack
    /\ Answers(attempt[b]) = {}

\* The result has arrived, and the end of the log has yet to.
LastWords(b) ==
    /\ pc[b] = "idle" /\ wire[b] = <<LogMessage("Finish", 0), Ack>>
    /\ Lined(b) /\ Len(Log(b)) = line_counter[b] + 1
    /\ \E r \in Answers(attempt[b]) : r.output = TailOf(line_counter[b])

GivingUp(b) ==
    /\ pc[b] = "idle" /\ Log(b) = <<>> /\ Answers(attempt[b]) = {}
    /\ Len(wire[b]) = 2 /\ wire[b][2] = Ack
    /\ wire[b][1].to = "build-results" /\ wire[b][1].output = MergeFailedOutput

Through(b) == pc[b] = "idle" /\ wire[b] = <<Ack>>

Stage(b) ==
    Preparing(b) \/ Talking(b) \/ Finishing(b) \/ LastWords(b) \/ GivingUp(b) \/ Through(b)
StageInv == \A b \in Builders : IsBusy(b) => Stage(b)

\* A log of n lines, complete or not.
OfLines(log, n) ==
    /\ Len(log) \in {n + 1, n + 2}
    /\ \A i \in 1..(n + 1) : log[i] = Entry(i)
    /\ Len(log) = n + 2 => log[n + 2] = LogMessage("Finish", 0)
ResultInv ==
    /\ \A r, s \in results : r.attempt = s.attempt => r = s
    /\ \A r \in results :
         /\ r.job = attempts[r.attempt]
         /\ \/ logs[r.attempt] = <<>> /\ r.output = MergeFailedOutput
            \/ \E n \in 0..MaxLines : OfLines(logs[r.attempt], n) /\ r.output = TailOf(n)

\* Who has an attempt; and of two attempts of a job the first is dead.
AttemptInv ==
    /\ Len(logs) = Len(attempts)
    /\ \A b \in Builders : IsBusy(b) => attempt[b] \in DOMAIN attempts /\ attempts[attempt[b]] = unacked[b]
    /\ \A a \in DOMAIN attempts :
         \/ a \in dead \/ attempts[a] \in acked
         \/ \E b \in Builders : unacked[b] = attempts[a] /\ attempt[b] = a
    /\ \A a, b \in DOMAIN attempts : a < b /\ attempts[a] = attempts[b] => a \in dead
LogInv == StageInv /\ ResultInv /\ AttemptInv /\ LogsWellFormed

-----------------------------------------------------------------------------
(* The snippet.                                                              *)

LEMMA TailOfFacts ==
  ASSUME NEW n \in Nat
  PROVE  /\ TailOf(n) \in Seq(Nat)
         /\ Len(TailOf(n)) = IF n < SNIPPET THEN n ELSE SNIPPET
         /\ \A i \in 1..Len(TailOf(n)) : TailOf(n)[i] = n - Len(TailOf(n)) + i
         /\ TailOf(n) # MergeFailedOutput
<1> DEFINE k == IF n < SNIPPET THEN n ELSE SNIPPET
<1>1. k \in Nat /\ k <= n
  BY BoundAssumption
<1>2. TailOf(n) = [i \in 1..k |-> n - k + i]
  BY DEF TailOf
<1>3. \A i \in 1..k : n - k + i \in Nat /\ n - k + i # 0
  BY <1>1
<1> HIDE DEF k
<1>4. TailOf(n) \in Seq(Nat) /\ Len(TailOf(n)) = k
  BY <1>1, <1>2, <1>3
<1>5. TailOf(n) # MergeFailedOutput
  <2> SUFFICES ASSUME TailOf(n) = MergeFailedOutput PROVE FALSE
    OBVIOUS
  <2>1. k = 1 /\ TailOf(n)[1] = 0
    BY <1>4 DEF MergeFailedOutput
  <2>2. n - k + 1 = 0
    BY <1>2, <2>1
  <2> QED
    BY <1>1, <2>2
<1> QED
  BY <1>1, <1>2, <1>4, <1>5 DEF k

LEMMA TailOfNext ==
  ASSUME NEW n \in Nat
  PROVE  TailOf(n + 1) =
           Append(IF Len(TailOf(n)) >= SNIPPET THEN Tail(TailOf(n)) ELSE TailOf(n), n + 1)
<1> DEFINE t == TailOf(n)
           u == TailOf(n + 1)
<1>1. t \in Seq(Nat) /\ u \in Seq(Nat)
  BY TailOfFacts
<1>2. /\ Len(t) = IF n < SNIPPET THEN n ELSE SNIPPET
      /\ \A i \in 1..Len(t) : t[i] = n - Len(t) + i
  BY TailOfFacts
<1>3. /\ Len(u) = IF n + 1 < SNIPPET THEN n + 1 ELSE SNIPPET
      /\ \A i \in 1..Len(u) : u[i] = n + 1 - Len(u) + i
  BY TailOfFacts
<1> HIDE DEF t, u
<1>4. CASE n < SNIPPET
  <2>1. Len(u) = Len(Append(t, n + 1)) /\ Append(t, n + 1) \in Seq(Nat) /\ Len(t) = n /\ Len(u) = n + 1
    BY <1>1, <1>2, <1>3, <1>4, BoundAssumption
  <2>2. \A i \in 1..Len(u) : u[i] = Append(t, n + 1)[i]
    BY <1>1, <1>2, <1>3, <2>1
  <2>3. u = Append(t, n + 1)
    BY <1>1, <2>1, <2>2
  <2> QED
    BY <1>2, <1>4, <2>3, BoundAssumption DEF t, u
<1>5. CASE n >= SNIPPET
  <2>1. Len(t) = SNIPPET /\ Len(u) = SNIPPET /\ SNIPPET \in Nat \ {0}
    BY <1>2, <1>3, <1>5, BoundAssumption
  <2>2. /\ Tail(t) \in Seq(Nat) /\ Len(Tail(t)) = SNIPPET - 1
        /\ \A i \in 1..(SNIPPET - 1) : Tail(t)[i] = t[i + 1]
    BY <1>1, <2>1
  <2>3. /\ Append(Tail(t), n + 1) \in Seq(Nat) /\ Len(Append(Tail(t), n + 1)) = SNIPPET
        /\ \A i \in 1..(SNIPPET - 1) : Append(Tail(t), n + 1)[i] = t[i + 1]
        /\ Append(Tail(t), n + 1)[SNIPPET] = n + 1
    BY <2>1, <2>2
  <2>4. \A i \in 1..SNIPPET : u[i] = Append(Tail(t), n + 1)[i]
    <3> TAKE i \in 1..SNIPPET
    <3>1. u[i] = n + 1 - SNIPPET + i
      BY <1>3, <2>1
    <3>2. CASE i = SNIPPET
      BY <2>3, <3>1, <3>2, <2>1
    <3>3. CASE i # SNIPPET
      <4>1. i \in 1..(SNIPPET - 1) /\ i + 1 \in 1..Len(t)
        BY <2>1, <3>3
      <4>2. t[i + 1] = n - SNIPPET + (i + 1)
        BY <1>2, <2>1, <4>1
      <4> QED
        BY <2>1, <2>3, <3>1, <4>1, <4>2
    <3> QED
      BY <3>2, <3>3
  <2>5. u = Append(Tail(t), n + 1)
    <3> DEFINE v == Append(Tail(t), n + 1)
    <3>1. /\ v \in Seq(Nat) /\ Len(v) = Len(u) /\ \A i \in 1..Len(u) : u[i] = v[i]
      BY <2>1, <2>3, <2>4
    <3> HIDE DEF v
    <3>2. u = v
      BY <1>1, <3>1, SeqEqual
    <3> QED
      BY <3>2 DEF v
  <2> QED
    BY <2>1, <2>5, BoundAssumption DEF t, u
<1> QED
  BY <1>4, <1>5, BoundAssumption

-----------------------------------------------------------------------------
(* Attempts.                                                                 *)

\* Two builders do not have the same attempt.
LEMMA Apart ==
  ASSUME Inv, AttemptInv, NEW b \in Builders, NEW c \in Builders,
         unacked[b] # NoJob, unacked[c] # NoJob, b # c
  PROVE  attempt[b] # attempt[c]
<1>1. /\ attempts[attempt[b]] = unacked[b] /\ attempts[attempt[c]] = unacked[c]
      /\ unacked[b] \in Jobs
  BY DEF AttemptInv, IsBusy, Inv, TypeOK
<1>2. unacked[b] # unacked[c]
  BY <1>1 DEF Inv, Places, Waiting, Settled, Held
<1> QED
  BY <1>1, <1>2

\* What an attempt sees of the broker: its log and its answers.
LEMMA StageFrame ==
  ASSUME NEW c \in Builders, Stage(c),
         pc'[c] = pc[c], wire'[c] = wire[c], line_counter'[c] = line_counter[c],
         snippet_log'[c] = snippet_log[c], attempt'[c] = attempt[c],
         Log(c)' = Log(c), Answers(attempt[c])' = Answers(attempt[c])
  PROVE  Stage(c)'
<1>1. (Lined(c) => Lined(c)') /\ Left(c)' = Left(c)
  BY DEF Lined, Left
<1>2. Answers(attempt[c])' = Answers(attempt[c]) /\ (Answers(attempt[c]))' = {r \in results' : r.attempt = attempt'[c]}
  BY DEF Answers
<1> QED
  BY <1>1, <1>2 DEF Stage, Preparing, Talking, Finishing, LastWords, GivingUp, Through

\* A worker tells something: the broker is as it was.
LEMMA TellStage ==
  ASSUME Inv, LogInv, NEW b \in Builders, NEW actions, Tell(b, actions),
         \A c \in Builders \ {b} : /\ pc'[c] = pc[c] /\ line_counter'[c] = line_counter[c]
                                   /\ snippet_log'[c] = snippet_log[c],
         Stage(b)'
  PROVE  LogInv'
<1>1. UNCHANGED <<ready, unacked, acked, logs, results, attempts, attempt, dead>>
  BY DEF Tell, brokerVars
<1>2. ResultInv' /\ AttemptInv' /\ LogsWellFormed'
  BY <1>1 DEF LogInv, ResultInv, AttemptInv, IsBusy, LogsWellFormed, OfLines
<1>3. ASSUME NEW c \in Builders, unacked'[c] # NoJob
      PROVE  Stage(c)'
  <2>1. CASE c = b
    BY <2>1
  <2>2. CASE c # b
    <3>1. wire'[c] = wire[c]
      BY <2>2 DEF Tell, Inv, TypeOK
    <3>2. Stage(c)
      BY <1>1, <1>3 DEF LogInv, StageInv, IsBusy
    <3>3. Log(c)' = Log(c) /\ Answers(attempt[c])' = Answers(attempt[c]) /\ attempt'[c] = attempt[c]
      BY <1>1 DEF Log, Answers
    <3> QED
      BY <2>2, <3>1, <3>2, <3>3, StageFrame
  <2> QED
    BY <2>1, <2>2
<1> QED
  BY <1>2, <1>3 DEF LogInv, StageInv, IsBusy

-----------------------------------------------------------------------------
(* The steps of the worker.                                                  *)

LEMMA WorkingStage ==
  ASSUME Inv, LogInv, NEW b \in Builders, pc[b] # "idle"
  PROVE  /\ unacked[b] # NoJob
         /\ pc[b] = "preparing" => Preparing(b)
         /\ pc[b] \in {"errors", "building"} => Talking(b)
<1>1. unacked[b] # NoJob /\ Stage(b)
  BY WorkingBuilder, JobAssumption DEF LogInv, StageInv, IsBusy
<1> QED
  BY <1>1 DEF Stage, Preparing, Talking, Finishing, LastWords, GivingUp, Through

LEMMA AckOnlyLog ==
  ASSUME Inv, LogInv, NEW b \in Builders, NothingToDo(b) \/ CommitMissing(b)
  PROVE  LogInv'
<1>1. /\ pc[b] = "preparing" /\ pc' = [pc EXCEPT ![b] = "idle"] /\ Tell(b, <<Ack>>)
      /\ UNCHANGED <<line_counter, snippet_log>>
  BY DEF NothingToDo, CommitMissing, Goto
<1>2. wire[b] = <<>> /\ wire'[b] = wire[b] \o <<Ack>>
  BY <1>1, WorkingStage DEF Preparing, Tell, Inv, TypeOK
<1>3. Through(b)'
  BY <1>1, <1>2 DEF Through, Inv, TypeOK
<1>4. \A c \in Builders \ {b} : pc'[c] = pc[c]
  BY <1>1 DEF Inv, TypeOK
<1> QED
  BY <1>1, <1>3, <1>4, TellStage DEF Stage

LEMMA MergeFailedLog ==
  ASSUME Inv, LogInv, NEW b \in Builders, MergeFailed(b)
  PROVE  LogInv'
<1> DEFINE actions == <<Result("Failure", MergeFailedOutput), Ack>>
<1>1. /\ pc[b] = "preparing" /\ pc' = [pc EXCEPT ![b] = "idle"] /\ Tell(b, actions)
      /\ UNCHANGED <<line_counter, snippet_log>>
  BY DEF MergeFailed, Goto
<1>2. Preparing(b)
  BY <1>1, WorkingStage
<1>3. wire'[b] = actions
  BY <1>1, <1>2 DEF Preparing, Tell, Inv, TypeOK
<1>4. UNCHANGED <<logs, attempt, results>>
  BY <1>1 DEF Tell, brokerVars
<1>5. GivingUp(b)'
  <2>1. pc'[b] = "idle" /\ Log(b)' = <<>> /\ Answers(attempt[b])' = {}
    BY <1>1, <1>2, <1>4 DEF Preparing, Log, Answers, Inv, TypeOK
  <2>2. Len(wire'[b]) = 2 /\ wire'[b][1] = Result("Failure", MergeFailedOutput) /\ wire'[b][2] = Ack
    BY <1>3
  <2> QED
    BY <2>1, <2>2 DEF GivingUp, Result
<1>6. \A c \in Builders \ {b} : pc'[c] = pc[c]
  BY <1>1 DEF Inv, TypeOK
<1> HIDE DEF actions
<1> QED
  BY <1>1, <1>5, <1>6, TellStage DEF Stage

LEMMA LogStartedLog ==
  ASSUME Inv, LogInv, NEW b \in Builders, NEW can \in BOOLEAN, NEW cannot \in BOOLEAN,
         LogStarted(b, can, cannot)
  PROVE  LogInv'
<1> DEFINE next == IF cannot THEN "errors" ELSE "building"
           actions == <<LogMessage("Start", 0)>>
<1>1. /\ pc[b] = "preparing" /\ pc' = [pc EXCEPT ![b] = next] /\ Tell(b, actions)
      /\ UNCHANGED <<line_counter, snippet_log>> /\ next \in {"errors", "building"}
  BY DEF LogStarted, Goto
<1> HIDE DEF next
<1>2. Preparing(b)
  BY <1>1, WorkingStage
<1>3. wire'[b] = actions
  BY <1>1, <1>2 DEF Preparing, Tell, Inv, TypeOK
<1>4. UNCHANGED <<logs, attempt, results>>
  BY <1>1 DEF Tell, brokerVars
<1>5. Talking(b)'
  <2>1. /\ pc'[b] \in {"errors", "building"} /\ Log(b)' = <<>> /\ Answers(attempt[b])' = {}
        /\ line_counter'[b] = 0 /\ snippet_log'[b] = <<>>
    BY <1>1, <1>2, <1>4 DEF Preparing, Log, Answers, Inv, TypeOK
  <2>2. Len(wire'[b]) = 1 /\ wire'[b][1] = Entry(1) /\ DOMAIN wire'[b] = {1}
    BY <1>3 DEF Entry
  <2>3. Len(Log(b)') = 0 /\ DOMAIN (Log(b)') = {}
    BY <2>1
  <2>4. Lined(b)' /\ Left(b)' = 1
    BY <2>1, <2>2, <2>3 DEF Lined, Left
  <2>5. TailOf(0) = <<>>
    BY BoundAssumption DEF TailOf
  <2> QED
    BY <2>1, <2>2, <2>4, <2>5 DEF Talking
<1>6. \A c \in Builders \ {b} : pc'[c] = pc[c]
  BY <1>1 DEF Inv, TypeOK
<1> HIDE DEF actions
<1> QED
  BY <1>1, <1>5, <1>6, TellStage DEF Stage

LEMMA LogLineLog ==
  ASSUME Inv, LogInv, NEW b \in Builders, LogLine(b)
  PROVE  LogInv'
<1> DEFINE n == line_counter[b] + 1
           kept == IF Len(snippet_log[b]) >= SNIPPET THEN Tail(snippet_log[b]) ELSE snippet_log[b]
           line == LogMessage("Msg", n)
           actions == <<line>>
<1>1. /\ pc[b] \in {"errors", "building"} /\ pc' = pc
      /\ line_counter' = [line_counter EXCEPT ![b] = n]
      /\ snippet_log' = [snippet_log EXCEPT ![b] = Append(kept, n)]
      /\ Tell(b, actions)
  BY DEF LogLine
<1>2. /\ line_counter \in [Builders -> 0..MaxLines] /\ snippet_log \in [Builders -> Outputs]
      /\ wire \in [Builders -> Seq(Actions)] /\ attempt[b] \in DOMAIN attempts
      /\ logs \in Seq(Seq(LogMessages)) /\ Len(logs) = Len(attempts) /\ attempts \in Seq(Jobs)
  BY <1>1, WorkingBuilder DEF Inv, TypeOK, LogInv, AttemptInv
<1>3. line_counter[b] \in Nat /\ n \in Nat /\ Log(b) \in Seq(LogMessages) /\ wire[b] \in Seq(Actions)
  BY <1>2, Constants DEF Log
<1>4. Talking(b)
  BY <1>1, WorkingStage
<1>5. /\ line_counter'[b] = n /\ snippet_log'[b] = Append(kept, n) /\ wire'[b] = wire[b] \o actions
      /\ \A c \in Builders \ {b} : /\ line_counter'[c] = line_counter[c]
                                   /\ snippet_log'[c] = snippet_log[c]
  BY <1>1, <1>2 DEF Tell
<1>6. UNCHANGED <<logs, attempt, results>>
  BY <1>1 DEF Tell, brokerVars
<1>7. snippet_log'[b] = TailOf(n)
  <2>1. snippet_log[b] = TailOf(line_counter[b])
    BY <1>4 DEF Talking
  <2> QED
    BY <1>3, <1>5, <2>1, TailOfNext
<1>8. /\ Len(wire'[b]) = Len(wire[b]) + 1 /\ wire'[b][Len(wire[b]) + 1] = line
      /\ \A i \in 1..Len(wire[b]) : wire'[b][i] = wire[b][i]
      /\ DOMAIN wire'[b] = 1..(Len(wire[b]) + 1) /\ DOMAIN wire[b] = 1..Len(wire[b])
      /\ Len(wire[b]) \in Nat
  <2> HIDE DEF line
  <2> QED
    BY <1>3, <1>5
<1>9. line = Entry(n + 1)
  BY <1>3 DEF Entry
<1> HIDE DEF n, line, kept
<1>10. Log(b)' = Log(b) /\ Answers(attempt[b])' = {} /\ pc'[b] \in {"errors", "building"}
  BY <1>1, <1>4, <1>6 DEF Log, Answers, Talking
<1>11. Lined(b)' /\ Left(b)' = Left(b) + 1
  <2>1. /\ Len(Log(b)) \in Nat /\ Len(Log(b)) <= line_counter[b] + 1
        /\ Left(b) = line_counter[b] + 1 - Len(Log(b)) /\ Left(b) = Len(wire[b])
    BY <1>3, <1>4 DEF Talking, Lined, Left
  <2>2. Left(b)' = Left(b) + 1
    BY <1>3, <1>5, <1>10, <2>1 DEF Left, n
  <2>3. \A i \in DOMAIN Log(b) : Log(b)[i] = Entry(i)
    BY <1>4 DEF Talking, Lined
  <2>4. ASSUME NEW i \in 1..(Left(b) + 1)
        PROVE  i \in DOMAIN wire'[b] /\ wire'[b][i] = Entry(Len(Log(b)) + i)
    <3>1. CASE i = Left(b) + 1
      <4>1. Len(Log(b)) + i = n + 1
        <5>1. Left(b) = line_counter[b] + 1 - Len(Log(b)) /\ n = line_counter[b] + 1
          BY <2>1 DEF n
        <5>2. Len(Log(b)) \in Nat /\ line_counter[b] \in Nat
          BY <1>3, <2>1
        <5> QED
          BY <3>1, <5>1, <5>2
      <4> QED
        BY <1>8, <1>9, <2>1, <3>1, <4>1
    <3>2. CASE i # Left(b) + 1
      <4>1. i \in 1..(line_counter[b] + 1 - Len(Log(b))) /\ i \in 1..Len(wire[b])
        BY <2>1, <3>2
      <4>2. wire[b][i] = Entry(Len(Log(b)) + i)
        BY <1>4, <4>1 DEF Talking, Lined
      <4> QED
        BY <1>8, <2>1, <4>1, <4>2
    <3> QED
      BY <3>1, <3>2
  <2>5. Len(Log(b)) <= line_counter'[b] + 1
    BY <1>3, <1>5, <2>1 DEF n
  <2> QED
    BY <1>10, <2>2, <2>3, <2>4, <2>5 DEF Lined, Left
<1>12. Talking(b)'
  <2>1. Len(wire'[b]) = Left(b)'
    BY <1>4, <1>8, <1>11 DEF Talking
  <2> QED
    BY <1>5, <1>7, <1>10, <1>11, <2>1 DEF Talking
<1> HIDE DEF actions
<1> QED
  BY <1>1, <1>5, <1>12, TellStage DEF Stage

\* The result, the end of the log and the Ack follow the lines.
LEMMA FinishLog ==
  ASSUME Inv, LogInv, NEW b \in Builders, NEW status \in Statuses,
         pc[b] \in {"errors", "building"}, pc' = [pc EXCEPT ![b] = "idle"],
         Finish(b, status), UNCHANGED <<line_counter, snippet_log>>
  PROVE  LogInv'
<1> DEFINE result == Result(status, snippet_log[b])
           finish == LogMessage("Finish", 0)
           actions == <<result, finish, Ack>>
           n == line_counter[b]
<1>1. Tell(b, actions)
  BY DEF Finish
<1>2. /\ wire \in [Builders -> Seq(Actions)] /\ attempt[b] \in DOMAIN attempts
      /\ logs \in Seq(Seq(LogMessages)) /\ Len(logs) = Len(attempts) /\ attempts \in Seq(Jobs)
      /\ line_counter[b] \in Nat /\ snippet_log[b] \in Outputs
  BY Constants, WorkingBuilder DEF Inv, TypeOK, LogInv, AttemptInv
<1>3. result \in Actions /\ finish \in Actions /\ Ack \in Actions
  <2>1. result \in Actions
    BY <1>2, ActionTypes
  <2> QED
    BY <2>1, ActionTypes, Constants
<1>4. Talking(b)
  BY WorkingStage
<1>5. wire'[b] = wire[b] \o actions /\ wire[b] \in Seq(Actions) /\ Log(b) \in Seq(LogMessages)
  <2>1. attempt[b] \in DOMAIN logs
    BY <1>2
  <2>2. Log(b) \in Seq(LogMessages)
    BY <1>2, <2>1 DEF Log
  <2>3. wire' = [wire EXCEPT ![b] = @ \o actions]
    BY <1>1 DEF Tell
  <2> QED
    BY <1>2, <2>2, <2>3
<1>6. result.to = "build-results" /\ result.output = TailOf(n)
  BY <1>4 DEF Talking, Result
<1>7. UNCHANGED <<logs, attempt, results>>
  BY <1>1 DEF Tell, brokerVars
<1>8. /\ Log(b)' = Log(b) /\ Answers(attempt[b])' = {} /\ pc'[b] = "idle"
      /\ line_counter'[b] = n
  BY <1>4, <1>7 DEF Log, Answers, Talking, Inv, TypeOK
<1> HIDE DEF result, finish, n
<1>9. /\ Len(wire[b]) \in Nat /\ Len(wire'[b]) = Len(wire[b]) + 3
      /\ wire'[b][Len(wire[b]) + 1] = result /\ wire'[b][Len(wire[b]) + 2] = finish
      /\ wire'[b][Len(wire[b]) + 3] = Ack
      /\ \A i \in 1..Len(wire[b]) : i \in DOMAIN wire[b] /\ wire'[b][i] = wire[b][i]
      /\ DOMAIN wire'[b] = 1..(Len(wire[b]) + 3)
  <2>1. actions \in Seq(Actions) /\ Len(actions) = 3
    BY <1>3
  <2>2. actions[1] = result /\ actions[2] = finish /\ actions[3] = Ack
    OBVIOUS
  <2> HIDE DEF actions
  <2>3. /\ Len(wire'[b]) = Len(wire[b]) + Len(actions) /\ Len(wire[b]) \in Nat
        /\ \A i \in DOMAIN actions : wire'[b][Len(wire[b]) + i] = actions[i]
        /\ \A i \in DOMAIN wire[b] : wire'[b][i] = wire[b][i]
        /\ wire'[b] \in Seq(Actions)
    <3> DEFINE w == wire[b]
    <3>1. w \in Seq(Actions) /\ actions \in Seq(Actions) /\ wire'[b] = w \o actions
      BY <1>5, <2>1
    <3> HIDE DEF w
    <3>2. /\ Len(w \o actions) = Len(w) + Len(actions) /\ Len(w) \in Nat
          /\ \A i \in DOMAIN actions : (w \o actions)[Len(w) + i] = actions[i]
          /\ \A i \in DOMAIN w : (w \o actions)[i] = w[i]
          /\ w \o actions \in Seq(Actions)
      BY <3>1, ConcatFacts
    <3> QED
      BY <3>1, <3>2 DEF w
  <2>4. DOMAIN actions = 1..3 /\ DOMAIN wire[b] = 1..Len(wire[b])
    BY <1>5, <2>1
  <2>5. 1 \in DOMAIN actions /\ 2 \in DOMAIN actions /\ 3 \in DOMAIN actions
    BY <2>4
  <2>6. DOMAIN wire'[b] = 1..(Len(wire[b]) + 3)
    BY <2>1, <2>3
  <2> QED
    BY <2>1, <2>2, <2>3, <2>4, <2>5, <2>6
<1>10. Lined(b)' /\ Left(b)' = Left(b) /\ Left(b) = Len(wire[b])
  <2>1. /\ Left(b) = line_counter[b] + 1 - Len(Log(b)) /\ Left(b) = Len(wire[b])
        /\ Len(Log(b)) <= line_counter[b] + 1 /\ Len(Log(b)) \in Nat
        /\ \A i \in DOMAIN Log(b) : Log(b)[i] = Entry(i)
        /\ \A i \in 1..Len(wire[b]) : wire[b][i] = Entry(Len(Log(b)) + i)
    BY <1>4, <1>5 DEF Talking, Lined, Left
  <2>2. ASSUME NEW i \in 1..Len(wire[b])
        PROVE  i \in DOMAIN wire'[b] /\ wire'[b][i] = Entry(Len(Log(b)) + i)
    <3>1. i \in 1..(Len(wire[b]) + 3)
      BY <1>9
    <3> QED
      BY <1>9, <2>1, <3>1
  <2> QED
    BY <1>8, <2>1, <2>2 DEF Lined, Left, n
<1>11. Finishing(b)'
  <2>1. wire'[b][Left(b)' + 1] = result /\ Len(wire'[b]) = Left(b)' + 3
        /\ wire'[b][Left(b)' + 2] = finish /\ wire'[b][Left(b)' + 3] = Ack
    BY <1>9, <1>10
  <2> QED
    BY <1>6, <1>8, <1>10, <2>1 DEF Finishing, finish
<1>12. \A c \in Builders \ {b} : pc'[c] = pc[c]
  BY DEF Inv, TypeOK
<1> HIDE DEF actions
<1> QED
  BY <1>1, <1>11, <1>12, TellStage DEF Stage

LEMMA BuildSpawnedLog ==
  ASSUME Inv, LogInv, NEW b \in Builders, BuildSpawned(b)
  PROVE  LogInv'
<1>1. /\ pc[b] \in {"errors", "building"} /\ pc' = [pc EXCEPT ![b] = "building"] /\ Tell(b, <<>>)
      /\ UNCHANGED <<line_counter, snippet_log>>
  BY DEF BuildSpawned, Goto
<1>2. Talking(b)
  BY <1>1, WorkingStage
<1>3. wire'[b] = wire[b]
  <2>1. wire[b] \in Seq(Actions) /\ wire'[b] = wire[b] \o <<>>
    BY <1>1 DEF Tell, Inv, TypeOK
  <2> QED
    BY <2>1
<1>4. UNCHANGED <<logs, attempt, results>>
  BY <1>1 DEF Tell, brokerVars
<1>5. pc'[b] = "building" /\ Log(b)' = Log(b) /\ Answers(attempt[b])' = Answers(attempt[b])
  BY <1>1, <1>4 DEF Log, Answers, Inv, TypeOK
<1>6. Lined(b)' /\ Left(b)' = Left(b)
  BY <1>1, <1>2, <1>3, <1>5 DEF Talking, Lined, Left
<1>7. Talking(b)'
  <2>1. (Answers(attempt[b]))' = {}
    BY <1>2, <1>5 DEF Talking
  <2> QED
    BY <1>1, <1>2, <1>3, <1>5, <1>6, <2>1 DEF Talking
<1>8. \A c \in Builders \ {b} : pc'[c] = pc[c]
  BY <1>1 DEF Inv, TypeOK
<1> QED
  BY <1>1, <1>7, <1>8, TellStage DEF Stage

LEMMA WorkerLog ==
  ASSUME Inv, LogInv, NEW b \in Builders, WorkerStep(b)
  PROVE  LogInv'
<1>1. CASE NothingToDo(b) \/ CommitMissing(b)
  BY <1>1, AckOnlyLog
<1>2. CASE MergeFailed(b)
  BY <1>2, MergeFailedLog
<1>3. CASE \E can, cannot \in BOOLEAN : LogStarted(b, can, cannot)
  BY <1>3, LogStartedLog
<1>4. CASE LogLine(b)
  BY <1>4, LogLineLog
<1>5. CASE BuildNotAttempted(b)
  <2>1. "Skipped" \in Statuses
    BY DEF Statuses
  <2> QED
    BY <1>5, <2>1, FinishLog DEF BuildNotAttempted, Goto
<1>6. CASE BuildSpawned(b)
  BY <1>6, BuildSpawnedLog
<1>7. CASE \E code \in ExitCodes : BuildFinished(b, code)
  <2>1. PICK code \in ExitCodes : BuildFinished(b, code)
    BY <1>7
  <2>2. StatusOf(code) \in Statuses
    BY Constants
  <2> QED
    BY <2>1, <2>2, FinishLog DEF BuildFinished, Goto
<1> QED
  BY <1>1, <1>2, <1>3, <1>4, <1>5, <1>6, <1>7 DEF WorkerStep

-----------------------------------------------------------------------------
(* The broker.                                                               *)

LEMMA DeliverLog ==
  ASSUME Inv, LogInv, NEW b \in Builders, NEW j \in Jobs, Deliver(b, j)
  PROVE  LogInv'
<1> DEFINE a == Len(attempts) + 1
<1>1. /\ attempts \in Seq(Jobs) /\ logs \in Seq(Seq(LogMessages)) /\ Len(logs) = Len(attempts)
      /\ Len(attempts) \in Nat /\ DOMAIN attempts = 1..Len(attempts)
      /\ DOMAIN logs = 1..Len(attempts)
  BY DEF Inv, TypeOK, LogInv, AttemptInv
<1>2. /\ attempts' = Append(attempts, j) /\ logs' = Append(logs, <<>>)
      /\ attempt' = [attempt EXCEPT ![b] = a]
      /\ unacked' = [unacked EXCEPT ![b] = j] /\ j \in ready /\ unacked[b] = NoJob
      /\ UNCHANGED <<acked, results, wire, dead>>
  BY DEF Deliver
<1>3. /\ Len(attempts') = a /\ Len(logs') = a /\ attempts'[a] = j /\ logs'[a] = <<>>
      /\ DOMAIN attempts' = 1..a /\ DOMAIN logs' = 1..a
      /\ \A i \in DOMAIN attempts : attempts'[i] = attempts[i] /\ logs'[i] = logs[i]
  BY <1>1, <1>2
<1>4. /\ a \notin DOMAIN attempts /\ a \in DOMAIN attempts'
      /\ \A i \in DOMAIN attempts' : i \in DOMAIN attempts \/ i = a
  BY <1>1, <1>3
<1> HIDE DEF a
<1>5. \A r \in results : r.attempt \in DOMAIN attempts
  BY DEF Inv, TypeOK
<1>6. ASSUME NEW c \in Builders, c # b
      PROVE  /\ unacked'[c] = unacked[c] /\ attempt'[c] = attempt[c] /\ pc'[c] = pc[c]
             /\ line_counter'[c] = line_counter[c] /\ snippet_log'[c] = snippet_log[c]
  BY <1>6 DEF Deliver, Inv, TypeOK
<1>7. attempt'[b] = a /\ unacked'[b] = j
  BY <1>2 DEF Inv, TypeOK
<1>8. StageInv'
  <2>1. ASSUME NEW c \in Builders, unacked'[c] # NoJob, c # b
        PROVE  Stage(c)'
    <3>1. Stage(c) /\ attempt[c] \in DOMAIN attempts
      BY <1>6, <2>1 DEF LogInv, StageInv, AttemptInv, IsBusy
    <3>2. Log(c)' = Log(c) /\ Answers(attempt[c])' = Answers(attempt[c])
      BY <1>2, <1>3, <1>6, <2>1, <3>1 DEF Log, Answers
    <3> QED
      BY <1>2, <1>6, <2>1, <3>1, <3>2, StageFrame
  <2>2. Preparing(b)'
    <3>1. wire[b] = <<>>
      BY <1>2 DEF Inv, WireInv
    <3>2. Answers(attempt[b])' = {} /\ Log(b)' = <<>>
      BY <1>2, <1>3, <1>4, <1>5, <1>7 DEF Answers, Log
    <3>3. pc'[b] = "preparing" /\ line_counter'[b] = 0 /\ snippet_log'[b] = <<>>
      BY DEF Deliver, Inv, TypeOK
    <3> QED
      BY <1>2, <3>1, <3>2, <3>3 DEF Preparing
  <2> QED
    BY <2>1, <2>2 DEF StageInv, IsBusy, Stage
<1>9. ResultInv'
  <2>1. ASSUME NEW r \in results
        PROVE  r.job = attempts'[r.attempt] /\ logs'[r.attempt] = logs[r.attempt]
    BY <1>3, <1>5 DEF LogInv, ResultInv
  <2>2. ASSUME NEW r \in results
        PROVE  \/ logs[r.attempt] = <<>> /\ r.output = MergeFailedOutput
               \/ \E n \in 0..MaxLines : OfLines(logs[r.attempt], n) /\ r.output = TailOf(n)
    BY DEF LogInv, ResultInv
  <2>3. \A r, s \in results : r.attempt = s.attempt => r = s
    BY DEF LogInv, ResultInv
  <2>4. results' = results
    BY <1>2
  <2> QED
    BY <2>1, <2>2, <2>3, <2>4 DEF ResultInv
<1>10. LogsWellFormed'
  <2>1. ASSUME NEW i \in DOMAIN logs'
        PROVE  logs'[i] = <<>> \/ (i \in DOMAIN logs /\ logs'[i] = logs[i])
    BY <1>1, <1>3, <1>4
  <2> QED
    BY <1>2, <2>1 DEF LogInv, LogsWellFormed
<1>11. AttemptInv'
  <2>1. \A i \in DOMAIN attempts : attempts[i] = j => i \in dead
    <3> SUFFICES ASSUME NEW i \in DOMAIN attempts, attempts[i] = j, i \notin dead
                 PROVE  FALSE
      OBVIOUS
    <3>1. j \in acked \/ \E c \in Builders : unacked[c] = j
      BY DEF LogInv, AttemptInv
    <3> QED
      BY <1>2, <3>1 DEF Inv, Places, Waiting, Settled, Held
  <2>2. \A c \in Builders : unacked'[c] # NoJob =>
          attempt'[c] \in DOMAIN attempts' /\ attempts'[attempt'[c]] = unacked'[c]
    <3> SUFFICES ASSUME NEW c \in Builders, unacked'[c] # NoJob
                 PROVE  attempt'[c] \in DOMAIN attempts' /\ attempts'[attempt'[c]] = unacked'[c]
      OBVIOUS
    <3>1. CASE c = b
      <4>1. a \in DOMAIN attempts'
        BY <1>4
      <4> QED
        BY <1>3, <1>7, <3>1, <4>1
    <3>2. CASE c # b
      <4>1. attempt[c] \in DOMAIN attempts /\ attempts[attempt[c]] = unacked[c]
        BY <1>6, <3>2 DEF LogInv, AttemptInv, IsBusy
      <4>2. attempt[c] \in DOMAIN attempts'
        BY <1>1, <1>3, <4>1 DEF a
      <4>3. attempts'[attempt[c]] = attempts[attempt[c]]
        BY <1>3, <4>1
      <4> QED
        BY <1>6, <3>2, <4>1, <4>2, <4>3
    <3> QED
      BY <3>1, <3>2
  <2>3. ASSUME NEW i \in DOMAIN attempts'
        PROVE  \/ i \in dead \/ attempts'[i] \in acked
               \/ \E c \in Builders : unacked'[c] = attempts'[i] /\ attempt'[c] = i
    <3>1. CASE i = a
      BY <1>3, <1>7, <3>1
    <3>2. CASE i # a
      <4>1. i \in DOMAIN attempts /\ attempts'[i] = attempts[i]
        BY <1>3, <1>4, <3>2
      <4>2. CASE \E c \in Builders : unacked[c] = attempts[i] /\ attempt[c] = i
        <5>1. PICK c \in Builders : unacked[c] = attempts[i] /\ attempt[c] = i
          BY <4>2
        <5>2. c # b
          BY <1>1, <1>2, <4>1, <5>1, JobAssumption
        <5> QED
          BY <1>6, <4>1, <5>1, <5>2
      <4> QED
        BY <4>1, <4>2 DEF LogInv, AttemptInv
    <3> QED
      BY <3>1, <3>2
  <2>4. ASSUME NEW i \in DOMAIN attempts', NEW k \in DOMAIN attempts', i < k,
               attempts'[i] = attempts'[k]
        PROVE  i \in dead
    <3>1. i \in DOMAIN attempts /\ attempts'[i] = attempts[i]
      BY <1>1, <1>3, <1>4, <2>4 DEF a
    <3>2. CASE k = a
      BY <1>3, <2>1, <2>4, <3>1, <3>2
    <3>3. CASE k # a
      BY <1>3, <1>4, <2>4, <3>1, <3>3 DEF LogInv, AttemptInv
    <3> QED
      BY <3>2, <3>3
  <2> QED
    BY <1>2, <1>3, <2>2, <2>3, <2>4 DEF AttemptInv, IsBusy
<1> QED
  BY <1>8, <1>9, <1>10, <1>11 DEF LogInv

LEMMA CrashLog ==
  ASSUME Inv, LogInv, NEW b \in Builders, Crash(b)
  PROVE  LogInv'
<1>1. /\ UNCHANGED <<acked, logs, results, attempts, attempt, line_counter, snippet_log>>
      /\ unacked' = [unacked EXCEPT ![b] = NoJob] /\ dead' = dead \cup {attempt[b]}
      /\ unacked[b] # NoJob
  BY DEF Crash
<1>2. ASSUME NEW c \in Builders, c # b
      PROVE  unacked'[c] = unacked[c] /\ pc'[c] = pc[c] /\ wire'[c] = wire[c]
  BY <1>2 DEF Crash, Inv, TypeOK
<1>3. unacked'[b] = NoJob
  BY <1>1 DEF Inv, TypeOK
<1>4. StageInv'
  <2> SUFFICES ASSUME NEW c \in Builders, unacked'[c] # NoJob
               PROVE  Stage(c)'
    BY DEF StageInv, IsBusy
  <2>1. c # b /\ Stage(c)
    BY <1>2, <1>3 DEF LogInv, StageInv, IsBusy
  <2>2. Log(c)' = Log(c) /\ Answers(attempt[c])' = Answers(attempt[c])
    BY <1>1 DEF Log, Answers
  <2> QED
    BY <1>1, <1>2, <2>1, <2>2, StageFrame
<1>5. ResultInv' /\ LogsWellFormed'
  BY <1>1 DEF LogInv, ResultInv, OfLines, LogsWellFormed
<1>6. AttemptInv'
  <2>1. \A c \in Builders : unacked'[c] # NoJob =>
          attempt[c] \in DOMAIN attempts /\ attempts[attempt[c]] = unacked'[c]
    BY <1>2, <1>3 DEF LogInv, AttemptInv, IsBusy
  <2>2. ASSUME NEW i \in DOMAIN attempts
        PROVE  \/ i \in dead' \/ attempts[i] \in acked
               \/ \E c \in Builders : unacked'[c] = attempts[i] /\ attempt[c] = i
    <3>1. CASE \E c \in Builders : unacked[c] = attempts[i] /\ attempt[c] = i
      <4>1. PICK c \in Builders : unacked[c] = attempts[i] /\ attempt[c] = i
        BY <3>1
      <4> QED
        BY <1>1, <1>2, <4>1
    <3> QED
      BY <1>1, <3>1 DEF LogInv, AttemptInv
  <2>3. \A i, k \in DOMAIN attempts : i < k /\ attempts[i] = attempts[k] => i \in dead'
    BY <1>1 DEF LogInv, AttemptInv
  <2>4. Len(logs) = Len(attempts)
    BY DEF LogInv, AttemptInv
  <2> QED
    BY <1>1, <2>1, <2>2, <2>3, <2>4 DEF AttemptInv, IsBusy
<1> QED
  BY <1>4, <1>5, <1>6 DEF LogInv

\* The log of the attempt of b is all that BrokerLogs changes.
WellFormed(a) ==
    \A i \in DOMAIN logs[a] :
        /\ logs[a][i].type = "Start" <=> i = 1
        /\ logs[a][i].type = "Msg" => logs[a][i].line_number = i - 1
        /\ logs[a][i].type = "Finish" =>
            i = Len(logs[a]) /\ \E r \in results : r.attempt = a

LEMMA BrokerLogsFrame ==
  ASSUME Inv, LogInv, NEW b \in Builders, BrokerLogs(b),
         Stage(b)', WellFormed(attempt[b])',
         \A r \in results : r.attempt = attempt[b] =>
             \E n \in 0..MaxLines : OfLines(logs[attempt[b]], n)' /\ r.output = TailOf(n)
  PROVE  LogInv'
<1>1. /\ wire[b] # <<>> /\ wire' = [wire EXCEPT ![b] = Tail(wire[b])]
      /\ logs' = [logs EXCEPT ![attempt[b]] = Append(@, Head(wire[b]))]
      /\ UNCHANGED <<unacked, acked, results, attempts, pc, attempt, line_counter, snippet_log, dead>>
  BY DEF BrokerLogs, Received, workerVars
<1>2. /\ logs \in Seq(Seq(LogMessages)) /\ attempts \in Seq(Jobs) /\ Len(logs) = Len(attempts)
      /\ attempt[b] \in DOMAIN attempts /\ DOMAIN logs = DOMAIN attempts
      /\ unacked[b] # NoJob
  <2>1. unacked[b] # NoJob /\ attempt[b] \in DOMAIN attempts
    BY <1>1, WireShorter, JobAssumption
  <2>2. logs \in Seq(Seq(LogMessages)) /\ attempts \in Seq(Jobs) /\ Len(logs) = Len(attempts)
    BY DEF Inv, TypeOK, LogInv, AttemptInv
  <2> QED
    BY <2>1, <2>2
<1>3. \A a \in DOMAIN logs : a # attempt[b] => logs'[a] = logs[a]
  BY <1>1
<1>4. DOMAIN logs' = DOMAIN logs /\ Len(logs') = Len(logs)
  <2>1. logs' \in Seq(Seq(LogMessages))
    <3>1. Append(logs[attempt[b]], Head(wire[b])) \in Seq(LogMessages)
      <4>1. Head(wire[b]) \in LogMessages
        BY <1>1, WireShorter, ActionTypes DEF BrokerLogs, Received
      <4>2. logs[attempt[b]] \in Seq(LogMessages)
        BY <1>2
      <4> QED
        BY <4>1, <4>2
    <3> QED
      BY <1>1, <1>2, <3>1, ExceptFacts
  <2>2. DOMAIN logs' = DOMAIN logs
    BY <1>1
  <2> QED
    BY <1>2, <2>1, <2>2
<1>5. StageInv'
  <2> SUFFICES ASSUME NEW c \in Builders, unacked[c] # NoJob
               PROVE  Stage(c)'
    BY <1>1 DEF StageInv, IsBusy
  <2>1. CASE c = b
    BY <2>1
  <2>2. CASE c # b
    <3>1. attempt[c] # attempt[b] /\ attempt[c] \in DOMAIN logs /\ Stage(c)
      BY <1>2, <2>2, Apart DEF LogInv, StageInv, AttemptInv, IsBusy
    <3>2. Log(c)' = Log(c)
      BY <1>1, <1>3, <3>1 DEF Log
    <3>3. Answers(attempt[c])' = Answers(attempt[c])
      BY <1>1 DEF Answers
    <3>4. wire'[c] = wire[c]
      BY <1>1, <2>2 DEF Inv, TypeOK
    <3> QED
      BY <1>1, <3>1, <3>2, <3>3, <3>4, StageFrame
  <2> QED
    BY <2>1, <2>2
<1>6. AttemptInv'
  BY <1>1, <1>4 DEF LogInv, AttemptInv, IsBusy
<1>7. LogsWellFormed'
  <2>1. \A a \in DOMAIN logs : WellFormed(a)'
    <3> TAKE a \in DOMAIN logs
    <3>1. CASE a = attempt[b]
      <4>1. WellFormed(attempt[b])'
        OBVIOUS
      <4> QED
        BY <1>1, <3>1, <4>1 DEF WellFormed
    <3>2. CASE a # attempt[b]
      BY <1>1, <1>3, <3>2 DEF LogInv, LogsWellFormed, WellFormed
    <3> QED
      BY <3>1, <3>2
  <2> QED
    BY <1>4, <2>1 DEF LogsWellFormed, WellFormed
<1>8. ResultInv'
  <2>1. ASSUME NEW r \in results
        PROVE  \/ logs'[r.attempt] = <<>> /\ r.output = MergeFailedOutput
               \/ \E n \in 0..MaxLines : OfLines(logs'[r.attempt], n) /\ r.output = TailOf(n)
    <3>1. r.attempt \in DOMAIN logs
      BY <1>2 DEF Inv, TypeOK
    <3>2. CASE r.attempt = attempt[b]
      BY <1>1, <3>2
    <3>3. CASE r.attempt # attempt[b]
      BY <1>3, <3>1, <3>3 DEF LogInv, ResultInv
    <3> QED
      BY <3>2, <3>3
  <2>2. \A r \in results : r.job = attempts[r.attempt]
    BY DEF LogInv, ResultInv
  <2>3. \A r, s \in results : r.attempt = s.attempt => r = s
    BY DEF LogInv, ResultInv
  <2> QED
    BY <1>1, <2>1, <2>2, <2>3 DEF ResultInv
<1> QED
  BY <1>5, <1>6, <1>7, <1>8 DEF LogInv

\* A line arrives, and another one is in front.
LEMMA LineArrives ==
  ASSUME Inv, LogInv, NEW b \in Builders, BrokerLogs(b), Lined(b), Left(b) > 0
  PROVE  /\ Lined(b)' /\ Left(b)' = Left(b) - 1
         /\ Len(wire'[b]) = Len(wire[b]) - 1 /\ Len(wire[b]) \in Nat
         /\ \A i \in DOMAIN wire[b] : i > 1 => wire'[b][i - 1] = wire[b][i]
         /\ \A i \in DOMAIN Log(b)' : Log(b)'[i] = Entry(i)
<1> DEFINE w == wire[b]
           log == Log(b)
           a == attempt[b]
<1>1. /\ w # <<>> /\ wire' = [wire EXCEPT ![b] = Tail(w)]
      /\ logs' = [logs EXCEPT ![a] = Append(@, Head(w))]
      /\ UNCHANGED <<attempt, line_counter>>
  BY DEF BrokerLogs, Received, workerVars
<1>2. /\ w \in Seq(Actions) /\ logs \in Seq(Seq(LogMessages)) /\ line_counter[b] \in Nat
      /\ wire \in [Builders -> Seq(Actions)]
  BY Constants DEF Inv, TypeOK
<1>3. a \in DOMAIN logs
  <2>1. a \in DOMAIN attempts
    BY <1>1, WireShorter
  <2>2. Len(logs) = Len(attempts) /\ attempts \in Seq(Jobs)
    BY DEF LogInv, AttemptInv, Inv, TypeOK
  <2> QED
    BY <1>2, <2>1, <2>2
<1>4. log \in Seq(LogMessages) /\ log = logs[a]
  BY <1>2, <1>3 DEF Log
<1>5. wire'[b] = Tail(w) /\ Log(b)' = Append(log, Head(w))
  BY <1>1, <1>2, <1>3, <1>4 DEF Log
<1>6. Head(w) = w[1] /\ 1 \in DOMAIN w /\ Len(w) \in Nat \ {0}
  BY <1>1, <1>2
<1>7. /\ Left(b) = line_counter[b] + 1 - Len(log) /\ Len(log) \in Nat
      /\ Len(log) <= line_counter[b] + 1
      /\ \A i \in 1..Len(log) : log[i] = Entry(i)
      /\ \A i \in 1..Left(b) : i \in DOMAIN w /\ w[i] = Entry(Len(log) + i)
  BY <1>4 DEF Lined, Left
<1>8. Head(w) = Entry(Len(log) + 1) /\ Head(w) \in LogMessages
  <2>1. 1 \in 1..Left(b)
    BY <1>2, <1>7
  <2>2. w[1].to = "logs" /\ w[1] \in Actions
    BY <1>2, <1>6 DEF BrokerLogs, Received
  <2> QED
    BY <1>6, <1>7, <2>1, <2>2, ActionTypes
<1> HIDE DEF w, log, a
<1>9. /\ Len(Log(b)') = Len(log) + 1 /\ DOMAIN (Log(b)') = 1..(Len(log) + 1)
      /\ \A i \in 1..(Len(log) + 1) : Log(b)'[i] = Entry(i)
  <2>1. Append(log, Head(w)) \in Seq(LogMessages) /\ Len(Append(log, Head(w))) = Len(log) + 1
    BY <1>4, <1>8
  <2>2. ASSUME NEW i \in 1..(Len(log) + 1)
        PROVE  Append(log, Head(w))[i] = Entry(i)
    <3>1. CASE i = Len(log) + 1
      BY <1>4, <1>8, <3>1
    <3>2. CASE i # Len(log) + 1
      <4>1. i \in 1..Len(log)
        BY <1>7, <3>2
      <4> QED
        BY <1>4, <1>7, <1>8, <4>1
    <3> QED
      BY <3>1, <3>2
  <2> QED
    BY <1>5, <2>1, <2>2
<1>10. /\ Len(wire'[b]) = Len(w) - 1
       /\ \A i \in DOMAIN w : i > 1 =>
             i \in Nat /\ i - 1 \in DOMAIN wire'[b] /\ wire'[b][i - 1] = w[i]
  <2>1. \A i \in DOMAIN w : i = 1 \/ (i - 1 \in DOMAIN Tail(w) /\ Tail(w)[i - 1] = w[i] /\ i \in Nat)
    BY <1>1, <1>2, TailFacts
  <2>2. Len(Tail(w)) = Len(w) - 1
    BY <1>1, <1>2, TailFacts
  <2> QED
    BY <1>5, <2>1, <2>2
<1>11. Left(b)' = Left(b) - 1
  BY <1>1, <1>2, <1>7, <1>9 DEF Left
<1>12. Lined(b)'
  <2>1. Len(Log(b)') <= line_counter'[b] + 1
    BY <1>1, <1>2, <1>7, <1>9
  <2>2. ASSUME NEW i \in 1..(line_counter'[b] + 1 - Len(Log(b)'))
        PROVE  i \in DOMAIN wire'[b] /\ wire'[b][i] = Entry(Len(Log(b)') + i)
    <3>1. i + 1 \in 1..Left(b) /\ i \in Nat /\ i + 1 > 1 /\ (i + 1) - 1 = i
      <4>1. /\ i \in 1..(line_counter[b] + 1 - (Len(log) + 1))
            /\ line_counter[b] \in Nat /\ Len(log) \in Nat
            /\ Left(b) = line_counter[b] + 1 - Len(log)
        BY <1>1, <1>2, <1>7, <1>9
      <4> QED
        BY <4>1
    <3>2. i + 1 \in DOMAIN w /\ w[i + 1] = Entry(Len(log) + (i + 1))
      BY <1>7, <3>1
    <3>3. i \in DOMAIN wire'[b] /\ wire'[b][i] = w[i + 1]
      BY <1>10, <3>1, <3>2
    <3>4. Len(log) + (i + 1) = Len(Log(b)') + i
      BY <1>7, <1>9, <3>1
    <3> QED
      BY <3>2, <3>3, <3>4
  <2> QED
    BY <1>9, <2>1, <2>2 DEF Lined
<1> QED
  BY <1>6, <1>9, <1>10, <1>11, <1>12 DEF w

\* The end of the log arrives, behind the result.
LEMMA EndArrives ==
  ASSUME Inv, LogInv, NEW b \in Builders, BrokerLogs(b), LastWords(b)
  PROVE  /\ Through(b)' /\ WellFormed(attempt[b])'
         /\ OfLines(logs[attempt[b]], line_counter[b])'
         /\ \E r \in results : r.attempt = attempt[b]
         /\ \A r \in results : r.attempt = attempt[b] => r.output = TailOf(line_counter[b])
<1> DEFINE log == Log(b)
           a == attempt[b]
           n == line_counter[b]
           finish == LogMessage("Finish", 0)
<1>1. /\ wire[b] = <<finish, Ack>> /\ wire' = [wire EXCEPT ![b] = Tail(wire[b])]
      /\ logs' = [logs EXCEPT ![a] = Append(@, Head(wire[b]))] /\ pc[b] = "idle"
      /\ UNCHANGED <<attempt, line_counter, pc, results>>
  BY DEF BrokerLogs, LastWords, Received, workerVars
<1>2. wire'[b] = <<Ack>> /\ Head(wire[b]) = finish
  <2>1. wire[b] # <<>> /\ wire'[b] = Tail(wire[b])
    BY <1>1 DEF Inv, TypeOK
  <2> QED
    BY <1>1, <2>1
<1>3. n \in Nat /\ logs \in Seq(Seq(LogMessages)) /\ a \in DOMAIN logs
  <2>1. wire[b] # <<>>
    BY <1>1
  <2>2. a \in DOMAIN attempts
    BY <1>1, <2>1, WireShorter
  <2>3. Len(logs) = Len(attempts) /\ attempts \in Seq(Jobs) /\ logs \in Seq(Seq(LogMessages))
    BY DEF LogInv, AttemptInv, Inv, TypeOK
  <2>4. n \in Nat
    BY Constants DEF Inv, TypeOK
  <2> QED
    BY <2>2, <2>3, <2>4
<1>4. log \in Seq(LogMessages) /\ Len(log) = n + 1 /\ \A i \in 1..(n + 1) : log[i] = Entry(i)
  BY <1>3 DEF Log, LastWords, Lined
<1>5. logs'[a] = Append(log, finish)
  BY <1>1, <1>2, <1>3 DEF Log
<1>6. PICK r \in results : r.attempt = a /\ r.output = TailOf(n)
  BY DEF LastWords, Answers
<1>7. \A s \in results : s.attempt = a => s.output = TailOf(n)
  BY <1>6 DEF LogInv, ResultInv
<1> HIDE DEF log, finish
<1>8. /\ Len(logs'[a]) = n + 2 /\ DOMAIN logs'[a] = 1..(n + 2)
      /\ logs'[a][n + 2] = finish
      /\ \A i \in 1..(n + 1) : logs'[a][i] = Entry(i)
  <2>1. finish \in LogMessages
    BY Constants DEF finish, LogMessage, LogMessages
  <2>2. Append(log, finish) \in Seq(LogMessages) /\ Len(Append(log, finish)) = n + 2
    BY <1>3, <1>4, <2>1
  <2>3. Append(log, finish)[n + 2] = finish
    BY <1>3, <1>4, <2>1
  <2>4. \A i \in 1..(n + 1) : Append(log, finish)[i] = log[i]
    BY <1>3, <1>4, <2>1
  <2> QED
    BY <1>4, <1>5, <2>2, <2>3, <2>4
<1>9. OfLines(logs[a], n)'
  <2>1. Len(logs'[a]) \in {n + 1, n + 2} /\ (Len(logs'[a]) = n + 2 => logs'[a][n + 2] = LogMessage("Finish", 0))
    BY <1>8 DEF finish
  <2> QED
    BY <1>1, <1>8, <2>1 DEF OfLines
<1>10. WellFormed(a)'
  <2> SUFFICES ASSUME NEW i \in 1..(n + 2)
               PROVE  /\ logs'[a][i].type = "Start" <=> i = 1
                      /\ logs'[a][i].type = "Msg" => logs'[a][i].line_number = i - 1
                      /\ logs'[a][i].type = "Finish" =>
                           i = Len(logs'[a]) /\ \E s \in results : s.attempt = a
    BY <1>1, <1>8 DEF WellFormed
  <2>1. CASE i = n + 2
    <3>1. logs'[a][i] = finish /\ i # 1 /\ i = Len(logs'[a])
      BY <1>3, <1>8, <2>1
    <3> QED
      BY <1>6, <3>1 DEF finish, LogMessage
  <2>2. CASE i # n + 2
    <3>1. i \in 1..(n + 1)
      BY <1>3, <2>2
    <3>2. logs'[a][i] = Entry(i)
      BY <1>8, <3>1
    <3> QED
      BY <3>2 DEF Entry, LogMessage
  <2> QED
    BY <2>1, <2>2
<1>11. Through(b)'
  BY <1>1, <1>2 DEF Through
<1> QED
  BY <1>1, <1>6, <1>7, <1>9, <1>10, <1>11

LEMMA EntriesWellFormed ==
  ASSUME NEW b \in Builders, \A i \in DOMAIN Log(b)' : Log(b)'[i] = Entry(i),
         attempt' = attempt
  PROVE  WellFormed(attempt[b])'
<1> DEFINE log == logs'[attempt'[b]]
<1>1. \A i \in DOMAIN log : log[i] = Entry(i)
  BY DEF Log
<1>2. \A i : /\ Entry(i).type = "Start" <=> i = 1
             /\ Entry(i).type = "Msg" => Entry(i).line_number = i - 1
             /\ Entry(i).type # "Finish"
  BY DEF Entry, LogMessage
<1> HIDE DEF log
<1>3. \A i \in DOMAIN log : /\ log[i].type = "Start" <=> i = 1
                            /\ log[i].type = "Msg" => log[i].line_number = i - 1
                            /\ log[i].type # "Finish"
  BY <1>1, <1>2
<1> QED
  BY <1>3 DEF WellFormed, log

LEMMA LogArrivesLog ==
  ASSUME Inv, LogInv, NEW b \in Builders, BrokerLogs(b)
  PROVE  LogInv'
<1>1. /\ wire[b] # <<>> /\ wire' = [wire EXCEPT ![b] = Tail(@)] /\ Head(wire[b]).to = "logs"
      /\ UNCHANGED <<unacked, results, pc, attempt, line_counter, snippet_log>>
  BY DEF BrokerLogs, Received, workerVars
<1>2. /\ unacked[b] # NoJob /\ Head(wire[b]) = wire[b][1] /\ wire[b][1].to = "logs"
      /\ wire[b] \in Seq(Actions) /\ Len(wire[b]) \in Nat \ {0}
      /\ line_counter[b] \in 0..MaxLines /\ Len(Log(b)) \in Nat /\ line_counter[b] \in Nat
  <2>1. unacked[b] \in Jobs /\ attempt[b] \in DOMAIN attempts /\ Head(wire[b]) = wire[b][1]
    BY <1>1, WireShorter
  <2>2. wire[b] \in Seq(Actions) /\ line_counter[b] \in 0..MaxLines /\ line_counter[b] \in Nat
    BY Constants DEF Inv, TypeOK
  <2>3. attempt[b] \in DOMAIN logs /\ logs \in Seq(Seq(LogMessages))
    BY <2>1 DEF LogInv, AttemptInv, Inv, TypeOK
  <2>4. Log(b) \in Seq(LogMessages)
    BY <2>3 DEF Log
  <2> QED
    BY <1>1, <2>1, <2>2, <2>4, JobAssumption
<1>3. Stage(b)
  BY <1>2 DEF LogInv, StageInv, IsBusy
<1>4. CASE Talking(b)
  <2>1. Lined(b) /\ Left(b) > 0 /\ Len(wire[b]) = Left(b)
    BY <1>2, <1>4 DEF Talking
  <2>2. Talking(b)'
    <3>1. Lined(b)' /\ Len(wire'[b]) = Left(b)'
      BY <2>1, LineArrives
    <3>2. Answers(attempt[b])' = {}
      BY <1>1, <1>4 DEF Talking, Answers
    <3> QED
      BY <1>1, <1>4, <3>1, <3>2 DEF Talking
  <2>3. WellFormed(attempt[b])'
    BY <1>1, <2>1, LineArrives, EntriesWellFormed
  <2>4. \A r \in results : r.attempt # attempt[b]
    BY <1>4 DEF Talking, Answers
  <2> QED
    BY <2>2, <2>3, <2>4, BrokerLogsFrame DEF Stage
<1>5. CASE Finishing(b)
  <2>1. Lined(b) /\ Left(b) \in Nat /\ Left(b) > 0
    <3>1. Lined(b) /\ Left(b) \in Nat
      <4>1. /\ Lined(b) /\ Len(Log(b)) <= line_counter[b] + 1
            /\ Left(b) = line_counter[b] + 1 - Len(Log(b))
        BY <1>5 DEF Finishing, Lined, Left
      <4> QED
        BY <1>2, <4>1
    <3>2. Left(b) # 0
      <4> SUFFICES ASSUME Left(b) = 0 PROVE FALSE
        OBVIOUS
      <4>1. wire[b][1].to = "build-results"
        BY <1>5 DEF Finishing
      <4> QED
        BY <1>2, <4>1
    <3> QED
      BY <3>1, <3>2
  <2>2. Finishing(b)'
    <3> DEFINE k == Left(b)
               result == wire[b][k + 1]
               finish == LogMessage("Finish", 0)
    <3>1. /\ Len(wire[b]) = k + 3 /\ result.to = "build-results"
          /\ result.output = TailOf(line_counter[b])
          /\ wire[b][k + 2] = finish /\ wire[b][k + 3] = Ack
      BY <1>5 DEF Finishing
    <3>2. /\ Lined(b)' /\ Left(b)' = k - 1 /\ Len(wire'[b]) = Len(wire[b]) - 1
          /\ \A i \in DOMAIN wire[b] : i > 1 => wire'[b][i - 1] = wire[b][i]
      BY <2>1, LineArrives
    <3>3. k \in Nat /\ k > 0 /\ DOMAIN wire[b] = 1..(k + 3)
      BY <1>2, <2>1, <3>1
    <3>4. Answers(attempt[b])' = {}
      BY <1>1, <1>5 DEF Finishing, Answers
    <3> HIDE DEF k, result, finish
    <3>5. /\ wire'[b][(k - 1) + 1] = wire[b][k + 1] /\ wire'[b][(k - 1) + 2] = wire[b][k + 2]
          /\ wire'[b][(k - 1) + 3] = wire[b][k + 3]
      <4>1. /\ (k + 1) - 1 = (k - 1) + 1 /\ (k + 2) - 1 = (k - 1) + 2 /\ (k + 3) - 1 = (k - 1) + 3
            /\ k + 1 > 1 /\ k + 2 > 1 /\ k + 3 > 1
            /\ k + 1 \in 1..(k + 3) /\ k + 2 \in 1..(k + 3) /\ k + 3 \in 1..(k + 3)
        BY <3>3
      <4>2. /\ wire'[b][(k + 1) - 1] = wire[b][k + 1] /\ wire'[b][(k + 2) - 1] = wire[b][k + 2]
            /\ wire'[b][(k + 3) - 1] = wire[b][k + 3]
        BY <3>2, <3>3, <4>1
      <4> QED
        BY <4>1, <4>2
    <3>6. Len(wire'[b]) = Left(b)' + 3
      BY <3>1, <3>2, <3>3
    <3>7. /\ wire'[b][Left(b)' + 1] = result /\ wire'[b][Left(b)' + 2] = finish
          /\ wire'[b][Left(b)' + 3] = Ack
      BY <3>1, <3>2, <3>5 DEF result
    <3>8. pc'[b] = "idle" /\ line_counter'[b] = line_counter[b]
      BY <1>1, <1>5 DEF Finishing
    <3> QED
      BY <3>1, <3>2, <3>4, <3>6, <3>7, <3>8 DEF Finishing, finish
  <2>3. WellFormed(attempt[b])'
    BY <1>1, <2>1, LineArrives, EntriesWellFormed
  <2>4. \A r \in results : r.attempt # attempt[b]
    BY <1>5 DEF Finishing, Answers
  <2> QED
    BY <2>2, <2>3, <2>4, BrokerLogsFrame DEF Stage
<1>6. CASE LastWords(b)
  <2>1. Stage(b)' /\ WellFormed(attempt[b])'
    BY <1>6, EndArrives DEF Stage
  <2>2. ASSUME NEW r \in results, r.attempt = attempt[b]
        PROVE  \E n \in 0..MaxLines : OfLines(logs[attempt[b]], n)' /\ r.output = TailOf(n)
    <3>1. r.output = TailOf(line_counter[b])
      BY <1>6, <2>2, EndArrives
    <3>2. OfLines(logs'[attempt[b]], line_counter[b])
      BY <1>1, <1>6, EndArrives
    <3> QED
      BY <1>1, <1>2, <3>1, <3>2
  <2> QED
    BY <2>1, <2>2, BrokerLogsFrame
<1>7. ~Preparing(b) /\ ~GivingUp(b) /\ ~Through(b)
  <2>1. ~Preparing(b)
    BY <1>1 DEF Preparing
  <2>2. ~GivingUp(b)
    BY <1>2 DEF GivingUp
  <2>3. ~Through(b)
    <3> SUFFICES ASSUME wire[b] = <<Ack>> PROVE FALSE
      BY DEF Through
    <3>1. wire[b][1] = Ack
      OBVIOUS
    <3> QED
      BY <1>2, <3>1 DEF Ack
  <2> QED
    BY <2>1, <2>2, <2>3
<1> QED
  BY <1>3, <1>4, <1>5, <1>6, <1>7 DEF Stage

LEMMA ShortTails ==
  ASSUME NEW S, NEW s \in Seq(S)
  PROVE  /\ Len(s) = 2 => Tail(s) = <<s[2]>>
         /\ Len(s) = 3 => Tail(s) = <<s[2], s[3]>>
<1>1. ASSUME Len(s) = 2 PROVE Tail(s) = <<s[2]>>
  <2>1. s[2] \in S /\ Tail(s) \in Seq(S) /\ Len(Tail(s)) = 1 /\ Tail(s)[1] = s[2]
    BY <1>1
  <2> DEFINE t == <<s[2]>>
  <2>2. t \in Seq(S) /\ Len(t) = 1 /\ t[1] = s[2]
    BY <2>1
  <2> HIDE DEF t
  <2>3. \A i \in 1..Len(t) : Tail(s)[i] = t[i]
    BY <2>1, <2>2
  <2>4. Tail(s) = t
    BY <2>1, <2>2, <2>3, SeqEqual
  <2> QED
    BY <2>4 DEF t
<1>2. ASSUME Len(s) = 3 PROVE Tail(s) = <<s[2], s[3]>>
  <2> DEFINE t == <<s[2], s[3]>>
  <2>1. /\ s[2] \in S /\ s[3] \in S /\ Tail(s) \in Seq(S) /\ Len(Tail(s)) = 2
        /\ Tail(s)[1] = s[2] /\ Tail(s)[2] = s[3]
    BY <1>2
  <2>2. t \in Seq(S) /\ Len(t) = 2 /\ t[1] = s[2] /\ t[2] = s[3]
    BY <2>1
  <2> HIDE DEF t
  <2> QED
    <3>1. \A i \in 1..Len(t) : Tail(s)[i] = t[i]
      BY <2>1, <2>2
    <3>2. Tail(s) = t
      BY <2>1, <2>2, <3>1, SeqEqual
    <3> QED
      BY <3>2 DEF t
<1> QED
  BY <1>1, <1>2

\* The result of the attempt of b is all that BrokerResult adds.
LEMMA BrokerResultFrame ==
  ASSUME Inv, LogInv, NEW b \in Builders, NEW r,
         results' = results \cup {r}, r.attempt = attempt[b], r.job = unacked[b],
         unacked[b] # NoJob, wire' = [wire EXCEPT ![b] = Tail(wire[b])],
         UNCHANGED <<unacked, acked, logs, attempts, pc, attempt, line_counter, snippet_log, dead>>,
         Answers(attempt[b]) = {}, Stage(b)',
         \/ Log(b) = <<>> /\ r.output = MergeFailedOutput
         \/ \E n \in 0..MaxLines : OfLines(Log(b), n) /\ r.output = TailOf(n)
  PROVE  LogInv'
<1>1. r.job = attempts[r.attempt] /\ \A s \in results : s.attempt # r.attempt
  BY DEF LogInv, AttemptInv, IsBusy, Answers
<1>2. StageInv'
  <2> SUFFICES ASSUME NEW c \in Builders, unacked[c] # NoJob
               PROVE  Stage(c)'
    BY DEF StageInv, IsBusy
  <2>1. CASE c = b
    BY <2>1
  <2>2. CASE c # b
    <3>1. attempt[c] # attempt[b] /\ Stage(c)
      BY <2>2, Apart DEF LogInv, StageInv, IsBusy
    <3>2. Log(c)' = Log(c)
      BY DEF Log
    <3>3. Answers(attempt[c])' = Answers(attempt[c])
      BY <3>1 DEF Answers
    <3>4. wire'[c] = wire[c]
      BY <2>2 DEF Inv, TypeOK
    <3> QED
      BY <3>1, <3>2, <3>3, <3>4, StageFrame
  <2> QED
    BY <2>1, <2>2
<1>3. ResultInv'
  <2>1. \A s, t \in results' : s.attempt = t.attempt => s = t
    BY <1>1 DEF LogInv, ResultInv
  <2>2. ASSUME NEW s \in results'
        PROVE  /\ s.job = attempts[s.attempt]
               /\ \/ logs[s.attempt] = <<>> /\ s.output = MergeFailedOutput
                  \/ \E n \in 0..MaxLines : OfLines(logs[s.attempt], n) /\ s.output = TailOf(n)
    <3>1. CASE s \in results
      BY <3>1 DEF LogInv, ResultInv
    <3>2. CASE s = r
      BY <1>1, <3>2 DEF Log
    <3> QED
      BY <3>1, <3>2
  <2> QED
    BY <2>1, <2>2 DEF ResultInv, OfLines
<1>4. AttemptInv'
  BY DEF LogInv, AttemptInv, IsBusy
<1>5. LogsWellFormed'
  BY DEF LogInv, LogsWellFormed
<1> QED
  BY <1>2, <1>3, <1>4, <1>5 DEF LogInv

LEMMA ResultArrivesLog ==
  ASSUME Inv, LogInv, NEW b \in Builders, BrokerResult(b)
  PROVE  LogInv'
<1> DEFINE w == wire[b]
           r == [job |-> unacked[b], attempt |-> attempt[b],
                 status |-> Head(w).status, output |-> Head(w).output]
<1>1. /\ w # <<>> /\ wire' = [wire EXCEPT ![b] = Tail(w)] /\ Head(w).to = "build-results"
      /\ results' = results \cup {r}
      /\ UNCHANGED <<unacked, acked, logs, attempts, pc, attempt, line_counter, snippet_log, dead>>
  BY DEF BrokerResult, Received, workerVars
<1>2. /\ unacked[b] # NoJob /\ Head(w) = w[1] /\ w \in Seq(Actions) /\ Len(w) \in Nat \ {0}
      /\ line_counter[b] \in 0..MaxLines /\ line_counter[b] \in Nat /\ wire'[b] = Tail(w)
  <2>1. unacked[b] \in Jobs /\ Head(wire[b]) = wire[b][1] /\ wire'[b] = Tail(w)
    BY <1>1, WireShorter
  <2>2. w \in Seq(Actions) /\ line_counter[b] \in 0..MaxLines /\ line_counter[b] \in Nat
    BY Constants DEF Inv, TypeOK
  <2> QED
    BY <1>1, <2>1, <2>2, JobAssumption
<1>3. Stage(b)
  BY <1>2 DEF LogInv, StageInv, IsBusy
<1>4. Log(b)' = Log(b) /\ Log(b) \in Seq(LogMessages)
  <2>1. attempt[b] \in DOMAIN attempts
    BY <1>1, WireShorter
  <2>2. attempt[b] \in DOMAIN logs /\ logs \in Seq(Seq(LogMessages))
    BY <2>1 DEF LogInv, AttemptInv, Inv, TypeOK
  <2> QED
    BY <1>1, <2>2 DEF Log
<1>5. r.attempt = attempt[b] /\ r.job = unacked[b] /\ r.output = w[1].output
  BY <1>2
<1> HIDE DEF r
<1>6. CASE Finishing(b)
  <2> DEFINE n == line_counter[b]
             finish == LogMessage("Finish", 0)
  <2>1. Left(b) = 0
    <3>1. /\ Lined(b) /\ Len(Log(b)) <= n + 1 /\ Left(b) = n + 1 - Len(Log(b))
          /\ \A i \in 1..Left(b) : w[i] = Entry(Len(Log(b)) + i)
      BY <1>6 DEF Finishing, Lined, Left
    <3>2. Left(b) \in Nat /\ Len(Log(b)) \in Nat
      BY <1>2, <1>4, <3>1
    <3>3. CASE Left(b) > 0
      <4>1. w[1] = Entry(Len(Log(b)) + 1)
        BY <3>1, <3>2, <3>3
      <4> QED
        BY <1>1, <1>2, <4>1 DEF Entry, LogMessage
    <3> QED
      BY <3>2, <3>3
  <2>2. /\ Len(w) = 3 /\ w[1].output = TailOf(n) /\ w[2] = finish /\ w[3] = Ack
    BY <1>6, <2>1 DEF Finishing
  <2>3. wire'[b] = <<finish, Ack>>
    <3> HIDE DEF w, finish
    <3>1. Tail(w) = <<w[2], w[3]>>
      BY <1>2, <2>2, ShortTails
    <3> QED
      BY <1>2, <2>2, <3>1
  <2>4. /\ Len(Log(b)) = n + 1 /\ \A i \in 1..(n + 1) : Log(b)[i] = Entry(i)
        /\ Lined(b)
    <3>1. Lined(b) /\ Left(b) = n + 1 - Len(Log(b)) /\ Len(Log(b)) \in Nat
      BY <1>4, <1>6 DEF Finishing, Left
    <3>2. Len(Log(b)) = n + 1 /\ DOMAIN Log(b) = 1..(n + 1)
      BY <1>2, <1>4, <2>1, <3>1
    <3> QED
      BY <3>1, <3>2 DEF Lined
  <2>5. OfLines(Log(b), n)
    BY <1>2, <2>4 DEF OfLines
  <2>6. LastWords(b)'
    <3>1. r \in Answers(attempt[b])' /\ r.output = TailOf(n)
      BY <1>1, <1>5, <2>2 DEF Answers
    <3>2. 1..(n + 1 - Len(Log(b))) = {}
      BY <1>2, <2>4
    <3>3. Lined(b)'
      <4>1. /\ Len(Log(b)') <= line_counter'[b] + 1
            /\ \A i \in DOMAIN (Log(b)') : Log(b)'[i] = Entry(i)
            /\ 1..(line_counter'[b] + 1 - Len(Log(b)')) = {}
        BY <1>1, <1>2, <1>4, <2>4, <3>2 DEF Lined
      <4> QED
        BY <4>1 DEF Lined
    <3>4. /\ pc'[b] = "idle" /\ Len(Log(b)') = line_counter'[b] + 1
          /\ line_counter'[b] = n
      BY <1>1, <1>4, <1>6, <2>4 DEF Finishing
    <3> QED
      BY <2>3, <3>1, <3>3, <3>4 DEF LastWords
  <2>7. Answers(attempt[b]) = {}
    BY <1>6 DEF Finishing
  <2> QED
    BY <1>1, <1>2, <1>5, <2>2, <2>5, <2>6, <2>7, BrokerResultFrame DEF Stage
<1>7. CASE GivingUp(b)
  <2>1. Len(w) = 2 /\ w[1].output = MergeFailedOutput /\ w[2] = Ack /\ pc[b] = "idle"
        /\ Log(b) = <<>> /\ Answers(attempt[b]) = {}
    BY <1>7 DEF GivingUp
  <2>2. wire'[b] = <<Ack>>
    <3> HIDE DEF w
    <3>1. Tail(w) = <<w[2]>>
      BY <1>2, <2>1, ShortTails
    <3> QED
      BY <1>2, <2>1, <3>1
  <2>3. Through(b)'
    BY <1>1, <2>1, <2>2 DEF Through
  <2> QED
    BY <1>1, <1>2, <1>5, <2>1, <2>3, BrokerResultFrame DEF Stage
<1>8. ~Preparing(b) /\ ~Talking(b) /\ ~LastWords(b) /\ ~Through(b)
  <2>1. ~Preparing(b)
    BY <1>1 DEF Preparing
  <2>2. ~Talking(b)
    <3> SUFFICES ASSUME Talking(b) PROVE FALSE
      OBVIOUS
    <3>1. /\ Left(b) = Len(w) /\ Left(b) = line_counter[b] + 1 - Len(Log(b))
          /\ \A i \in 1..Left(b) : w[i] = Entry(Len(Log(b)) + i)
      BY DEF Talking, Lined, Left
    <3>2. w[1] = Entry(Len(Log(b)) + 1)
      BY <1>2, <3>1
    <3> QED
      BY <1>1, <1>2, <3>2 DEF Entry, LogMessage
  <2>3. ~LastWords(b)
    <3> SUFFICES ASSUME w = <<LogMessage("Finish", 0), Ack>> PROVE FALSE
      BY DEF LastWords
    <3>1. w[1] = LogMessage("Finish", 0)
      OBVIOUS
    <3> QED
      BY <1>1, <1>2, <3>1 DEF LogMessage
  <2>4. ~Through(b)
    <3> SUFFICES ASSUME w = <<Ack>> PROVE FALSE
      BY DEF Through
    <3>1. w[1] = Ack
      OBVIOUS
    <3> QED
      BY <1>1, <1>2, <3>1 DEF Ack
  <2> QED
    BY <2>1, <2>2, <2>3, <2>4
<1> QED
  BY <1>3, <1>6, <1>7, <1>8 DEF Stage

LEMMA AckArrivesLog ==
  ASSUME Inv, LogInv, NEW b \in Builders, BrokerAck(b)
  PROVE  LogInv'
<1>1. /\ unacked' = [unacked EXCEPT ![b] = NoJob] /\ acked' = acked \cup {unacked[b]}
      /\ wire' = [wire EXCEPT ![b] = Tail(@)]
      /\ UNCHANGED <<logs, results, attempts, pc, attempt, line_counter, snippet_log, dead>>
  BY DEF BrokerAck, workerVars
<1>2. ASSUME NEW c \in Builders, c # b
      PROVE  unacked'[c] = unacked[c] /\ wire'[c] = wire[c]
  BY <1>1, <1>2 DEF Inv, TypeOK
<1>3. unacked'[b] = NoJob
  BY <1>1 DEF Inv, TypeOK
<1>4. StageInv'
  <2> SUFFICES ASSUME NEW c \in Builders, unacked'[c] # NoJob
               PROVE  Stage(c)'
    BY DEF StageInv, IsBusy
  <2>1. c # b /\ Stage(c)
    BY <1>2, <1>3 DEF LogInv, StageInv, IsBusy
  <2>2. Log(c)' = Log(c) /\ Answers(attempt[c])' = Answers(attempt[c])
    BY <1>1 DEF Log, Answers
  <2> QED
    BY <1>1, <1>2, <2>1, <2>2, StageFrame
<1>5. ResultInv' /\ LogsWellFormed'
  BY <1>1 DEF LogInv, ResultInv, OfLines, LogsWellFormed
<1>6. AttemptInv'
  <2>1. \A c \in Builders : unacked'[c] # NoJob =>
          attempt[c] \in DOMAIN attempts /\ attempts[attempt[c]] = unacked'[c]
    BY <1>2, <1>3 DEF LogInv, AttemptInv, IsBusy
  <2>2. ASSUME NEW i \in DOMAIN attempts
        PROVE  \/ i \in dead \/ attempts[i] \in acked'
               \/ \E c \in Builders : unacked'[c] = attempts[i] /\ attempt[c] = i
    <3>1. CASE \E c \in Builders : unacked[c] = attempts[i] /\ attempt[c] = i
      <4>1. PICK c \in Builders : unacked[c] = attempts[i] /\ attempt[c] = i
        BY <3>1
      <4> QED
        BY <1>1, <1>2, <4>1
    <3> QED
      BY <1>1, <3>1 DEF LogInv, AttemptInv
  <2> QED
    BY <1>1, <2>1, <2>2 DEF LogInv, AttemptInv, IsBusy
<1> QED
  BY <1>4, <1>5, <1>6 DEF LogInv

-----------------------------------------------------------------------------
(* The theorems.                                                             *)

LEMMA LogInitially == Init => LogInv
<1> SUFFICES ASSUME Init PROVE LogInv
  OBVIOUS
<1>1. StageInv /\ ResultInv
  BY DEF Init, StageInv, IsBusy, ResultInv
<1>2. DOMAIN attempts = {} /\ DOMAIN logs = {} /\ Len(attempts) = Len(logs)
  BY DEF Init
<1>3. AttemptInv /\ LogsWellFormed
  BY <1>2 DEF Init, AttemptInv, IsBusy, LogsWellFormed
<1> QED
  BY <1>1, <1>3 DEF LogInv

LEMMA LogStep ==
  ASSUME Inv, LogInv, [Next]_vars
  PROVE  LogInv'
<1>1. CASE UNCHANGED vars
  <2>1. UNCHANGED <<ready, unacked, acked, logs, results, attempts, wire, pc, attempt,
                    line_counter, snippet_log, dead>>
    BY <1>1 DEF vars, brokerVars, workerVars
  <2>2. ResultInv' /\ AttemptInv' /\ LogsWellFormed'
    BY <2>1 DEF LogInv, ResultInv, OfLines, AttemptInv, IsBusy, LogsWellFormed
  <2>3. ASSUME NEW c \in Builders, unacked[c] # NoJob
        PROVE  Stage(c)'
    <3>1. Stage(c) /\ Log(c)' = Log(c) /\ Answers(attempt[c])' = Answers(attempt[c])
      BY <2>1, <2>3 DEF LogInv, StageInv, IsBusy, Log, Answers
    <3> QED
      BY <2>1, <3>1, StageFrame
  <2> QED
    BY <2>1, <2>2, <2>3 DEF LogInv, StageInv, IsBusy
<1>2. CASE Next
  <2>1. PICK b \in Builders : \/ \E j \in Jobs : Deliver(b, j)
                             \/ BrokerStep(b) \/ Crash(b) \/ WorkerStep(b)
    BY <1>2 DEF Next
  <2> QED
    BY <2>1, DeliverLog, LogArrivesLog, ResultArrivesLog, AckArrivesLog, CrashLog, WorkerLog
       DEF BrokerStep
<1> QED
  BY <1>1, <1>2

\* A result is of the lines its attempt has published, or of a failed merge.
LEMMA TailShown ==
  ASSUME Inv, LogInv
  PROVE  ResultsShowTheTail
<1> SUFFICES ASSUME NEW r \in results
             PROVE  LET n == Cardinality(Lines(r.attempt))
                        k == IF n < SNIPPET THEN n ELSE SNIPPET
                    IN  \/ r.output = MergeFailedOutput /\ logs[r.attempt] = <<>>
                        \/ /\ r.output # MergeFailedOutput /\ logs[r.attempt] # <<>>
                           /\ r.output = [i \in 1..k |-> n - k + i]
  BY DEF ResultsShowTheTail
<1>1. CASE logs[r.attempt] = <<>> /\ r.output = MergeFailedOutput
  BY <1>1
<1>2. CASE \E n \in 0..MaxLines : OfLines(logs[r.attempt], n) /\ r.output = TailOf(n)
  <2> DEFINE log == logs[r.attempt]
  <2>1. PICK n \in 0..MaxLines : OfLines(log, n) /\ r.output = TailOf(n)
    BY <1>2
  <2>2. n \in Nat /\ r.output # MergeFailedOutput
    BY <2>1, Constants, TailOfFacts
  <2>3. log \in Seq(LogMessages)
    <3>1. r.attempt \in DOMAIN logs /\ logs \in Seq(Seq(LogMessages))
      BY DEF Inv, TypeOK, LogInv, AttemptInv
    <3> QED
      BY <3>1
  <2>4. Lines(r.attempt) = 2..(n + 1)
    <3>1. Lines(r.attempt) = {i \in DOMAIN log : log[i].type = "Msg"}
      BY DEF Lines
    <3> HIDE DEF log
    <3>2. /\ Len(log) \in {n + 1, n + 2} /\ DOMAIN log = 1..Len(log)
          /\ \A i \in 1..(n + 1) : log[i] = Entry(i)
          /\ Len(log) = n + 2 => log[n + 2] = LogMessage("Finish", 0)
      BY <2>1, <2>3 DEF OfLines
    <3>3. /\ \A i \in 1..(n + 1) : log[i].type = "Msg" <=> i # 1
          /\ Len(log) = n + 2 => log[n + 2].type # "Msg"
      <4>1. /\ \A i : Entry(i).type = "Msg" <=> i # 1
            /\ LogMessage("Finish", 0).type # "Msg"
        BY DEF Entry, LogMessage
      <4> QED
        BY <3>2, <4>1
    <3>4. ASSUME NEW i \in DOMAIN log
          PROVE  log[i].type = "Msg" <=> i \in 2..(n + 1)
      <4>1. i \in 1..Len(log) /\ (Len(log) = n + 1 \/ Len(log) = n + 2)
        BY <3>2
      <4>2. i \in 1..(n + 1) \/ (i = n + 2 /\ Len(log) = n + 2)
        BY <2>2, <4>1
      <4> QED
        BY <2>2, <3>3, <4>2
    <3>5. ASSUME NEW i \in 2..(n + 1)
          PROVE  i \in DOMAIN log
      <4>1. Len(log) = n + 1 \/ Len(log) = n + 2
        BY <3>2
      <4>2. i \in 1..Len(log)
        BY <2>2, <4>1
      <4> QED
        BY <3>2, <4>2
    <3> QED
      BY <3>1, <3>4, <3>5
  <2>5. Cardinality(Lines(r.attempt)) = n
    BY <2>2, <2>4, FS_Interval
  <2>6. log # <<>>
    <3> HIDE DEF log
    <3> QED
      BY <2>1, <2>2, <2>3 DEF OfLines
  <2> QED
    BY <2>1, <2>2, <2>5, <2>6 DEF TailOf
<1> QED
  BY <1>1, <1>2 DEF LogInv, ResultInv

LEMMA SecondAnswerExplained ==
  ASSUME Inv, LogInv
  PROVE  SecondAnswerOnlyAfterCrash
<1> SUFFICES ASSUME NEW r \in results, NEW s \in results, r # s, r.job = s.job
             PROVE  r.attempt # s.attempt /\ (r.attempt < s.attempt => r.attempt \in dead)
  BY DEF SecondAnswerOnlyAfterCrash
<1>1. r.attempt # s.attempt /\ attempts[r.attempt] = attempts[s.attempt]
  BY DEF LogInv, ResultInv
<1>2. r.attempt \in DOMAIN attempts /\ s.attempt \in DOMAIN attempts
  BY DEF Inv, TypeOK
<1> QED
  BY <1>1, <1>2 DEF LogInv, AttemptInv

LEMMA LogInvariant == Spec => [](Inv /\ LogInv)
<1>1. Init => Inv /\ LogInv
  BY Initially, LogInitially
<1>2. Inv /\ LogInv /\ [Next]_vars => Inv' /\ LogInv'
  BY Step, LogStep
<1> QED
  BY <1>1, <1>2, PTL DEF Spec

\* The snippet makes room before a line comes in.
Short == \A b \in Builders : Len(snippet_log[b]) <= SNIPPET

LEMMA ShortStep ==
  ASSUME Inv, Short, [Next]_vars
  PROVE  Short'
<1> SUFFICES ASSUME NEW c \in Builders
             PROVE  Len(snippet_log'[c]) <= SNIPPET
  BY DEF Short
<1>1. /\ snippet_log \in [Builders -> Outputs] /\ SNIPPET \in Nat \ {0}
      /\ Len(snippet_log[c]) <= SNIPPET
  BY BoundAssumption DEF Inv, TypeOK, Short
<1>2. CASE snippet_log' = snippet_log
  BY <1>1, <1>2
<1>3. ASSUME NEW b \in Builders, NEW j \in Jobs, Deliver(b, j)
      PROVE  Len(snippet_log'[c]) <= SNIPPET
  <2>1. snippet_log'[c] = <<>> \/ snippet_log'[c] = snippet_log[c]
    BY <1>1, <1>3 DEF Deliver
  <2> QED
    BY <1>1, <2>1
<1>4. ASSUME NEW b \in Builders, LogLine(b)
      PROVE  Len(snippet_log'[c]) <= SNIPPET
  <2> DEFINE s == snippet_log[c]
             n == line_counter[c] + 1
             kept == IF Len(s) >= SNIPPET THEN Tail(s) ELSE s
  <2>1. snippet_log'[c] = s \/ (snippet_log'[c] = Append(kept, n) /\ n \in 0..MaxLines)
    <3>1. line_counter[c] \in 0..MaxLines /\ MaxLines \in Nat
      BY Constants DEF Inv, TypeOK
    <3> QED
      BY <1>1, <1>4, <3>1 DEF LogLine
  <2>2. s \in Seq(0..MaxLines)
    BY <1>1 DEF Outputs
  <2> HIDE DEF s, n
  <2>3. kept \in Seq(0..MaxLines) /\ Len(kept) < SNIPPET
    <3>1. CASE Len(s) >= SNIPPET
      <4>1. s # <<>> /\ Len(s) <= SNIPPET
        BY <1>1, <2>2, <3>1 DEF s
      <4>2. Tail(s) \in Seq(0..MaxLines) /\ Len(Tail(s)) = Len(s) - 1
        BY <2>2, <4>1, TailFacts
      <4> QED
        BY <1>1, <2>2, <3>1, <4>1, <4>2
    <3>2. CASE ~(Len(s) >= SNIPPET)
      BY <1>1, <2>2, <3>2
    <3> QED
      BY <3>1, <3>2
  <2> HIDE DEF kept
  <2>4. n \in 0..MaxLines => Len(Append(kept, n)) = Len(kept) + 1 /\ Len(kept) \in Nat
    BY <2>3
  <2> QED
    BY <1>1, <2>1, <2>3, <2>4 DEF s
<1>5. snippet_log' = snippet_log
        \/ \E b \in Builders : LogLine(b) \/ \E j \in Jobs : Deliver(b, j)
  <2>1. CASE UNCHANGED vars
    BY <2>1 DEF vars, workerVars
  <2>2. ASSUME NEW b \in Builders, BrokerStep(b) \/ Crash(b)
        PROVE  snippet_log' = snippet_log
    BY <2>2 DEF BrokerStep, BrokerLogs, BrokerResult, BrokerAck, Crash, workerVars
  <2>3. ASSUME NEW b \in Builders, WorkerStep(b)
        PROVE  snippet_log' = snippet_log \/ LogLine(b)
    BY <2>3 DEF WorkerStep, NothingToDo, CommitMissing, MergeFailed, LogStarted,
                BuildNotAttempted, BuildSpawned, BuildFinished
  <2> QED
    BY <2>1, <2>2, <2>3 DEF Next
<1> QED
  BY <1>2, <1>3, <1>4, <1>5

LEMMA PlacesCounted ==
  ASSUME Inv, NEW j \in Jobs
  PROVE  Cardinality({b \in Builders : unacked[b] = j})
           + (IF j \in ready THEN 1 ELSE 0) + (IF j \in acked THEN 1 ELSE 0) = 1
<1> DEFINE holders == {b \in Builders : unacked[b] = j}
<1>1. CASE Waiting(j) \/ Settled(j)
  <2>1. holders = {}
    BY <1>1 DEF Waiting, Settled
  <2>2. Cardinality(holders) = 0
    BY <2>1, FS_EmptySet
  <2> QED
    BY <1>1, <2>2 DEF Waiting, Settled
<1>2. CASE Held(j)
  <2>1. PICK b \in Builders : holders = {b}
    BY <1>2 DEF Held
  <2>2. Cardinality(holders) = 1
    BY <2>1, FS_Singleton
  <2> QED
    BY <1>2, <2>2 DEF Held
<1> QED
  BY <1>1, <1>2 DEF Inv, Places

\* Types; no job is lost or held twice, whoever dies; and a result has SNIPPET
\* lines at most (notifyworker.rs, tasks/build.rs).
THEOREM TypeCorrect == Spec => []TypeInv
<1>1. Init => Inv /\ Short
  <2>1. Init => Short
    BY BoundAssumption DEF Init, Short
  <2> QED
    BY <2>1, Initially
<1>2. Inv /\ Short /\ [Next]_vars => Inv' /\ Short'
  BY Step, ShortStep
<1>3. Inv /\ Short => TypeInv
  <2>1. ASSUME Inv PROVE \A j \in Jobs :
          Cardinality({b \in Builders : unacked[b] = j})
            + (IF j \in ready THEN 1 ELSE 0) + (IF j \in acked THEN 1 ELSE 0) = 1
    BY <2>1, PlacesCounted
  <2> QED
    BY <2>1 DEF Inv, Short, TypeInv
<1> QED
  BY <1>1, <1>2, <1>3, PTL DEF Spec

\* Every log is as the collector needs it: one beginning, the lines numbered from
\* 1 without a gap, nothing behind the end (tasks/build.rs).
THEOREM LogsSound == Spec => []LogsWellFormed
<1>1. LogInv => LogsWellFormed
  BY DEF LogInv
<1> QED
  BY <1>1, LogInvariant, PTL

\* Every result shows the last lines of the log of its attempt, as many as the
\* snippet holds, or that the merge failed.
THEOREM AnswersShowTheTail == Spec => []ResultsShowTheTail
<1>1. Inv /\ LogInv => ResultsShowTheTail
  BY TailShown
<1> QED
  BY <1>1, LogInvariant, PTL

\* Of two answers to a job the first is of an attempt whose connection was lost.
THEOREM SecondAnswer == Spec => []SecondAnswerOnlyAfterCrash
<1>1. Inv /\ LogInv => SecondAnswerOnlyAfterCrash
  BY SecondAnswerExplained
<1> QED
  BY <1>1, LogInvariant, PTL
=============================================================================
