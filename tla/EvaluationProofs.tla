-------------------------- MODULE EvaluationProofs --------------------------
(***************************************************************************)
(* What an evaluation leaves on GitHub, for any number of evaluators,        *)
(* checks, systems, jobs, crashes and changes of people: module Evaluation.  *)
(*                                                                          *)
(* The inductive invariant Inv says, of every evaluator that is at work,    *)
(* what it still owes: somebody works on what is pending (PendingInv), the  *)
(* builds of a green head are published, in an answer or will be asked for  *)
(* again (BuildInv), what is asked for was wanted (ReadyInv), and what one  *)
(* evaluator has done shows on GitHub if it is alone (AloneInv).            *)
(***************************************************************************)
EXTENDS Evaluation, FiniteSetTheorems, SequenceTheorems, TLAPS

\* The phases in which the commit status is pending, and those before them.
Reports == {"cloning", "checkout", "stdenvs", "paths", "fetching", "merging", "merge",
            "newStdenvs", "newPaths", "beginning", "merged", "measuring"}
Judging == Reports \cup {"checking", "failed", "meta", "meta failed", "passed"}
Early == {"reading", "starting"}
Phases == Judging \cup Early \cup {"idle", "labelling", "answering"}
States == {"none", Pending, "success", "failure", "error"}
Queues == ToSet(BuildArchs) \cup {"build-results"}

TypeOK ==
    /\ site \in Sites
    /\ issue \in [open : BOOLEAN, wip : BOOLEAN, conflict : BOOLEAN]
    /\ queue \in Nat
    /\ busy \in [Evaluators -> BOOLEAN]
    /\ phase \in [Evaluators -> Phases]
    /\ check \in [Evaluators -> 1..(NChecks + 1)]
    /\ archs \in [Evaluators -> {<<>>, BuildArchs}]
    /\ response \in [Evaluators -> Seq(Queues)]
    /\ status \in [Contexts -> States]
    /\ builds \subseteq Queues
    /\ conflicts \in BOOLEAN
    /\ ready \in [Evaluators -> BOOLEAN]
    /\ dropped \in Nat /\ changes \in Nat /\ crashes \in 0..site.crashes

\* A job is waiting or with one evaluator of the team, which reads its issue
\* once for every delivery.
Busy == {e \in Evaluators : busy[e]}
Readers == {e \in Evaluators : phase[e] = "reading"}
CountInv ==
    /\ \A e \in Evaluators : busy[e] <=> phase[e] # "idle"
    /\ \A e \in Evaluators : phase[e] # "idle" => e \in site.team
    /\ queue + Cardinality(Busy) <= site.jobs
    /\ dropped + queue + Cardinality(Readers) <= site.jobs + crashes

\* Checks and meta data are those of nixpkgs.
PhaseInv ==
    \A e \in Evaluators :
        /\ phase[e] \in {"checking", "failed", "measuring", "meta", "meta failed", "labelling"} => HasMeta
        /\ phase[e] = "checking" => check[e] <= NChecks

\* Somebody works on what is pending, or will.
PendingInv ==
    /\ status[Eval] \in {"none", Pending} /\ dropped = 0 =>
          queue > 0 \/ \E e \in Evaluators : phase[e] \in Judging \cup Early
    /\ status[Eval] = Pending /\ crashes = 0 => \E e \in Evaluators : phase[e] \in Judging
    /\ crashes = 0 => \A c \in Checks : status[c] = Pending =>
          \E e \in Evaluators : \/ phase[e] = "checking" /\ check[e] = c
                                \/ phase[e] = "meta" /\ c = Meta

\* What an evaluator is going to answer with.
AnswerInv ==
    /\ changes = 0 => ~issue.wip
    /\ HasMeta /\ ~Named => builds = {} /\ \A e \in Evaluators : response[e] = <<>>
    /\ \A e \in Evaluators :
          /\ phase[e] \notin {"passed", "answering"} => response[e] = <<>>
          /\ changes = 0 /\ phase[e] \in Judging \cup {"starting"} => archs[e] = BuildArchs
          /\ changes = 0 /\ HasMeta /\ Named /\ phase[e] = "passed" =>
                Queues \subseteq ToSet(response[e])

\* The builds of a green head are published, in an answer, or yet to be asked for.
Owes(e) ==
    \/ phase[e] \in (Judging \ {"passed"}) \cup Early
    \/ phase[e] \in {"passed", "answering"} /\ Queues \subseteq builds \cup ToSet(response[e])
BuildInv ==
    status[Eval] = "success" /\ changes = 0 /\ dropped = 0 /\ HasMeta /\ Named =>
        Queues \subseteq builds \/ queue > 0 \/ \E e \in Evaluators : Owes(e)

\* Builds on systems are of those whose issue was not in progress at some time.
ReadyAt(e) ==
    /\ phase[e] # "idle" /\ ~issue.wip => ready[e]
    /\ phase[e] \in Judging \cup {"starting"} /\ archs[e] # <<>> => ready[e]
    /\ (\E q \in ToSet(response[e]) : q # "build-results") => ready[e]
ReadyInv == \A e \in Evaluators : ReadyAt(e)

\* One evaluator: what it has done shows on GitHub.
Green(n) == \A c \in 1..n : status[c] = "success"
Shown(e) ==
    /\ phase[e] \in Judging => status[Eval] = Pending
    /\ phase[e] = "answering" /\ response[e] # <<>> => status[Eval] = "success"
    /\ HasMeta /\ phase[e] \in {"newStdenvs", "newPaths", "beginning", "merged", "checking"} =>
          Green(check[e] - 1)
    /\ HasMeta /\ phase[e] \in {"measuring", "meta"} => Green(NChecks)
    /\ HasMeta /\ phase[e] = "passed" => Green(Meta)
    /\ phase[e] = "labelling" => conflicts
LabelInv ==
    HasMeta => /\ issue.conflict => conflicts
               /\ conflicts /\ crashes = 0 =>
                    issue.conflict \/ \E e \in Evaluators : phase[e] = "labelling"
AloneInv == Alone => LabelInv /\ \A e \in Evaluators : Shown(e)

Inv == /\ TypeOK /\ CountInv /\ PhaseInv /\ PendingInv
       /\ AnswerInv /\ BuildInv /\ ReadyInv /\ AloneInv

USE EvaluationAssumption DEF Goto, Set, Untouched, workVars, githubVars, HasMeta, Named

-----------------------------------------------------------------------------
(* Contexts and sequences.                                                   *)

LEMMA Contexts0 ==
  /\ Eval \in Contexts /\ Meta \in Contexts /\ Checks \subseteq Contexts
  /\ Meta \in Checks /\ Eval \notin Checks /\ Meta # Eval
  /\ 1..NChecks \subseteq Checks /\ Meta \notin 1..NChecks /\ 1 \in 1..(NChecks + 1)
BY DEF Contexts, Checks, Eval, Meta

LEMMA SequenceFacts ==
  ASSUME NEW S, NEW s \in Seq(S)
  PROVE  /\ \A x \in S : Append(s, x) \in Seq(S) /\ ToSet(Append(s, x)) = ToSet(s) \cup {x}
                         /\ Append(s, x) # <<>>
         /\ s # <<>> => /\ Tail(s) \in Seq(S) /\ Head(s) \in S
                        /\ ToSet(s) = {Head(s)} \cup ToSet(Tail(s))
         /\ s # <<>> <=> ToSet(s) # {}
<1>1. ASSUME NEW x \in S
      PROVE  Append(s, x) \in Seq(S) /\ ToSet(Append(s, x)) = ToSet(s) \cup {x} /\ Append(s, x) # <<>>
  <2>1. /\ Append(s, x) \in Seq(S) /\ DOMAIN Append(s, x) = 1..(Len(s) + 1) /\ DOMAIN s = 1..Len(s)
        /\ \A i \in 1..Len(s) : Append(s, x)[i] = s[i]
        /\ Append(s, x)[Len(s) + 1] = x /\ Len(s) \in Nat
    OBVIOUS
  <2>2. \A i \in 1..(Len(s) + 1) : i = Len(s) + 1 \/ i \in 1..Len(s)
    BY <2>1
  <2>3. 1..Len(s) \subseteq 1..(Len(s) + 1) /\ Len(s) + 1 \in 1..(Len(s) + 1)
    BY <2>1
  <2>4. ToSet(Append(s, x)) = ToSet(s) \cup {x}
    BY <2>1, <2>2, <2>3 DEF ToSet
  <2> QED
    BY <2>1, <2>3, <2>4
<1>2. ASSUME s # <<>>
      PROVE  /\ Tail(s) \in Seq(S) /\ Head(s) \in S
             /\ ToSet(s) = {Head(s)} \cup ToSet(Tail(s))
  <2>1. /\ Tail(s) \in Seq(S) /\ Head(s) = s[1] /\ DOMAIN s = 1..Len(s) /\ Len(s) \in Nat \ {0}
        /\ DOMAIN Tail(s) = 1..(Len(s) - 1) /\ \A i \in 1..(Len(s) - 1) : Tail(s)[i] = s[i + 1]
    BY <1>2
  <2>2. /\ 1 \in 1..Len(s) /\ \A i \in 1..(Len(s) - 1) : i + 1 \in 1..Len(s)
        /\ \A i \in 1..Len(s) : i = 1 \/ (i - 1 \in 1..(Len(s) - 1) /\ Tail(s)[i - 1] = s[i])
    BY <2>1
  <2>3. ToSet(s) = {Head(s)} \cup ToSet(Tail(s))
    <3>1. ASSUME NEW x \in ToSet(s)
          PROVE  x = Head(s) \/ x \in ToSet(Tail(s))
      <4>1. PICK i \in 1..Len(s) : x = s[i]
        BY <2>1 DEF ToSet
      <4> QED
        BY <2>1, <2>2, <4>1 DEF ToSet
    <3>2. ASSUME NEW x \in ToSet(Tail(s))
          PROVE  x \in ToSet(s)
      <4>1. PICK i \in 1..(Len(s) - 1) : x = s[i + 1]
        BY <2>1, <3>2 DEF ToSet
      <4> QED
        BY <2>1, <2>2, <4>1 DEF ToSet
    <3>3. Head(s) \in ToSet(s)
      BY <2>1, <2>2 DEF ToSet
    <3> QED
      BY <3>1, <3>2, <3>3
  <2> QED
    BY <2>1, <2>2, <2>3
<1>3. s # <<>> <=> ToSet(s) # {}
  <2>1. s = <<>> => ToSet(s) = {}
    BY DEF ToSet
  <2> QED
    BY <1>2, <2>1
<1> QED
  BY <1>1, <1>2, <1>3

-----------------------------------------------------------------------------
(* One lemma for each part of the invariant: every action keeps it.          *)

LEMMA ArchQueues ==
  BuildArchs \in Seq(Queues) /\ <<>> \in Seq(Queues) /\ ToSet(BuildArchs) \subseteq Queues
<1>1. \A i \in 1..Len(BuildArchs) : BuildArchs[i] \in Queues
  BY DEF Queues, ToSet
<1> QED
  BY <1>1 DEF Queues

\* What it is to say "pending" again: a stage goes over to the next.
LEMMA Reported ==
  ASSUME Inv, NEW e \in Evaluators, Report(e)
  PROVE  /\ phase[e] \in (Reports \ {"measuring"}) \cup {"starting"}
         /\ phase'[e] \in Reports /\ phase' = [phase EXCEPT ![e] = phase'[e]]
         /\ \A f \in Evaluators : f # e => phase'[f] = phase[f]
         /\ phase'[e] = "measuring" => HasMeta /\ phase[e] = "merged" /\ check[e] > CheckCount
         /\ phase'[e] \in {"newStdenvs", "newPaths", "beginning", "merged"} =>
               phase[e] \in {"newStdenvs", "newPaths", "beginning"}
         /\ status' = [status EXCEPT ![Eval] = Pending]
         /\ UNCHANGED <<site, issue, queue, busy, check, archs, response, builds, conflicts,
                        ready, dropped, changes, crashes>>
<1>1. /\ status' = [status EXCEPT ![Eval] = Pending]
      /\ UNCHANGED <<site, issue, queue, busy, check, archs, response, builds, conflicts,
                     ready, dropped, changes, crashes>>
  BY DEF Report
<1>2. CASE phase[e] \in DOMAIN Onward /\ phase' = [phase EXCEPT ![e] = Onward[phase[e]]]
  <2>1. phase'[e] = Onward[phase[e]] /\ \A f \in Evaluators : f # e => phase'[f] = phase[f]
    BY <1>2 DEF Inv, TypeOK
  <2>2. phase[e] \in {"starting", "cloning", "checkout", "stdenvs", "paths", "fetching", "merging",
                      "newStdenvs", "newPaths", "beginning"}
    BY <1>2 DEF Onward
  <2>3. /\ Onward[phase[e]] \in Reports \ {"measuring"}
        /\ Onward[phase[e]] \in {"newStdenvs", "newPaths", "beginning", "merged"} =>
              phase[e] \in {"newStdenvs", "newPaths", "beginning"}
    BY <2>2 DEF Onward, Reports
  <2> QED
    BY <1>1, <1>2, <2>1, <2>2, <2>3 DEF Reports
<1>3. CASE /\ HasMeta /\ phase[e] = "merged" /\ check[e] > CheckCount
           /\ phase' = [phase EXCEPT ![e] = "measuring"]
  BY <1>1, <1>3 DEF Inv, TypeOK, Reports
<1> QED
  BY <1>2, <1>3 DEF Report

LEMMA TypeStep ==
  ASSUME Inv, NEW e \in Evaluators, Step(e) \/ Crash(e)
  PROVE  TypeOK'
<1>1. CASE TakeJob(e)
  <2>1. queue' \in Nat
    BY <1>1 DEF TakeJob, Inv, TypeOK
  <2> QED
    BY <1>1, <2>1 DEF TakeJob, Inv, TypeOK, Phases, Judging, Reports, Early, States, Pending
<1>2. CASE Skip(e)
  <2>1. dropped' \in Nat
    BY <1>2 DEF Skip, Inv, TypeOK
  <2> QED
    BY <1>2, <2>1 DEF Skip, Inv, TypeOK, Phases, Judging, Reports, Early, States, Pending
<1>3. CASE ReadIssue(e)
  BY <1>3, Contexts0 DEF ReadIssue, Inv, TypeOK, Phases, Judging, Reports, Early, States, Pending
<1>4. CASE Report(e)
  <2>1. phase' = [phase EXCEPT ![e] = phase'[e]] /\ phase'[e] \in Phases
    BY <1>4, Reported DEF Phases, Judging
  <2>2. phase' \in [Evaluators -> Phases]
    BY <2>1 DEF Inv, TypeOK
  <2>3. status' \in [Contexts -> States]
    BY <1>4, Reported DEF Inv, TypeOK, States
  <2> QED
    BY <1>4, <2>2, <2>3, Reported DEF Inv, TypeOK
<1>5. CASE StrategyFails(e)
  BY <1>5, Contexts0 DEF StrategyFails, Inv, TypeOK, Phases, Judging, Reports, Early, States, Pending
<1>6. CASE CommitNotFound(e)
  BY <1>6, Contexts0 DEF CommitNotFound, Inv, TypeOK, Phases, Judging, Reports, Early, States, Pending
<1>7. CASE MergeFails(e)
  BY <1>7, Contexts0 DEF MergeFails, Inv, TypeOK, Phases, Judging, Reports, Early, States, Pending
<1>8. CASE MergeConflict(e)
  BY <1>8, Contexts0 DEF MergeConflict, Inv, TypeOK, Phases, Judging, Reports, Early, States, Pending
<1>9. CASE AfterMerge(e)
  BY <1>9, Contexts0 DEF AfterMerge, Inv, TypeOK, Phases, Judging, Reports, Early, States, Pending
<1>10. CASE StartCheck(e)
  <2>1. check[e] \in Contexts
    BY <1>10 DEF StartCheck, Inv, TypeOK, Contexts, Checks, Meta
  <2> QED
    BY <1>10, <2>1 DEF StartCheck, Inv, TypeOK, Phases, Judging, Reports, Early, States, Pending
<1>11. CASE CheckPasses(e)
  <2>1. check[e] + 1 \in 1..(NChecks + 1) /\ check[e] \in Contexts
    <3>1. check[e] \in 1..(NChecks + 1) /\ check[e] <= NChecks
      BY <1>11 DEF CheckPasses, Inv, TypeOK, PhaseInv
    <3> QED
      BY <3>1 DEF Contexts, Checks, Meta
  <2>2. check' \in [Evaluators -> 1..(NChecks + 1)]
    BY <1>11, <2>1 DEF CheckPasses, Inv, TypeOK
  <2>3. status' \in [Contexts -> States]
    BY <1>11, <2>1 DEF CheckPasses, Inv, TypeOK, States
  <2> QED
    BY <1>11, <2>2, <2>3 DEF CheckPasses, Inv, TypeOK, Phases, Judging, Reports, Early, States, Pending
<1>12. CASE CheckFails(e)
  <2>1. check[e] \in Contexts
    BY <1>12 DEF CheckFails, Inv, TypeOK, PhaseInv, Contexts, Checks, Meta
  <2> QED
    BY <1>12, <2>1 DEF CheckFails, Inv, TypeOK, Phases, Judging, Reports, Early, States, Pending
<1>13. CASE CompleteWithErrors(e)
  BY <1>13, Contexts0 DEF CompleteWithErrors, Inv, TypeOK, Phases, Judging, Reports, Early, States, Pending
<1>14. CASE StartMeta(e)
  BY <1>14, Contexts0 DEF StartMeta, Inv, TypeOK, Phases, Judging, Reports, Early, States, Pending
<1>15. CASE MetaFails(e)
  BY <1>15, Contexts0 DEF MetaFails, Inv, TypeOK, Phases, Judging, Reports, Early, States, Pending
<1>16. CASE MetaPasses(e)
  <2>1. archs[e] \in Seq(Queues) /\ "build-results" \in Queues
    BY ArchQueues DEF Inv, TypeOK, Queues
  <2>2. response' \in [Evaluators -> Seq(Queues)]
    <3>1. Append(archs[e], "build-results") \in Seq(Queues)
      BY <2>1, SequenceFacts
    <3> QED
      BY <1>16, <3>1 DEF MetaPasses, Inv, TypeOK
  <2> QED
    BY <1>16, <2>2, Contexts0 DEF MetaPasses, Inv, TypeOK, Phases, Judging, Reports, Early, States, Pending
<1>17. CASE GenericPasses(e)
  BY <1>17, Contexts0 DEF GenericPasses, Inv, TypeOK, Phases, Judging, Reports, Early, States, Pending
<1>18. CASE Succeed(e)
  BY <1>18, Contexts0 DEF Succeed, Inv, TypeOK, Phases, Judging, Reports, Early, States, Pending
<1>19. CASE Publish(e)
  <2>1. Head(response[e]) \in Queues /\ Tail(response[e]) \in Seq(Queues)
    BY <1>19, SequenceFacts DEF Publish, Inv, TypeOK
  <2>2. builds' \subseteq Queues /\ response' \in [Evaluators -> Seq(Queues)]
    BY <1>19, <2>1 DEF Publish, Inv, TypeOK
  <2> QED
    BY <1>19, <2>2 DEF Publish, Inv, TypeOK, Phases, Judging, Reports, Early, States, Pending
<1>20. CASE AckJob(e)
  <2>1. phase' \in [Evaluators -> Phases] /\ busy' \in [Evaluators -> BOOLEAN]
    BY <1>20 DEF AckJob, Inv, TypeOK, Phases
  <2> QED
    BY <1>20, <2>1 DEF AckJob, Inv, TypeOK, Phases, Judging, Reports, Early, States, Pending
<1>21. CASE Crash(e)
  <2>1. queue' \in Nat /\ crashes' \in 0..site.crashes /\ response' \in [Evaluators -> Seq(Queues)]
    BY <1>21 DEF Crash, Inv, TypeOK
  <2> QED
    BY <1>21, <2>1 DEF Crash, Inv, TypeOK, Phases, Judging, Reports, Early, States, Pending
<1> QED
  BY <1>1, <1>2, <1>3, <1>4, <1>5, <1>6, <1>7, <1>8, <1>9, <1>10, <1>11, <1>12, <1>13, <1>14, <1>15, <1>16, <1>17, <1>18, <1>19, <1>20, <1>21 DEF Step

LEMMA PhaseStep ==
  ASSUME Inv, NEW e \in Evaluators, Step(e) \/ Crash(e)
  PROVE  PhaseInv'
<1>1. CASE TakeJob(e)
  BY <1>1 DEF TakeJob, Inv, TypeOK, PhaseInv, CheckCount
<1>2. CASE Skip(e)
  BY <1>2 DEF Skip, Inv, TypeOK, PhaseInv, CheckCount
<1>3. CASE ReadIssue(e)
  BY <1>3 DEF ReadIssue, Inv, TypeOK, PhaseInv, CheckCount
<1>4. CASE Report(e)
  <2>1. \A f \in Evaluators : f # e => phase'[f] = phase[f]
    BY <1>4, Reported
  <2>2. phase'[e] \in Reports /\ (phase'[e] = "measuring" => HasMeta)
    BY <1>4, Reported
  <2>3. UNCHANGED <<site, check>>
    BY <1>4, Reported
  <2> QED
    BY <2>1, <2>2, <2>3 DEF Inv, PhaseInv, Reports
<1>5. CASE StrategyFails(e)
  BY <1>5 DEF StrategyFails, Inv, TypeOK, PhaseInv, CheckCount
<1>6. CASE CommitNotFound(e)
  BY <1>6 DEF CommitNotFound, Inv, TypeOK, PhaseInv, CheckCount
<1>7. CASE MergeFails(e)
  BY <1>7 DEF MergeFails, Inv, TypeOK, PhaseInv, CheckCount
<1>8. CASE MergeConflict(e)
  BY <1>8 DEF MergeConflict, Inv, TypeOK, PhaseInv, CheckCount
<1>9. CASE AfterMerge(e)
  BY <1>9 DEF AfterMerge, Inv, TypeOK, PhaseInv, CheckCount
<1>10. CASE StartCheck(e)
  <2>1. HasMeta /\ check[e] <= NChecks
    BY <1>10 DEF StartCheck, CheckCount, Inv, TypeOK
  <2> QED
    BY <1>10, <2>1 DEF StartCheck, Inv, TypeOK, PhaseInv
<1>11. CASE CheckPasses(e)
  BY <1>11 DEF CheckPasses, Inv, TypeOK, PhaseInv, CheckCount
<1>12. CASE CheckFails(e)
  BY <1>12 DEF CheckFails, Inv, TypeOK, PhaseInv, CheckCount
<1>13. CASE CompleteWithErrors(e)
  BY <1>13 DEF CompleteWithErrors, Inv, TypeOK, PhaseInv, CheckCount
<1>14. CASE StartMeta(e)
  BY <1>14 DEF StartMeta, Inv, TypeOK, PhaseInv, CheckCount
<1>15. CASE MetaFails(e)
  BY <1>15 DEF MetaFails, Inv, TypeOK, PhaseInv, CheckCount
<1>16. CASE MetaPasses(e)
  BY <1>16 DEF MetaPasses, Inv, TypeOK, PhaseInv, CheckCount
<1>17. CASE GenericPasses(e)
  BY <1>17 DEF GenericPasses, Inv, TypeOK, PhaseInv, CheckCount
<1>18. CASE Succeed(e)
  BY <1>18 DEF Succeed, Inv, TypeOK, PhaseInv, CheckCount
<1>19. CASE Publish(e)
  BY <1>19 DEF Publish, Inv, TypeOK, PhaseInv, CheckCount
<1>20. CASE AckJob(e)
  BY <1>20 DEF AckJob, Inv, TypeOK, PhaseInv, CheckCount
<1>21. CASE Crash(e)
  BY <1>21 DEF Crash, Inv, TypeOK, PhaseInv, CheckCount
<1> QED
  BY <1>1, <1>2, <1>3, <1>4, <1>5, <1>6, <1>7, <1>8, <1>9, <1>10, <1>11, <1>12, <1>13, <1>14, <1>15, <1>16, <1>17, <1>18, <1>19, <1>20, <1>21 DEF Step

\* A verdict leaves nothing of its evaluator pending.
LEMMA VerdictGiven ==
  ASSUME Inv, NEW e \in Evaluators, UNCHANGED <<dropped, queue, crashes, check>>,
         NEW p, phase' = [phase EXCEPT ![e] = p], phase[e] \notin {"checking", "meta"},
         NEW state \in {"success", "failure", "error"}, status' = [status EXCEPT ![Eval] = state]
  PROVE  PendingInv'
<1>1. status'[Eval] = state /\ \A c \in Checks : status'[c] = status[c]
  BY Contexts0 DEF Inv, TypeOK
<1>2. \A f \in Evaluators : phase[f] \in {"checking", "meta"} => phase'[f] = phase[f] /\ check'[f] = check[f]
  BY DEF Inv, TypeOK
<1>3. \A c \in Checks : crashes = 0 /\ status[c] = Pending =>
        \E f \in Evaluators : \/ phase'[f] = "checking" /\ check'[f] = c
                              \/ phase'[f] = "meta" /\ c = Meta
  BY <1>2 DEF Inv, PendingInv
<1> QED
  BY <1>1, <1>3 DEF PendingInv, Pending

\* The steps that set no status.
LEMMA PendingSame ==
  ASSUME Inv, status' = status, dropped' = dropped, queue' = queue, crashes' = crashes,
         \A f \in Evaluators : /\ phase[f] \in Judging \cup Early => phase'[f] \in Judging \cup Early
                               /\ phase[f] \in Judging => phase'[f] \in Judging
                               /\ phase[f] \in {"checking", "meta"} =>
                                     phase'[f] = phase[f] /\ check'[f] = check[f]
  PROVE  PendingInv'
<1>1. status'[Eval] \in {"none", Pending} /\ dropped' = 0 =>
          queue' > 0 \/ \E f \in Evaluators : phase'[f] \in Judging \cup Early
  BY DEF Inv, PendingInv
<1>2. status'[Eval] = Pending /\ crashes' = 0 => \E f \in Evaluators : phase'[f] \in Judging
  BY DEF Inv, PendingInv
<1>3. ASSUME crashes' = 0, NEW c \in Checks, status'[c] = Pending
      PROVE  \E f \in Evaluators : \/ phase'[f] = "checking" /\ check'[f] = c
                                   \/ phase'[f] = "meta" /\ c = Meta
  <2>1. PICK f \in Evaluators : \/ phase[f] = "checking" /\ check[f] = c
                                \/ phase[f] = "meta" /\ c = Meta
    BY <1>3 DEF Inv, PendingInv
  <2> QED
    BY <2>1
<1> QED
  BY <1>1, <1>2, <1>3 DEF PendingInv

LEMMA PendingStep ==
  ASSUME Inv, NEW e \in Evaluators, Step(e) \/ Crash(e)
  PROVE  PendingInv'
<1>1. CASE TakeJob(e)
  BY <1>1, Contexts0 DEF TakeJob, Inv, TypeOK, PendingInv, PhaseInv, Judging, Reports, Early, Pending
<1>2. CASE Skip(e)
  <2>1. dropped' # 0
    BY <1>2 DEF Skip, Inv, TypeOK
  <2> QED
    BY <1>2, <2>1, Contexts0 DEF Skip, Inv, TypeOK, PendingInv, PhaseInv, Judging, Reports, Pending
<1>3. CASE ReadIssue(e)
  <2>1. /\ status' = status /\ dropped' = dropped /\ queue' = queue /\ crashes' = crashes
        /\ \A f \in Evaluators \ {e} : phase'[f] = phase[f] /\ check'[f] = check[f]
    BY <1>3 DEF ReadIssue, Inv, TypeOK
  <2>2. /\ phase[e] \in Judging \cup Early => phase'[e] \in Judging \cup Early
        /\ phase[e] \in Judging => phase'[e] \in Judging
        /\ phase[e] \notin {"checking", "meta"}
    BY <1>3 DEF ReadIssue, Inv, TypeOK, Judging, Reports, Early
  <2> QED
    BY <2>1, <2>2, PendingSame
<1>4. CASE Report(e)
  <2>1. /\ UNCHANGED <<dropped, queue, crashes, check>> /\ phase'[e] \in Reports
        /\ phase[e] \notin {"checking", "meta"} /\ \A f \in Evaluators : f # e => phase'[f] = phase[f]
    BY <1>4, Reported DEF Reports
  <2>2. \A c \in Checks : status'[c] = status[c]
    BY <1>4, Contexts0 DEF Report, Inv, TypeOK
  <2>3. \E f \in Evaluators : phase'[f] \in Judging
    BY <2>1 DEF Judging, Reports
  <2>4. crashes' = 0 => \A c \in Checks : status'[c] = Pending =>
          \E f \in Evaluators : \/ phase'[f] = "checking" /\ check'[f] = c
                                \/ phase'[f] = "meta" /\ c = Meta
    BY <2>1, <2>2 DEF Inv, PendingInv
  <2> QED
    BY <2>3, <2>4 DEF PendingInv
<1>5. CASE StrategyFails(e)
  <2>1. /\ UNCHANGED <<dropped, queue, crashes, check>> /\ phase[e] \notin {"checking", "meta"}
        /\ \E p : phase' = [phase EXCEPT ![e] = p]
        /\ status' = [status EXCEPT ![Eval] = "failure"]
    BY <1>5 DEF StrategyFails
  <2> QED
    BY <2>1, VerdictGiven
<1>6. CASE CommitNotFound(e)
  <2>1. /\ UNCHANGED <<dropped, queue, crashes, check>> /\ phase[e] \notin {"checking", "meta"}
        /\ \E p : phase' = [phase EXCEPT ![e] = p]
        /\ status' = [status EXCEPT ![Eval] = "error"]
    BY <1>6 DEF CommitNotFound
  <2> QED
    BY <2>1, VerdictGiven
<1>7. CASE MergeFails(e)
  <2>1. /\ UNCHANGED <<dropped, queue, crashes, check>> /\ phase[e] \notin {"checking", "meta"}
        /\ \E p : phase' = [phase EXCEPT ![e] = p]
        /\ status' = [status EXCEPT ![Eval] = "failure"]
    BY <1>7 DEF MergeFails
  <2> QED
    BY <2>1, VerdictGiven
<1>8. CASE MergeConflict(e)
  <2>1. /\ status' = status /\ dropped' = dropped /\ queue' = queue /\ crashes' = crashes
        /\ \A f \in Evaluators \ {e} : phase'[f] = phase[f] /\ check'[f] = check[f]
    BY <1>8 DEF MergeConflict, Inv, TypeOK
  <2>2. /\ phase[e] \in Judging \cup Early => phase'[e] \in Judging \cup Early
        /\ phase[e] \in Judging => phase'[e] \in Judging
        /\ phase[e] \notin {"checking", "meta"}
    BY <1>8 DEF MergeConflict, Inv, TypeOK, Judging, Reports, Early
  <2> QED
    BY <2>1, <2>2, PendingSame
<1>9. CASE AfterMerge(e)
  <2>1. /\ status' = status /\ dropped' = dropped /\ queue' = queue /\ crashes' = crashes
        /\ \A f \in Evaluators \ {e} : phase'[f] = phase[f] /\ check'[f] = check[f]
    BY <1>9 DEF AfterMerge, Inv, TypeOK
  <2>2. /\ phase[e] \in Judging \cup Early => phase'[e] \in Judging \cup Early
        /\ phase[e] \in Judging => phase'[e] \in Judging
        /\ phase[e] \notin {"checking", "meta"}
    BY <1>9 DEF AfterMerge, Inv, TypeOK, Judging, Reports, Early
  <2> QED
    BY <2>1, <2>2, PendingSame
<1>10. CASE StartCheck(e)
  <2>1. /\ UNCHANGED <<dropped, queue, crashes>> /\ phase'[e] = "checking"
        /\ phase[e] = "merged" /\ \A f \in Evaluators : f # e => phase'[f] = phase[f] /\ check'[f] = check[f]
    BY <1>10 DEF StartCheck, Inv, TypeOK
  <2>2. /\ check[e] \in Contexts /\ status'[check[e]] = Pending
        /\ \A c \in Contexts : c # check[e] => status'[c] = status[c]
    BY <1>10, Contexts0 DEF StartCheck, Inv, TypeOK, Contexts, Checks, Meta
  <2>3. \E f \in Evaluators : phase'[f] \in Judging
    BY <2>1 DEF Judging, Reports
  <2>4. ASSUME crashes' = 0, NEW c \in Checks, status'[c] = Pending
        PROVE  \E f \in Evaluators : \/ phase'[f] = "checking" /\ check'[f] = c
                                     \/ phase'[f] = "meta" /\ c = Meta
    <3>1. CASE c = check[e]
      BY <1>10, <2>1, <2>2, <2>4, <3>1 DEF StartCheck, Pending
    <3>2. CASE c # check[e]
      BY <2>1, <2>2, <2>4, <3>2, Contexts0 DEF Inv, PendingInv
    <3> QED
      BY <3>1, <3>2
  <2> QED
    BY <2>3, <2>4 DEF PendingInv
<1>11. CASE CheckPasses(e)
  <2>1. /\ UNCHANGED <<dropped, queue, crashes>> /\ phase'[e] = "merged"
        /\ phase[e] = "checking" /\ \A f \in Evaluators : f # e => phase'[f] = phase[f] /\ check'[f] = check[f]
    BY <1>11 DEF CheckPasses, Inv, TypeOK
  <2>2. /\ check[e] \in Contexts /\ status'[check[e]] = "success"
        /\ \A c \in Contexts : c # check[e] => status'[c] = status[c]
    BY <1>11, Contexts0 DEF CheckPasses, Inv, TypeOK, Contexts, Checks, Meta
  <2>3. \E f \in Evaluators : phase'[f] \in Judging
    BY <2>1 DEF Judging, Reports
  <2>4. ASSUME crashes' = 0, NEW c \in Checks, status'[c] = Pending
        PROVE  \E f \in Evaluators : \/ phase'[f] = "checking" /\ check'[f] = c
                                     \/ phase'[f] = "meta" /\ c = Meta
    <3>1. CASE c = check[e]
      BY <1>11, <2>1, <2>2, <2>4, <3>1 DEF CheckPasses, Pending
    <3>2. CASE c # check[e]
      BY <2>1, <2>2, <2>4, <3>2, Contexts0 DEF Inv, PendingInv
    <3> QED
      BY <3>1, <3>2
  <2> QED
    BY <2>3, <2>4 DEF PendingInv
<1>12. CASE CheckFails(e)
  <2>1. /\ UNCHANGED <<dropped, queue, crashes>> /\ phase'[e] = "failed"
        /\ phase[e] = "checking" /\ \A f \in Evaluators : f # e => phase'[f] = phase[f] /\ check'[f] = check[f]
    BY <1>12 DEF CheckFails, Inv, TypeOK
  <2>2. /\ check[e] \in Contexts /\ status'[check[e]] = "failure"
        /\ \A c \in Contexts : c # check[e] => status'[c] = status[c]
    BY <1>12, Contexts0 DEF CheckFails, Inv, TypeOK, Contexts, Checks, Meta
  <2>3. \E f \in Evaluators : phase'[f] \in Judging
    BY <2>1 DEF Judging, Reports
  <2>4. ASSUME crashes' = 0, NEW c \in Checks, status'[c] = Pending
        PROVE  \E f \in Evaluators : \/ phase'[f] = "checking" /\ check'[f] = c
                                     \/ phase'[f] = "meta" /\ c = Meta
    <3>1. CASE c = check[e]
      BY <1>12, <2>1, <2>2, <2>4, <3>1 DEF CheckFails, Pending
    <3>2. CASE c # check[e]
      BY <2>1, <2>2, <2>4, <3>2, Contexts0 DEF Inv, PendingInv
    <3> QED
      BY <3>1, <3>2
  <2> QED
    BY <2>3, <2>4 DEF PendingInv
<1>13. CASE CompleteWithErrors(e)
  <2>1. /\ UNCHANGED <<dropped, queue, crashes, check>> /\ phase[e] \notin {"checking", "meta"}
        /\ \E p : phase' = [phase EXCEPT ![e] = p]
        /\ status' = [status EXCEPT ![Eval] = "failure"]
    BY <1>13 DEF CompleteWithErrors
  <2> QED
    BY <2>1, VerdictGiven
<1>14. CASE StartMeta(e)
  <2>1. /\ UNCHANGED <<dropped, queue, crashes, check>>
        /\ phase[e] = "measuring" /\ phase'[e] = "meta"
        /\ \A f \in Evaluators : f # e => phase'[f] = phase[f]
    BY <1>14 DEF StartMeta, Inv, TypeOK
  <2>2. status'[Meta] = Pending /\ \A c \in Contexts : c # Meta => status'[c] = status[c]
    BY <1>14, Contexts0 DEF StartMeta, Inv, TypeOK
  <2>3. \E f \in Evaluators : phase'[f] \in Judging
    BY <2>1 DEF Judging, Reports
  <2>4. crashes' = 0 => \A c \in Checks : status'[c] = Pending =>
          \E f \in Evaluators : \/ phase'[f] = "checking" /\ check'[f] = c
                                \/ phase'[f] = "meta" /\ c = Meta
    <3>1. ASSUME crashes' = 0, NEW c \in Checks, status'[c] = Pending
          PROVE  \E f \in Evaluators : \/ phase'[f] = "checking" /\ check'[f] = c
                                       \/ phase'[f] = "meta" /\ c = Meta
      <4>1. CASE c = Meta
        BY <2>1, <2>2, <3>1, <4>1 DEF Pending
      <4>2. CASE c # Meta
        <5>1. PICK f \in Evaluators : phase[f] = "checking" /\ check[f] = c
          BY <2>1, <2>2, <3>1, <4>2, Contexts0 DEF Inv, PendingInv
        <5> QED
          BY <2>1, <5>1
      <4> QED
        BY <4>1, <4>2
    <3> QED
      BY <3>1
  <2> QED
    BY <2>3, <2>4 DEF PendingInv
<1>15. CASE MetaFails(e)
  <2>1. /\ UNCHANGED <<dropped, queue, crashes, check>>
        /\ phase[e] = "meta" /\ phase'[e] = "meta failed"
        /\ \A f \in Evaluators : f # e => phase'[f] = phase[f]
    BY <1>15 DEF MetaFails, Inv, TypeOK
  <2>2. status'[Meta] = "failure" /\ \A c \in Contexts : c # Meta => status'[c] = status[c]
    BY <1>15, Contexts0 DEF MetaFails, Inv, TypeOK
  <2>3. \E f \in Evaluators : phase'[f] \in Judging
    BY <2>1 DEF Judging, Reports
  <2>4. crashes' = 0 => \A c \in Checks : status'[c] = Pending =>
          \E f \in Evaluators : \/ phase'[f] = "checking" /\ check'[f] = c
                                \/ phase'[f] = "meta" /\ c = Meta
    <3>1. ASSUME crashes' = 0, NEW c \in Checks, status'[c] = Pending
          PROVE  \E f \in Evaluators : \/ phase'[f] = "checking" /\ check'[f] = c
                                       \/ phase'[f] = "meta" /\ c = Meta
      <4>1. CASE c = Meta
        BY <2>1, <2>2, <3>1, <4>1 DEF Pending
      <4>2. CASE c # Meta
        <5>1. PICK f \in Evaluators : phase[f] = "checking" /\ check[f] = c
          BY <2>1, <2>2, <3>1, <4>2, Contexts0 DEF Inv, PendingInv
        <5> QED
          BY <2>1, <5>1
      <4> QED
        BY <4>1, <4>2
    <3> QED
      BY <3>1
  <2> QED
    BY <2>3, <2>4 DEF PendingInv
<1>16. CASE MetaPasses(e)
  <2>1. /\ UNCHANGED <<dropped, queue, crashes, check>>
        /\ phase[e] = "meta" /\ phase'[e] = "passed"
        /\ \A f \in Evaluators : f # e => phase'[f] = phase[f]
    BY <1>16 DEF MetaPasses, Inv, TypeOK
  <2>2. status'[Meta] = "success" /\ \A c \in Contexts : c # Meta => status'[c] = status[c]
    BY <1>16, Contexts0 DEF MetaPasses, Inv, TypeOK
  <2>3. \E f \in Evaluators : phase'[f] \in Judging
    BY <2>1 DEF Judging, Reports
  <2>4. crashes' = 0 => \A c \in Checks : status'[c] = Pending =>
          \E f \in Evaluators : \/ phase'[f] = "checking" /\ check'[f] = c
                                \/ phase'[f] = "meta" /\ c = Meta
    <3>1. ASSUME crashes' = 0, NEW c \in Checks, status'[c] = Pending
          PROVE  \E f \in Evaluators : \/ phase'[f] = "checking" /\ check'[f] = c
                                       \/ phase'[f] = "meta" /\ c = Meta
      <4>1. CASE c = Meta
        BY <2>1, <2>2, <3>1, <4>1 DEF Pending
      <4>2. CASE c # Meta
        <5>1. PICK f \in Evaluators : phase[f] = "checking" /\ check[f] = c
          BY <2>1, <2>2, <3>1, <4>2, Contexts0 DEF Inv, PendingInv
        <5> QED
          BY <2>1, <5>1
      <4> QED
        BY <4>1, <4>2
    <3> QED
      BY <3>1
  <2> QED
    BY <2>3, <2>4 DEF PendingInv
<1>17. CASE GenericPasses(e)
  <2>1. /\ status' = status /\ dropped' = dropped /\ queue' = queue /\ crashes' = crashes
        /\ \A f \in Evaluators \ {e} : phase'[f] = phase[f] /\ check'[f] = check[f]
    BY <1>17 DEF GenericPasses, Inv, TypeOK
  <2>2. /\ phase[e] \in Judging \cup Early => phase'[e] \in Judging \cup Early
        /\ phase[e] \in Judging => phase'[e] \in Judging
        /\ phase[e] \notin {"checking", "meta"}
    BY <1>17 DEF GenericPasses, Inv, TypeOK, Judging, Reports, Early
  <2> QED
    BY <2>1, <2>2, PendingSame
<1>18. CASE Succeed(e)
  <2>1. /\ UNCHANGED <<dropped, queue, crashes, check>> /\ phase[e] \notin {"checking", "meta"}
        /\ \E p : phase' = [phase EXCEPT ![e] = p]
        /\ status' = [status EXCEPT ![Eval] = "success"]
    BY <1>18 DEF Succeed
  <2> QED
    BY <2>1, VerdictGiven
<1>19. CASE Publish(e)
  <2>1. UNCHANGED <<status, dropped, queue, crashes, phase, check>>
    BY <1>19 DEF Publish
  <2> QED
    BY <2>1 DEF Inv, PendingInv
<1>20. CASE AckJob(e)
  <2>1. /\ status' = status /\ dropped' = dropped /\ queue' = queue /\ crashes' = crashes
        /\ \A f \in Evaluators \ {e} : phase'[f] = phase[f] /\ check'[f] = check[f]
    BY <1>20 DEF AckJob, Inv, TypeOK
  <2>2. /\ phase[e] \in Judging \cup Early => phase'[e] \in Judging \cup Early
        /\ phase[e] \in Judging => phase'[e] \in Judging
        /\ phase[e] \notin {"checking", "meta"}
    BY <1>20 DEF AckJob, Inv, TypeOK, Judging, Reports, Early
  <2> QED
    BY <2>1, <2>2, PendingSame
<1>21. CASE Crash(e)
  <2>1. crashes' # 0 /\ queue' > 0 /\ status' = status
    <3>1. busy[e] /\ queue \in Nat /\ crashes \in Nat
      BY <1>21 DEF Crash, Inv, TypeOK, CountInv
    <3> QED
      BY <1>21, <3>1 DEF Crash
  <2> QED
    BY <2>1 DEF PendingInv
<1> QED
  BY <1>1, <1>2, <1>3, <1>4, <1>5, <1>6, <1>7, <1>8, <1>9, <1>10, <1>11, <1>12, <1>13, <1>14, <1>15, <1>16, <1>17, <1>18, <1>19, <1>20, <1>21 DEF Step

\* Only what e was told about the issue is at stake.
LEMMA ReadyFrame ==
  ASSUME Inv, NEW e \in Evaluators, issue'.wip = issue.wip, ReadyAt(e)',
         \A f \in Evaluators \ {e} : /\ phase'[f] = phase[f] /\ archs'[f] = archs[f]
                                     /\ response'[f] = response[f] /\ ready'[f] = ready[f]
  PROVE  ReadyInv'
<1>1. ASSUME NEW f \in Evaluators \ {e}
      PROVE  ReadyAt(f)'
  <2>1. ReadyAt(f)
    BY DEF Inv, ReadyInv
  <2> QED
    BY <2>1 DEF ReadyAt
<1> QED
  BY <1>1 DEF ReadyInv

LEMMA ReadyMoves ==
  ASSUME Inv, NEW e \in Evaluators, issue'.wip = issue.wip,
         archs' = archs, response' = response, ready' = ready,
         phase[e] # "idle", \A f \in Evaluators \ {e} : phase'[f] = phase[f],
         phase'[e] \in Judging \cup {"starting"} => phase[e] \in Judging \cup {"starting"}
  PROVE  ReadyInv'
<1>1. ReadyAt(e)
  BY DEF Inv, ReadyInv
<1>2. ReadyAt(e)'
  BY <1>1 DEF ReadyAt
<1> QED
  BY <1>2, ReadyFrame

LEMMA ReadyStep ==
  ASSUME Inv, NEW e \in Evaluators, Step(e) \/ Crash(e)
  PROVE  ReadyInv'
<1>1. CASE TakeJob(e)
  <2>1. response[e] = <<>> /\ ToSet(<<>>) = {}
    BY <1>1 DEF TakeJob, Inv, AnswerInv, ToSet
  <2>7. ReadyAt(e)'
    BY <1>1, <2>1 DEF TakeJob, Inv, TypeOK, ReadyInv, ReadyAt, Judging, Reports
  <2>8. /\ issue'.wip = issue.wip
        /\ \A f \in Evaluators \ {e} : /\ phase'[f] = phase[f] /\ archs'[f] = archs[f]
                                     /\ response'[f] = response[f] /\ ready'[f] = ready[f]
    BY <1>1 DEF TakeJob, Inv, TypeOK
  <2> QED
    BY <2>7, <2>8, ReadyFrame
<1>2. CASE Skip(e)
  <2>1. /\ archs' = archs /\ response' = response /\ ready' = ready /\ phase[e] # "idle"
        /\ phase'[e] \in Judging \cup {"starting"} => phase[e] \in Judging \cup {"starting"}
    BY <1>2 DEF Skip, Judging, Reports, Inv, TypeOK
  <2>2. issue'.wip = issue.wip /\ \A f \in Evaluators \ {e} : phase'[f] = phase[f]
    BY <1>2 DEF Skip, Inv, TypeOK
  <2> QED
    BY <2>1, <2>2, ReadyMoves
<1>3. CASE ReadIssue(e)
  <2>1. phase[e] # "idle" /\ (~issue.wip => ready[e])
    BY <1>3 DEF ReadIssue, Inv, ReadyInv, ReadyAt
  <2>7. ReadyAt(e)'
    BY <1>3, <2>1 DEF ReadIssue, Inv, TypeOK, ReadyInv, ReadyAt, Judging, Reports
  <2>8. /\ issue'.wip = issue.wip
        /\ \A f \in Evaluators \ {e} : /\ phase'[f] = phase[f] /\ archs'[f] = archs[f]
                                     /\ response'[f] = response[f] /\ ready'[f] = ready[f]
    BY <1>3 DEF ReadIssue, Inv, TypeOK
  <2> QED
    BY <2>7, <2>8, ReadyFrame
<1>4. CASE Report(e)
  <2>1. /\ archs' = archs /\ response' = response /\ ready' = ready /\ phase[e] # "idle"
        /\ phase'[e] \in Judging \cup {"starting"} => phase[e] \in Judging \cup {"starting"}
    BY <1>4, Reported DEF Judging, Reports, Inv, TypeOK
  <2>2. issue'.wip = issue.wip /\ \A f \in Evaluators \ {e} : phase'[f] = phase[f]
    BY <1>4 DEF Report, Inv, TypeOK
  <2> QED
    BY <2>1, <2>2, ReadyMoves
<1>5. CASE StrategyFails(e)
  <2>1. /\ archs' = archs /\ response' = response /\ ready' = ready /\ phase[e] # "idle"
        /\ phase'[e] \in Judging \cup {"starting"} => phase[e] \in Judging \cup {"starting"}
    BY <1>5 DEF StrategyFails, Judging, Reports, Inv, TypeOK
  <2>2. issue'.wip = issue.wip /\ \A f \in Evaluators \ {e} : phase'[f] = phase[f]
    BY <1>5 DEF StrategyFails, Inv, TypeOK
  <2> QED
    BY <2>1, <2>2, ReadyMoves
<1>6. CASE CommitNotFound(e)
  <2>1. /\ archs' = archs /\ response' = response /\ ready' = ready /\ phase[e] # "idle"
        /\ phase'[e] \in Judging \cup {"starting"} => phase[e] \in Judging \cup {"starting"}
    BY <1>6 DEF CommitNotFound, Judging, Reports, Inv, TypeOK
  <2>2. issue'.wip = issue.wip /\ \A f \in Evaluators \ {e} : phase'[f] = phase[f]
    BY <1>6 DEF CommitNotFound, Inv, TypeOK
  <2> QED
    BY <2>1, <2>2, ReadyMoves
<1>7. CASE MergeFails(e)
  <2>1. /\ archs' = archs /\ response' = response /\ ready' = ready /\ phase[e] # "idle"
        /\ phase'[e] \in Judging \cup {"starting"} => phase[e] \in Judging \cup {"starting"}
    BY <1>7 DEF MergeFails, Judging, Reports, Inv, TypeOK
  <2>2. issue'.wip = issue.wip /\ \A f \in Evaluators \ {e} : phase'[f] = phase[f]
    BY <1>7 DEF MergeFails, Inv, TypeOK
  <2> QED
    BY <2>1, <2>2, ReadyMoves
<1>8. CASE MergeConflict(e)
  <2>1. /\ archs' = archs /\ response' = response /\ ready' = ready /\ phase[e] # "idle"
        /\ phase'[e] \in Judging \cup {"starting"} => phase[e] \in Judging \cup {"starting"}
    BY <1>8 DEF MergeConflict, Judging, Reports, Inv, TypeOK
  <2>2. issue'.wip = issue.wip /\ \A f \in Evaluators \ {e} : phase'[f] = phase[f]
    BY <1>8 DEF MergeConflict, Inv, TypeOK
  <2> QED
    BY <2>1, <2>2, ReadyMoves
<1>9. CASE AfterMerge(e)
  <2>1. /\ archs' = archs /\ response' = response /\ ready' = ready /\ phase[e] # "idle"
        /\ phase'[e] \in Judging \cup {"starting"} => phase[e] \in Judging \cup {"starting"}
    BY <1>9 DEF AfterMerge, Judging, Reports, Inv, TypeOK
  <2>2. issue'.wip = issue.wip /\ \A f \in Evaluators \ {e} : phase'[f] = phase[f]
    BY <1>9 DEF AfterMerge, Inv, TypeOK
  <2> QED
    BY <2>1, <2>2, ReadyMoves
<1>10. CASE StartCheck(e)
  <2>1. /\ archs' = archs /\ response' = response /\ ready' = ready /\ phase[e] # "idle"
        /\ phase'[e] \in Judging \cup {"starting"} => phase[e] \in Judging \cup {"starting"}
    BY <1>10 DEF StartCheck, Judging, Reports, Inv, TypeOK
  <2>2. issue'.wip = issue.wip /\ \A f \in Evaluators \ {e} : phase'[f] = phase[f]
    BY <1>10 DEF StartCheck, Inv, TypeOK
  <2> QED
    BY <2>1, <2>2, ReadyMoves
<1>11. CASE CheckPasses(e)
  <2>1. /\ archs' = archs /\ response' = response /\ ready' = ready /\ phase[e] # "idle"
        /\ phase'[e] \in Judging \cup {"starting"} => phase[e] \in Judging \cup {"starting"}
    BY <1>11 DEF CheckPasses, Judging, Reports, Inv, TypeOK
  <2>2. issue'.wip = issue.wip /\ \A f \in Evaluators \ {e} : phase'[f] = phase[f]
    BY <1>11 DEF CheckPasses, Inv, TypeOK
  <2> QED
    BY <2>1, <2>2, ReadyMoves
<1>12. CASE CheckFails(e)
  <2>1. /\ archs' = archs /\ response' = response /\ ready' = ready /\ phase[e] # "idle"
        /\ phase'[e] \in Judging \cup {"starting"} => phase[e] \in Judging \cup {"starting"}
    BY <1>12 DEF CheckFails, Judging, Reports, Inv, TypeOK
  <2>2. issue'.wip = issue.wip /\ \A f \in Evaluators \ {e} : phase'[f] = phase[f]
    BY <1>12 DEF CheckFails, Inv, TypeOK
  <2> QED
    BY <2>1, <2>2, ReadyMoves
<1>13. CASE CompleteWithErrors(e)
  <2>1. /\ archs' = archs /\ response' = response /\ ready' = ready /\ phase[e] # "idle"
        /\ phase'[e] \in Judging \cup {"starting"} => phase[e] \in Judging \cup {"starting"}
    BY <1>13 DEF CompleteWithErrors, Judging, Reports, Inv, TypeOK
  <2>2. issue'.wip = issue.wip /\ \A f \in Evaluators \ {e} : phase'[f] = phase[f]
    BY <1>13 DEF CompleteWithErrors, Inv, TypeOK
  <2> QED
    BY <2>1, <2>2, ReadyMoves
<1>14. CASE StartMeta(e)
  <2>1. /\ archs' = archs /\ response' = response /\ ready' = ready /\ phase[e] # "idle"
        /\ phase'[e] \in Judging \cup {"starting"} => phase[e] \in Judging \cup {"starting"}
    BY <1>14 DEF StartMeta, Judging, Reports, Inv, TypeOK
  <2>2. issue'.wip = issue.wip /\ \A f \in Evaluators \ {e} : phase'[f] = phase[f]
    BY <1>14 DEF StartMeta, Inv, TypeOK
  <2> QED
    BY <2>1, <2>2, ReadyMoves
<1>15. CASE MetaFails(e)
  <2>1. /\ archs' = archs /\ response' = response /\ ready' = ready /\ phase[e] # "idle"
        /\ phase'[e] \in Judging \cup {"starting"} => phase[e] \in Judging \cup {"starting"}
    BY <1>15 DEF MetaFails, Judging, Reports, Inv, TypeOK
  <2>2. issue'.wip = issue.wip /\ \A f \in Evaluators \ {e} : phase'[f] = phase[f]
    BY <1>15 DEF MetaFails, Inv, TypeOK
  <2> QED
    BY <2>1, <2>2, ReadyMoves
<1>16. CASE MetaPasses(e)
  <2>1. \A q \in ToSet(response'[e]) : q # "build-results" => archs[e] # <<>>
    <3>1. archs[e] \in Seq(Queues) /\ response'[e] \in {<<>>, Append(archs[e], "build-results")}
      BY <1>16, ArchQueues DEF MetaPasses, Inv, TypeOK
    <3>2. ToSet(<<>>) = {}
      BY DEF ToSet
    <3>3. archs[e] = <<>> => ToSet(Append(archs[e], "build-results")) = {"build-results"}
      <4>1. "build-results" \in Queues /\ <<>> \in Seq(Queues)
        BY DEF Queues
      <4>2. ToSet(Append(<<>>, "build-results")) = ToSet(<<>>) \cup {"build-results"}
        BY <4>1, SequenceFacts
      <4> QED
        BY <3>2, <4>2
    <3> QED
      BY <3>1, <3>2, <3>3
  <2>7. ReadyAt(e)'
    BY <1>16, <2>1 DEF MetaPasses, Inv, TypeOK, ReadyInv, ReadyAt, Judging, Reports
  <2>8. /\ issue'.wip = issue.wip
        /\ \A f \in Evaluators \ {e} : /\ phase'[f] = phase[f] /\ archs'[f] = archs[f]
                                     /\ response'[f] = response[f] /\ ready'[f] = ready[f]
    BY <1>16 DEF MetaPasses, Inv, TypeOK
  <2> QED
    BY <2>7, <2>8, ReadyFrame
<1>17. CASE GenericPasses(e)
  <2>1. /\ archs' = archs /\ response' = response /\ ready' = ready /\ phase[e] # "idle"
        /\ phase'[e] \in Judging \cup {"starting"} => phase[e] \in Judging \cup {"starting"}
    BY <1>17 DEF GenericPasses, Judging, Reports, Inv, TypeOK
  <2>2. issue'.wip = issue.wip /\ \A f \in Evaluators \ {e} : phase'[f] = phase[f]
    BY <1>17 DEF GenericPasses, Inv, TypeOK
  <2> QED
    BY <2>1, <2>2, ReadyMoves
<1>18. CASE Succeed(e)
  <2>1. /\ archs' = archs /\ response' = response /\ ready' = ready /\ phase[e] # "idle"
        /\ phase'[e] \in Judging \cup {"starting"} => phase[e] \in Judging \cup {"starting"}
    BY <1>18 DEF Succeed, Judging, Reports, Inv, TypeOK
  <2>2. issue'.wip = issue.wip /\ \A f \in Evaluators \ {e} : phase'[f] = phase[f]
    BY <1>18 DEF Succeed, Inv, TypeOK
  <2> QED
    BY <2>1, <2>2, ReadyMoves
<1>19. CASE Publish(e)
  <2>1. ToSet(response'[e]) \subseteq ToSet(response[e])
    BY <1>19, SequenceFacts DEF Publish, Inv, TypeOK
  <2>7. ReadyAt(e)'
    BY <1>19, <2>1 DEF Publish, Inv, TypeOK, ReadyInv, ReadyAt, Judging, Reports
  <2>8. /\ issue'.wip = issue.wip
        /\ \A f \in Evaluators \ {e} : /\ phase'[f] = phase[f] /\ archs'[f] = archs[f]
                                     /\ response'[f] = response[f] /\ ready'[f] = ready[f]
    BY <1>19 DEF Publish, Inv, TypeOK
  <2> QED
    BY <2>7, <2>8, ReadyFrame
<1>20. CASE AckJob(e)
  <2>1. /\ archs' = archs /\ response' = response /\ ready' = ready /\ phase[e] # "idle"
        /\ phase'[e] \in Judging \cup {"starting"} => phase[e] \in Judging \cup {"starting"}
    BY <1>20 DEF AckJob, Judging, Reports, Inv, TypeOK
  <2>2. issue'.wip = issue.wip /\ \A f \in Evaluators \ {e} : phase'[f] = phase[f]
    BY <1>20 DEF AckJob, Inv, TypeOK
  <2> QED
    BY <2>1, <2>2, ReadyMoves
<1>21. CASE Crash(e)
  <2>1. ToSet(<<>>) = {}
    BY DEF ToSet
  <2>7. ReadyAt(e)'
    BY <1>21, <2>1 DEF Crash, Inv, TypeOK, ReadyInv, ReadyAt, Judging, Reports
  <2>8. /\ issue'.wip = issue.wip
        /\ \A f \in Evaluators \ {e} : /\ phase'[f] = phase[f] /\ archs'[f] = archs[f]
                                     /\ response'[f] = response[f] /\ ready'[f] = ready[f]
    BY <1>21 DEF Crash, Inv, TypeOK
  <2> QED
    BY <2>7, <2>8, ReadyFrame
<1> QED
  BY <1>1, <1>2, <1>3, <1>4, <1>5, <1>6, <1>7, <1>8, <1>9, <1>10, <1>11, <1>12, <1>13, <1>14, <1>15, <1>16, <1>17, <1>18, <1>19, <1>20, <1>21 DEF Step

\* Sets of evaluators are finite.
LEMMA Counted ==
  ASSUME NEW S \in SUBSET Evaluators, NEW e \in Evaluators
  PROVE  /\ Cardinality(S) \in Nat
         /\ e \notin S => Cardinality(S \cup {e}) = Cardinality(S) + 1
         /\ e \in S => Cardinality(S \ {e}) = Cardinality(S) - 1
<1>1. IsFiniteSet(S)
  BY FS_Subset
<1>2. Cardinality(S) \in Nat
  BY <1>1, FS_CardinalityType
<1>3. e \notin S => Cardinality(S \cup {e}) = Cardinality(S) + 1
  BY <1>1, FS_AddElement
<1>4. e \in S => Cardinality(S \ {e}) = Cardinality(S) - 1
  BY <1>1, FS_RemoveElement
<1> QED
  BY <1>2, <1>3, <1>4

LEMMA CountStep ==
  ASSUME Inv, NEW e \in Evaluators, Step(e) \/ Crash(e)
  PROVE  CountInv'
<1> DEFINE busies == Cardinality(Busy)
           readers == Cardinality(Readers)
<1>1. /\ busies \in Nat /\ readers \in Nat /\ queue \in Nat /\ dropped \in Nat /\ crashes \in Nat
      /\ Busy \in SUBSET Evaluators /\ Readers \in SUBSET Evaluators /\ site.jobs \in Nat
      /\ queue + busies <= site.jobs /\ dropped + queue + readers <= site.jobs + crashes
  <2>1. Busy \in SUBSET Evaluators /\ Readers \in SUBSET Evaluators
    BY DEF Busy, Readers
  <2>2. IsFiniteSet(Busy) /\ IsFiniteSet(Readers)
    BY <2>1, FS_Subset
  <2>3. busies \in Nat /\ readers \in Nat
    BY <2>2, FS_CardinalityType
  <2>4. queue \in Nat /\ dropped \in Nat /\ crashes \in Nat /\ site.jobs \in Nat
    BY DEF Inv, TypeOK
  <2>5. queue + busies <= site.jobs /\ dropped + queue + readers <= site.jobs + crashes
    BY DEF Inv, CountInv
  <2> QED
    BY <2>1, <2>3, <2>4, <2>5
<1>2. /\ e \in Busy => Cardinality(Busy \ {e}) = busies - 1
      /\ e \notin Busy => Cardinality(Busy \cup {e}) = busies + 1
      /\ e \in Readers => Cardinality(Readers \ {e}) = readers - 1
      /\ e \notin Readers => Cardinality(Readers \cup {e}) = readers + 1 /\ Readers \ {e} = Readers
  BY <1>1, Counted
<1>3. /\ e \in Busy <=> phase[e] # "idle"
      /\ e \in Readers <=> phase[e] = "reading"
  BY DEF Busy, Readers, Inv, CountInv
<1> DEFINE jobs == site.jobs
<1>a. site.jobs = jobs /\ Cardinality(Busy) = busies /\ Cardinality(Readers) = readers
  OBVIOUS
<1> HIDE DEF busies, readers, jobs
<1>b. Cardinality(Readers \ {e}) \in Nat /\ Cardinality(Readers \ {e}) <= readers
  <2>1. Readers \ {e} \in SUBSET Evaluators
    BY <1>1
  <2>2. Cardinality(Readers \ {e}) \in Nat
    BY <2>1, Counted
  <2>3. CASE e \in Readers
    BY <1>1, <1>2, <2>2, <2>3
  <2>4. CASE e \notin Readers
    <3>1. Cardinality(Readers \ {e}) = readers
      BY <1>2, <1>a, <2>4
    <3> QED
      BY <1>1, <3>1
  <2> QED
    BY <2>2, <2>3, <2>4
<1>4. CASE TakeJob(e)
  <2>1. Busy' = Busy \cup {e} /\ Readers' = Readers \cup {e} /\ e \notin Busy /\ e \notin Readers
    BY <1>3, <1>4 DEF TakeJob, Busy, Readers, Inv, TypeOK
  <2>2. /\ queue' = queue - 1 /\ dropped' = dropped /\ crashes' = crashes /\ site' = site
    BY <1>4 DEF TakeJob
  <2>3. /\ queue' + Cardinality(Busy') <= site'.jobs
        /\ dropped' + queue' + Cardinality(Readers') <= site'.jobs + crashes'
    <3>1. Cardinality(Busy') = busies + 1 /\ Cardinality(Readers') = readers + 1 /\ site'.jobs = jobs
      BY <1>1, <1>2, <1>3, <1>a, <2>1, <2>2
    <3>2. queue + busies <= jobs /\ dropped + queue + readers <= jobs + crashes
      BY <1>1, <1>a
    <3> QED
      BY <1>1, <1>a, <2>2, <3>1, <3>2
  <2>4. \A f \in Evaluators : (busy'[f] <=> phase'[f] # "idle") /\ (phase'[f] # "idle" => f \in site.team)
    BY <1>4 DEF TakeJob, Inv, TypeOK, CountInv
  <2> QED
    BY <2>2, <2>3, <2>4 DEF CountInv
<1>5. CASE Skip(e)
  <2>1. Busy' = Busy /\ Readers' = Readers \ {e} /\ e \in Readers
    BY <1>3, <1>5 DEF Skip, Busy, Readers, Inv, TypeOK
  <2>2. /\ queue' = queue /\ dropped' = dropped + 1 /\ crashes' = crashes /\ site' = site
    BY <1>5 DEF Skip
  <2>3. /\ queue' + Cardinality(Busy') <= site'.jobs
        /\ dropped' + queue' + Cardinality(Readers') <= site'.jobs + crashes'
    <3>1. Cardinality(Busy') = busies /\ Cardinality(Readers') = readers - 1 /\ site'.jobs = jobs
      BY <1>1, <1>2, <1>3, <1>a, <2>1, <2>2
    <3>2. queue + busies <= jobs /\ dropped + queue + readers <= jobs + crashes
      BY <1>1, <1>a
    <3> QED
      BY <1>1, <1>a, <2>2, <3>1, <3>2
  <2>4. \A f \in Evaluators : (busy'[f] <=> phase'[f] # "idle") /\ (phase'[f] # "idle" => f \in site.team)
    BY <1>5 DEF Skip, Inv, TypeOK, CountInv
  <2> QED
    BY <2>2, <2>3, <2>4 DEF CountInv
<1>6. CASE AckJob(e)
  <2>1. Busy' = Busy \ {e} /\ e \in Busy /\ Readers' = Readers
    BY <1>3, <1>6 DEF AckJob, Busy, Readers, Inv, TypeOK
  <2>2. /\ queue' = queue /\ dropped' = dropped /\ crashes' = crashes /\ site' = site
    BY <1>6 DEF AckJob
  <2>3. /\ queue' + Cardinality(Busy') <= site'.jobs
        /\ dropped' + queue' + Cardinality(Readers') <= site'.jobs + crashes'
    <3>1. Cardinality(Busy') = busies - 1 /\ Cardinality(Readers') = readers /\ site'.jobs = jobs
      BY <1>1, <1>2, <1>3, <1>a, <2>1, <2>2
    <3>2. queue + busies <= jobs /\ dropped + queue + readers <= jobs + crashes
      BY <1>1, <1>a
    <3> QED
      BY <1>1, <1>a, <2>2, <3>1, <3>2
  <2>4. \A f \in Evaluators : (busy'[f] <=> phase'[f] # "idle") /\ (phase'[f] # "idle" => f \in site.team)
    BY <1>6 DEF AckJob, Inv, TypeOK, CountInv
  <2> QED
    BY <2>2, <2>3, <2>4 DEF CountInv
<1>7. CASE Crash(e)
  <2>1. Busy' = Busy \ {e} /\ e \in Busy /\ Readers' = Readers \ {e} /\ busy[e]
    BY <1>3, <1>7 DEF Crash, Busy, Readers, Inv, TypeOK
  <2>2. /\ queue' = queue + 1 /\ dropped' = dropped /\ crashes' = crashes + 1 /\ site' = site
    BY <1>7, <2>1 DEF Crash
  <2>3. Cardinality(Readers') <= readers /\ Cardinality(Readers') \in Nat
    BY <1>b, <2>1
  <2>4. /\ queue' + Cardinality(Busy') <= site'.jobs
        /\ dropped' + queue' + Cardinality(Readers') <= site'.jobs + crashes'
    <3>1. Cardinality(Busy') = busies - 1 /\ site'.jobs = jobs
      BY <1>1, <1>2, <1>3, <1>a, <2>1, <2>2
    <3>2. queue + busies <= jobs /\ dropped + queue + readers <= jobs + crashes
      BY <1>1, <1>a
    <3>3. (queue + 1) + (busies - 1) <= jobs
      BY <1>1, <1>a, <3>2
    <3>4. dropped + (queue + 1) + Cardinality(Readers') <= jobs + (crashes + 1)
      BY <1>1, <1>a, <2>3, <3>2
    <3> QED
      BY <2>2, <3>1, <3>3, <3>4
  <2>5. \A f \in Evaluators : (busy'[f] <=> phase'[f] # "idle") /\ (phase'[f] # "idle" => f \in site.team)
    BY <1>7 DEF Crash, Inv, TypeOK, CountInv
  <2> QED
    BY <2>2, <2>4, <2>5 DEF CountInv
<1>8. ASSUME UNCHANGED <<site, queue, busy, dropped, crashes>>,
             phase[e] # "idle", NEW p, p \notin {"idle", "reading"}, phase' = [phase EXCEPT ![e] = p]
      PROVE  CountInv'
  <2>1. Busy' = Busy /\ Readers' = Readers \ {e}
    BY <1>3, <1>8 DEF Busy, Readers, Inv, TypeOK
  <2>2. Cardinality(Readers') <= readers /\ Cardinality(Readers') \in Nat
    BY <1>b, <2>1
  <2>3. /\ queue' + Cardinality(Busy') <= site'.jobs
        /\ dropped' + queue' + Cardinality(Readers') <= site'.jobs + crashes'
    <3>1. Cardinality(Busy') = busies /\ site'.jobs = jobs
      BY <1>1, <1>2, <1>3, <1>a, <2>1, <1>8
    <3>2. queue + busies <= jobs /\ dropped + queue + readers <= jobs + crashes
      BY <1>1, <1>a
    <3> QED
      BY <1>1, <1>a, <1>8, <2>2, <3>1, <3>2
  <2>4. \A f \in Evaluators : (busy'[f] <=> phase'[f] # "idle") /\ (phase'[f] # "idle" => f \in site.team)
    BY <1>8 DEF Inv, TypeOK, CountInv
  <2> QED
    BY <1>8, <2>3, <2>4 DEF CountInv
<1>9. CASE Publish(e)
  <2>1. phase' = [phase EXCEPT ![e] = "answering"]
    BY <1>9 DEF Publish, Inv, TypeOK
  <2> QED
    BY <1>8, <1>9, <2>1 DEF Publish
<1>10. CASE ReadIssue(e) \/ Report(e) \/ StrategyFails(e) \/ CommitNotFound(e) \/ MergeConflict(e)
  <2>1. CASE Report(e)
    <3>1. /\ phase[e] \in (Reports \ {"measuring"}) \cup {"starting"} /\ phase'[e] \in Reports
          /\ phase' = [phase EXCEPT ![e] = phase'[e]]
          /\ UNCHANGED <<site, queue, busy, dropped, crashes>>
      BY <2>1, Reported
    <3> QED
      BY <1>8, <3>1 DEF Reports
  <2> QED
    BY <1>8, <1>10, <2>1 DEF ReadIssue, StrategyFails, CommitNotFound, MergeConflict
<1>11. CASE MergeFails(e) \/ AfterMerge(e) \/ StartCheck(e) \/ CheckPasses(e) \/ CheckFails(e)
  BY <1>8, <1>11 DEF MergeFails, AfterMerge, StartCheck, CheckPasses, CheckFails
<1>12. CASE CompleteWithErrors(e) \/ StartMeta(e) \/ MetaFails(e) \/ MetaPasses(e)
  BY <1>8, <1>12 DEF CompleteWithErrors, StartMeta, MetaFails, MetaPasses
<1>13. CASE GenericPasses(e) \/ Succeed(e)
  BY <1>8, <1>13 DEF GenericPasses, Succeed
<1> QED
  BY <1>4, <1>5, <1>6, <1>7, <1>9, <1>10, <1>11, <1>12, <1>13 DEF Step

LEMMA AnswerStep ==
  ASSUME Inv, NEW e \in Evaluators, Step(e) \/ Crash(e)
  PROVE  AnswerInv'
<1>1. CASE TakeJob(e)
  BY <1>1 DEF TakeJob, Inv, TypeOK, AnswerInv, Judging, Reports, Early
<1>2. CASE Skip(e)
  BY <1>2 DEF Skip, Inv, TypeOK, AnswerInv, Judging, Reports, Early
<1>3. CASE ReadIssue(e)
  BY <1>3 DEF ReadIssue, Inv, TypeOK, AnswerInv, Judging, Reports, Early
<1>4. CASE Report(e)
  <2>1. /\ \A f \in Evaluators : f # e => phase'[f] = phase[f]
        /\ phase[e] \in (Reports \ {"measuring"}) \cup {"starting"} /\ phase'[e] \in Reports
        /\ UNCHANGED <<site, issue, archs, response, builds, changes>>
    BY <1>4, Reported
  <2>2. /\ phase[e] \notin {"passed", "answering"} /\ phase[e] \in Judging \cup {"starting"}
        /\ phase'[e] # "passed"
    BY <2>1 DEF Reports, Judging
  <2> QED
    BY <2>1, <2>2 DEF Inv, AnswerInv
<1>5. CASE StrategyFails(e)
  BY <1>5 DEF StrategyFails, Inv, TypeOK, AnswerInv, Judging, Reports, Early
<1>6. CASE CommitNotFound(e)
  BY <1>6 DEF CommitNotFound, Inv, TypeOK, AnswerInv, Judging, Reports, Early
<1>7. CASE MergeFails(e)
  BY <1>7 DEF MergeFails, Inv, TypeOK, AnswerInv, Judging, Reports, Early
<1>8. CASE MergeConflict(e)
  BY <1>8 DEF MergeConflict, Inv, TypeOK, AnswerInv, Judging, Reports, Early
<1>9. CASE AfterMerge(e)
  BY <1>9 DEF AfterMerge, Inv, TypeOK, AnswerInv, Judging, Reports, Early
<1>10. CASE StartCheck(e)
  BY <1>10 DEF StartCheck, Inv, TypeOK, AnswerInv, Judging, Reports, Early
<1>11. CASE CheckPasses(e)
  BY <1>11 DEF CheckPasses, Inv, TypeOK, AnswerInv, Judging, Reports, Early
<1>12. CASE CheckFails(e)
  BY <1>12 DEF CheckFails, Inv, TypeOK, AnswerInv, Judging, Reports, Early
<1>13. CASE CompleteWithErrors(e)
  BY <1>13 DEF CompleteWithErrors, Inv, TypeOK, AnswerInv, Judging, Reports, Early
<1>14. CASE StartMeta(e)
  BY <1>14 DEF StartMeta, Inv, TypeOK, AnswerInv, Judging, Reports, Early
<1>15. CASE MetaFails(e)
  BY <1>15 DEF MetaFails, Inv, TypeOK, AnswerInv, Judging, Reports, Early
<1>16. CASE MetaPasses(e)
  <2>1. Named /\ archs[e] = BuildArchs => Queues \subseteq ToSet(response'[e])
    <3>1. "build-results" \in Queues /\ Queues = ToSet(BuildArchs) \cup {"build-results"}
      BY DEF Queues
    <3>2. ToSet(Append(BuildArchs, "build-results")) = ToSet(BuildArchs) \cup {"build-results"}
      BY <3>1, ArchQueues, SequenceFacts
    <3> QED
      BY <1>16, <3>1, <3>2 DEF MetaPasses, Inv, TypeOK
  <2>2. HasMeta /\ ~Named => response'[e] = <<>>
    BY <1>16 DEF MetaPasses, Inv, TypeOK
  <2> QED
    BY <1>16, <2>1, <2>2 DEF MetaPasses, Inv, TypeOK, AnswerInv, Judging, Reports, Early
<1>17. CASE GenericPasses(e)
  BY <1>17 DEF GenericPasses, Inv, TypeOK, AnswerInv, Judging, Reports, Early
<1>18. CASE Succeed(e)
  BY <1>18 DEF Succeed, Inv, TypeOK, AnswerInv, Judging, Reports, Early
<1>19. CASE Publish(e)
  <2>1. ~(HasMeta /\ ~Named)
    BY <1>19 DEF Publish, Inv, AnswerInv
  <2> QED
    BY <1>19, <2>1 DEF Publish, Inv, TypeOK, AnswerInv, Judging, Reports, Early
<1>20. CASE AckJob(e)
  BY <1>20 DEF AckJob, Inv, TypeOK, AnswerInv, Judging, Reports, Early
<1>21. CASE Crash(e)
  BY <1>21 DEF Crash, Inv, TypeOK, AnswerInv, Judging, Reports, Early
<1> QED
  BY <1>1, <1>2, <1>3, <1>4, <1>5, <1>6, <1>7, <1>8, <1>9, <1>10, <1>11, <1>12, <1>13, <1>14, <1>15, <1>16, <1>17, <1>18, <1>19, <1>20, <1>21 DEF Step

\* The debts of the others stay, and e keeps or pays its own.
LEMMA BuildFrame ==
  ASSUME Inv, NEW e \in Evaluators, UNCHANGED site, builds \subseteq builds',
         \A f \in Evaluators \ {e} : phase'[f] = phase[f] /\ response'[f] = response[f],
         status'[Eval] = "success" /\ changes' = 0 /\ dropped' = 0 =>
            status[Eval] = "success" /\ changes = 0 /\ dropped = 0,
         queue > 0 => queue' > 0 \/ Owes(e)',
         changes = 0 /\ HasMeta /\ Named /\ Owes(e) =>
            Owes(e)' \/ queue' > 0 \/ Queues \subseteq builds'
  PROVE  BuildInv'
<1> SUFFICES ASSUME status'[Eval] = "success", changes' = 0, dropped' = 0, HasMeta, Named
             PROVE  Queues \subseteq builds' \/ queue' > 0 \/ \E f \in Evaluators : Owes(f)'
  BY DEF BuildInv
<1>1. Queues \subseteq builds \/ queue > 0 \/ \E f \in Evaluators : Owes(f)
  BY DEF Inv, BuildInv
<1>2. ASSUME NEW f \in Evaluators \ {e}, Owes(f)
      PROVE  Owes(f)'
  BY <1>2 DEF Owes
<1> QED
  BY <1>1, <1>2

LEMMA BuildStep ==
  ASSUME Inv, NEW e \in Evaluators, Step(e) \/ Crash(e)
  PROVE  BuildInv'
<1>1. CASE TakeJob(e)
  <2>7. /\ UNCHANGED site /\ builds \subseteq builds'
        /\ \A f \in Evaluators \ {e} : phase'[f] = phase[f] /\ response'[f] = response[f]
    BY <1>1 DEF TakeJob, Inv, TypeOK
  <2>8. /\ status'[Eval] = "success" /\ changes' = 0 /\ dropped' = 0 =>
            status[Eval] = "success" /\ changes = 0 /\ dropped = 0
        /\ queue > 0 => queue' > 0 \/ Owes(e)'
    BY <1>1, Contexts0 DEF TakeJob, Inv, TypeOK, PhaseInv, Owes, Judging, Reports, Early
  <2>9. changes = 0 /\ HasMeta /\ Named /\ Owes(e) =>
            Owes(e)' \/ queue' > 0 \/ Queues \subseteq builds'
    BY <1>1 DEF TakeJob, Inv, TypeOK, Owes, Judging, Reports, Early
  <2> QED
    BY <2>7, <2>8, <2>9, BuildFrame
<1>2. CASE Skip(e)
  <2>1. dropped' # 0
    BY <1>2 DEF Skip, Inv, TypeOK
  <2> QED
    BY <2>1 DEF BuildInv
<1>3. CASE ReadIssue(e)
  <2>7. /\ UNCHANGED site /\ builds \subseteq builds'
        /\ \A f \in Evaluators \ {e} : phase'[f] = phase[f] /\ response'[f] = response[f]
    BY <1>3 DEF ReadIssue, Inv, TypeOK
  <2>8. /\ status'[Eval] = "success" /\ changes' = 0 /\ dropped' = 0 =>
            status[Eval] = "success" /\ changes = 0 /\ dropped = 0
        /\ queue > 0 => queue' > 0 \/ Owes(e)'
    BY <1>3, Contexts0 DEF ReadIssue, Inv, TypeOK, PhaseInv, Owes, Judging, Reports, Early
  <2>9. changes = 0 /\ HasMeta /\ Named /\ Owes(e) =>
            Owes(e)' \/ queue' > 0 \/ Queues \subseteq builds'
    BY <1>3 DEF ReadIssue, Inv, TypeOK, Owes, Judging, Reports, Early
  <2> QED
    BY <2>7, <2>8, <2>9, BuildFrame
<1>4. CASE Report(e)
  BY <1>4, Reported, Contexts0 DEF Inv, TypeOK, BuildInv, Pending
<1>5. CASE StrategyFails(e)
  BY <1>5, Contexts0 DEF StrategyFails, Inv, TypeOK, BuildInv, Pending
<1>6. CASE CommitNotFound(e)
  BY <1>6, Contexts0 DEF CommitNotFound, Inv, TypeOK, BuildInv, Pending
<1>7. CASE MergeFails(e)
  BY <1>7, Contexts0 DEF MergeFails, Inv, TypeOK, BuildInv, Pending
<1>8. CASE MergeConflict(e)
  <2>7. /\ UNCHANGED site /\ builds \subseteq builds'
        /\ \A f \in Evaluators \ {e} : phase'[f] = phase[f] /\ response'[f] = response[f]
    BY <1>8 DEF MergeConflict, Inv, TypeOK
  <2>8. /\ status'[Eval] = "success" /\ changes' = 0 /\ dropped' = 0 =>
            status[Eval] = "success" /\ changes = 0 /\ dropped = 0
        /\ queue > 0 => queue' > 0 \/ Owes(e)'
    BY <1>8, Contexts0 DEF MergeConflict, Inv, TypeOK, PhaseInv, Owes, Judging, Reports, Early
  <2>9. changes = 0 /\ HasMeta /\ Named /\ Owes(e) =>
            Owes(e)' \/ queue' > 0 \/ Queues \subseteq builds'
    BY <1>8 DEF MergeConflict, Inv, TypeOK, Owes, Judging, Reports, Early
  <2> QED
    BY <2>7, <2>8, <2>9, BuildFrame
<1>9. CASE AfterMerge(e)
  <2>7. /\ UNCHANGED site /\ builds \subseteq builds'
        /\ \A f \in Evaluators \ {e} : phase'[f] = phase[f] /\ response'[f] = response[f]
    BY <1>9 DEF AfterMerge, Inv, TypeOK
  <2>8. /\ status'[Eval] = "success" /\ changes' = 0 /\ dropped' = 0 =>
            status[Eval] = "success" /\ changes = 0 /\ dropped = 0
        /\ queue > 0 => queue' > 0 \/ Owes(e)'
    BY <1>9, Contexts0 DEF AfterMerge, Inv, TypeOK, PhaseInv, Owes, Judging, Reports, Early
  <2>9. changes = 0 /\ HasMeta /\ Named /\ Owes(e) =>
            Owes(e)' \/ queue' > 0 \/ Queues \subseteq builds'
    BY <1>9 DEF AfterMerge, Inv, TypeOK, Owes, Judging, Reports, Early
  <2> QED
    BY <2>7, <2>8, <2>9, BuildFrame
<1>10. CASE StartCheck(e)
  <2>7. /\ UNCHANGED site /\ builds \subseteq builds'
        /\ \A f \in Evaluators \ {e} : phase'[f] = phase[f] /\ response'[f] = response[f]
    BY <1>10 DEF StartCheck, Inv, TypeOK
  <2>8. /\ status'[Eval] = "success" /\ changes' = 0 /\ dropped' = 0 =>
            status[Eval] = "success" /\ changes = 0 /\ dropped = 0
        /\ queue > 0 => queue' > 0 \/ Owes(e)'
    <3>1. check[e] # Eval
      BY <1>10 DEF StartCheck, Inv, TypeOK, Eval
    <3> QED
      BY <1>10, <3>1, Contexts0 DEF StartCheck, Inv, TypeOK
  <2>9. changes = 0 /\ HasMeta /\ Named /\ Owes(e) =>
            Owes(e)' \/ queue' > 0 \/ Queues \subseteq builds'
    BY <1>10 DEF StartCheck, Inv, TypeOK, Owes, Judging, Reports, Early
  <2> QED
    BY <2>7, <2>8, <2>9, BuildFrame
<1>11. CASE CheckPasses(e)
  <2>7. /\ UNCHANGED site /\ builds \subseteq builds'
        /\ \A f \in Evaluators \ {e} : phase'[f] = phase[f] /\ response'[f] = response[f]
    BY <1>11 DEF CheckPasses, Inv, TypeOK
  <2>8. /\ status'[Eval] = "success" /\ changes' = 0 /\ dropped' = 0 =>
            status[Eval] = "success" /\ changes = 0 /\ dropped = 0
        /\ queue > 0 => queue' > 0 \/ Owes(e)'
    <3>1. check[e] # Eval
      BY <1>11 DEF CheckPasses, Inv, TypeOK, Eval
    <3> QED
      BY <1>11, <3>1, Contexts0 DEF CheckPasses, Inv, TypeOK
  <2>9. changes = 0 /\ HasMeta /\ Named /\ Owes(e) =>
            Owes(e)' \/ queue' > 0 \/ Queues \subseteq builds'
    BY <1>11 DEF CheckPasses, Inv, TypeOK, Owes, Judging, Reports, Early
  <2> QED
    BY <2>7, <2>8, <2>9, BuildFrame
<1>12. CASE CheckFails(e)
  <2>7. /\ UNCHANGED site /\ builds \subseteq builds'
        /\ \A f \in Evaluators \ {e} : phase'[f] = phase[f] /\ response'[f] = response[f]
    BY <1>12 DEF CheckFails, Inv, TypeOK
  <2>8. /\ status'[Eval] = "success" /\ changes' = 0 /\ dropped' = 0 =>
            status[Eval] = "success" /\ changes = 0 /\ dropped = 0
        /\ queue > 0 => queue' > 0 \/ Owes(e)'
    BY <1>12, Contexts0 DEF CheckFails, Inv, TypeOK, PhaseInv, Owes, Judging, Reports, Early
  <2>9. changes = 0 /\ HasMeta /\ Named /\ Owes(e) =>
            Owes(e)' \/ queue' > 0 \/ Queues \subseteq builds'
    BY <1>12 DEF CheckFails, Inv, TypeOK, Owes, Judging, Reports, Early
  <2> QED
    BY <2>7, <2>8, <2>9, BuildFrame
<1>13. CASE CompleteWithErrors(e)
  BY <1>13, Contexts0 DEF CompleteWithErrors, Inv, TypeOK, BuildInv, Pending
<1>14. CASE StartMeta(e)
  <2>7. /\ UNCHANGED site /\ builds \subseteq builds'
        /\ \A f \in Evaluators \ {e} : phase'[f] = phase[f] /\ response'[f] = response[f]
    BY <1>14 DEF StartMeta, Inv, TypeOK
  <2>8. /\ status'[Eval] = "success" /\ changes' = 0 /\ dropped' = 0 =>
            status[Eval] = "success" /\ changes = 0 /\ dropped = 0
        /\ queue > 0 => queue' > 0 \/ Owes(e)'
    BY <1>14, Contexts0 DEF StartMeta, Inv, TypeOK, PhaseInv, Owes, Judging, Reports, Early
  <2>9. changes = 0 /\ HasMeta /\ Named /\ Owes(e) =>
            Owes(e)' \/ queue' > 0 \/ Queues \subseteq builds'
    BY <1>14 DEF StartMeta, Inv, TypeOK, Owes, Judging, Reports, Early
  <2> QED
    BY <2>7, <2>8, <2>9, BuildFrame
<1>15. CASE MetaFails(e)
  <2>7. /\ UNCHANGED site /\ builds \subseteq builds'
        /\ \A f \in Evaluators \ {e} : phase'[f] = phase[f] /\ response'[f] = response[f]
    BY <1>15 DEF MetaFails, Inv, TypeOK
  <2>8. /\ status'[Eval] = "success" /\ changes' = 0 /\ dropped' = 0 =>
            status[Eval] = "success" /\ changes = 0 /\ dropped = 0
        /\ queue > 0 => queue' > 0 \/ Owes(e)'
    BY <1>15, Contexts0 DEF MetaFails, Inv, TypeOK, PhaseInv, Owes, Judging, Reports, Early
  <2>9. changes = 0 /\ HasMeta /\ Named /\ Owes(e) =>
            Owes(e)' \/ queue' > 0 \/ Queues \subseteq builds'
    BY <1>15 DEF MetaFails, Inv, TypeOK, Owes, Judging, Reports, Early
  <2> QED
    BY <2>7, <2>8, <2>9, BuildFrame
<1>16. CASE MetaPasses(e)
  <2>1. AnswerInv' /\ phase'[e] = "passed" /\ changes' = changes /\ site' = site
    BY <1>16, AnswerStep DEF MetaPasses, Inv, TypeOK
  <2>2. changes = 0 /\ HasMeta /\ Named => Queues \subseteq ToSet(response'[e])
    BY <2>1 DEF AnswerInv
  <2>7. /\ UNCHANGED site /\ builds \subseteq builds'
        /\ \A f \in Evaluators \ {e} : phase'[f] = phase[f] /\ response'[f] = response[f]
    BY <1>16 DEF MetaPasses, Inv, TypeOK
  <2>8. /\ status'[Eval] = "success" /\ changes' = 0 /\ dropped' = 0 =>
            status[Eval] = "success" /\ changes = 0 /\ dropped = 0
        /\ queue > 0 => queue' > 0 \/ Owes(e)'
    BY <1>16, Contexts0 DEF MetaPasses, Inv, TypeOK, PhaseInv, Owes, Judging, Reports, Early
  <2>9. changes = 0 /\ HasMeta /\ Named /\ Owes(e) =>
            Owes(e)' \/ queue' > 0 \/ Queues \subseteq builds'
    BY <1>16, <2>1, <2>2 DEF MetaPasses, Inv, TypeOK, Owes, Judging, Reports, Early
  <2> QED
    BY <2>7, <2>8, <2>9, BuildFrame
<1>17. CASE GenericPasses(e)
  <2>7. /\ UNCHANGED site /\ builds \subseteq builds'
        /\ \A f \in Evaluators \ {e} : phase'[f] = phase[f] /\ response'[f] = response[f]
    BY <1>17 DEF GenericPasses, Inv, TypeOK
  <2>8. /\ status'[Eval] = "success" /\ changes' = 0 /\ dropped' = 0 =>
            status[Eval] = "success" /\ changes = 0 /\ dropped = 0
        /\ queue > 0 => queue' > 0 \/ Owes(e)'
    BY <1>17, Contexts0 DEF GenericPasses, Inv, TypeOK, PhaseInv, Owes, Judging, Reports, Early
  <2>9. changes = 0 /\ HasMeta /\ Named /\ Owes(e) =>
            Owes(e)' \/ queue' > 0 \/ Queues \subseteq builds'
    BY <1>17 DEF GenericPasses, Inv, TypeOK, Owes, Judging, Reports, Early
  <2> QED
    BY <2>7, <2>8, <2>9, BuildFrame
<1>18. CASE Succeed(e)
  <2>1. changes = 0 /\ HasMeta /\ Named => Queues \subseteq ToSet(response[e])
    BY <1>18 DEF Succeed, Inv, AnswerInv
  <2>2. UNCHANGED <<changes, site, response>> /\ phase'[e] = "answering"
    BY <1>18 DEF Succeed, Inv, TypeOK
  <2> QED
    BY <2>1, <2>2 DEF BuildInv, Owes
<1>19. CASE Publish(e)
  <2>1. builds \cup ToSet(response[e]) = builds' \cup ToSet(response'[e])
    BY <1>19, SequenceFacts DEF Publish, Inv, TypeOK
  <2>7. /\ UNCHANGED site /\ builds \subseteq builds'
        /\ \A f \in Evaluators \ {e} : phase'[f] = phase[f] /\ response'[f] = response[f]
    BY <1>19 DEF Publish, Inv, TypeOK
  <2>8. /\ status'[Eval] = "success" /\ changes' = 0 /\ dropped' = 0 =>
            status[Eval] = "success" /\ changes = 0 /\ dropped = 0
        /\ queue > 0 => queue' > 0 \/ Owes(e)'
    BY <1>19, Contexts0 DEF Publish, Inv, TypeOK, PhaseInv, Owes, Judging, Reports, Early
  <2>9. changes = 0 /\ HasMeta /\ Named /\ Owes(e) =>
            Owes(e)' \/ queue' > 0 \/ Queues \subseteq builds'
    BY <1>19, <2>1 DEF Publish, Inv, TypeOK, Owes, Judging, Reports, Early
  <2> QED
    BY <2>7, <2>8, <2>9, BuildFrame
<1>20. CASE AckJob(e)
  <2>1. ToSet(response[e]) = {} /\ builds' = builds
    BY <1>20 DEF AckJob, ToSet
  <2>7. /\ UNCHANGED site /\ builds \subseteq builds'
        /\ \A f \in Evaluators \ {e} : phase'[f] = phase[f] /\ response'[f] = response[f]
    BY <1>20 DEF AckJob, Inv, TypeOK
  <2>8. /\ status'[Eval] = "success" /\ changes' = 0 /\ dropped' = 0 =>
            status[Eval] = "success" /\ changes = 0 /\ dropped = 0
        /\ queue > 0 => queue' > 0 \/ Owes(e)'
    BY <1>20, Contexts0 DEF AckJob, Inv, TypeOK, PhaseInv, Owes, Judging, Reports, Early
  <2>9. changes = 0 /\ HasMeta /\ Named /\ Owes(e) =>
            Owes(e)' \/ queue' > 0 \/ Queues \subseteq builds'
    BY <1>20, <2>1 DEF AckJob, Inv, TypeOK, Owes, Judging, Reports, Early
  <2> QED
    BY <2>7, <2>8, <2>9, BuildFrame
<1>21. CASE Crash(e)
  <2>1. queue' > 0
    <3>1. busy[e] /\ queue \in Nat
      BY <1>21 DEF Crash, Inv, TypeOK, CountInv
    <3> QED
      BY <1>21, <3>1 DEF Crash
  <2> QED
    BY <2>1 DEF BuildInv
<1> QED
  BY <1>1, <1>2, <1>3, <1>4, <1>5, <1>6, <1>7, <1>8, <1>9, <1>10, <1>11, <1>12, <1>13, <1>14, <1>15, <1>16, <1>17, <1>18, <1>19, <1>20, <1>21 DEF Step

LEMMA SiteFixed ==
  ASSUME NEW e \in Evaluators, Step(e) \/ Crash(e)
  PROVE  site' = site
BY DEF Step, TakeJob, Skip, ReadIssue, Report, StrategyFails, CommitNotFound, MergeFails, MergeConflict,
       AfterMerge, StartCheck, CheckPasses, CheckFails, CompleteWithErrors, StartMeta, MetaFails,
       MetaPasses, GenericPasses, Succeed, Publish, AckJob, Crash

\* An evaluator that is alone is the only one that moves.
LEMMA OnlyOne ==
  ASSUME Inv, Alone, NEW e \in Evaluators, Step(e) \/ Crash(e)
  PROVE  \A f \in Evaluators \ {e} : phase[f] = "idle" /\ phase'[f] = "idle"
<1>1. CountInv /\ CountInv'
  BY CountStep DEF Inv
<1>2. IsFiniteSet(site.team)
  BY FS_Subset DEF Inv, TypeOK
<1>3. PICK x : site.team = {x}
  BY <1>2, FS_Singleton DEF Alone
<1>4. phase[e] # "idle" \/ TakeJob(e)
  <2>1. Report(e) => phase[e] # "idle"
    BY Reported DEF Reports
  <2> QED
    BY <2>1 DEF Step, TakeJob, Skip, ReadIssue, StrategyFails, CommitNotFound, MergeFails, MergeConflict,
       AfterMerge, StartCheck, CheckPasses, CheckFails, CompleteWithErrors, StartMeta, MetaFails,
       MetaPasses, GenericPasses, Succeed, Publish, AckJob, Crash
<1>5. e \in site.team
  BY <1>1, <1>4 DEF CountInv, TakeJob
<1> QED
  BY <1>1, <1>3, <1>5, SiteFixed DEF CountInv

LEMMA ShownStep ==
  ASSUME Inv, NEW e \in Evaluators, Step(e) \/ Crash(e)
  PROVE  Alone => Shown(e)'
<1>1. CASE TakeJob(e)
  BY <1>1, Contexts0 DEF TakeJob, Inv, TypeOK, PhaseInv, AloneInv, Shown, Green, Judging, Reports, Pending, CheckCount
<1>2. CASE Skip(e)
  <2>1. phase'[e] \in {"labelling", "answering"} /\ (phase'[e] = "labelling" => conflicts')
    BY <1>2 DEF Skip, Inv, TypeOK
  <2>2. response'[e] = <<>>
    BY <1>2 DEF Skip, Inv, TypeOK, AnswerInv
  <2> QED
    BY <2>1, <2>2 DEF Shown, Judging, Reports
<1>3. CASE ReadIssue(e)
  BY <1>3, Contexts0 DEF ReadIssue, Inv, TypeOK, PhaseInv, AloneInv, Shown, Green, Judging, Reports, Pending, CheckCount
<1>4. CASE Report(e)
  <2>1. /\ phase[e] \in (Reports \ {"measuring"}) \cup {"starting"} /\ phase'[e] \in Reports
        /\ phase'[e] = "measuring" => HasMeta /\ phase[e] = "merged" /\ check[e] > CheckCount
        /\ phase'[e] \in {"newStdenvs", "newPaths", "beginning", "merged"} =>
              phase[e] \in {"newStdenvs", "newPaths", "beginning"}
        /\ UNCHANGED <<site, check, response>>
    BY <1>4, Reported
  <2>2. status'[Eval] = Pending /\ \A c \in Checks : status'[c] = status[c]
    BY <1>4, Reported, Contexts0 DEF Inv, TypeOK
  <2>3. check[e] \in 1..(NChecks + 1) /\ 1..(check[e] - 1) \subseteq Checks /\ 1..NChecks \subseteq Checks
    BY DEF Inv, TypeOK, Checks, Meta
  <2>4. Alone /\ HasMeta /\ phase'[e] \in {"newStdenvs", "newPaths", "beginning", "merged"} =>
          Green(check[e] - 1)'
    BY <2>1, <2>2, <2>3 DEF Inv, AloneInv, Shown, Green
  <2>5. Alone /\ HasMeta /\ phase'[e] = "measuring" => Green(NChecks)'
    <3>1. ASSUME Alone, HasMeta, phase'[e] = "measuring"
          PROVE  Green(check[e] - 1) /\ check[e] - 1 = NChecks
      BY <2>1, <2>3, <3>1 DEF Inv, AloneInv, Shown, CheckCount
    <3> QED
      BY <2>2, <2>3, <3>1 DEF Green
  <2>6. phase'[e] \notin {"checking", "meta", "passed", "answering", "labelling"}
    BY <2>1 DEF Reports
  <2> QED
    BY <2>1, <2>2, <2>4, <2>5, <2>6 DEF Shown
<1>5. CASE StrategyFails(e)
  <2>1. phase'[e] \in {"labelling", "answering"} /\ (phase'[e] = "labelling" => conflicts')
    BY <1>5 DEF StrategyFails, Inv, TypeOK
  <2>2. response'[e] = <<>>
    BY <1>5 DEF StrategyFails, Inv, TypeOK, AnswerInv
  <2> QED
    BY <2>1, <2>2 DEF Shown, Judging, Reports
<1>6. CASE CommitNotFound(e)
  <2>1. phase'[e] \in {"labelling", "answering"} /\ (phase'[e] = "labelling" => conflicts')
    BY <1>6 DEF CommitNotFound, Inv, TypeOK
  <2>2. response'[e] = <<>>
    BY <1>6 DEF CommitNotFound, Inv, TypeOK, AnswerInv
  <2> QED
    BY <2>1, <2>2 DEF Shown, Judging, Reports
<1>7. CASE MergeFails(e)
  <2>1. phase'[e] \in {"labelling", "answering"} /\ (phase'[e] = "labelling" => conflicts')
    BY <1>7 DEF MergeFails, Inv, TypeOK
  <2>2. response'[e] = <<>>
    BY <1>7 DEF MergeFails, Inv, TypeOK, AnswerInv
  <2> QED
    BY <2>1, <2>2 DEF Shown, Judging, Reports
<1>8. CASE MergeConflict(e)
  <2>1. phase'[e] \in {"labelling", "answering"} /\ (phase'[e] = "labelling" => conflicts')
    BY <1>8 DEF MergeConflict, Inv, TypeOK
  <2>2. response'[e] = <<>>
    BY <1>8 DEF MergeConflict, Inv, TypeOK, AnswerInv
  <2> QED
    BY <2>1, <2>2 DEF Shown, Judging, Reports
<1>9. CASE AfterMerge(e)
  <2>1. /\ phase'[e] \in {"newStdenvs", "beginning"} /\ check'[e] = 1 /\ status' = status
        /\ response' = response
    BY <1>9 DEF AfterMerge, Inv, TypeOK
  <2>2. Alone => status[Eval] = Pending
    BY <1>9 DEF AfterMerge, Inv, AloneInv, Shown, Judging, Reports
  <2>3. Green(check[e] - 1)'
    BY <2>1 DEF Green
  <2> QED
    BY <2>1, <2>2, <2>3 DEF Shown
<1>10. CASE StartCheck(e)
  <2>1. check[e] \in 1..NChecks /\ HasMeta /\ check[e] # Eval /\ check[e] \in Contexts
    <3>1. check[e] \in 1..(NChecks + 1) /\ check[e] <= NChecks /\ HasMeta
      <4>1. check[e] \in 1..(NChecks + 1)
        BY DEF Inv, TypeOK
      <4>2. HasMeta
        <5>1. check[e] <= CheckCount /\ (~HasMeta => CheckCount = 0)
          BY <1>10 DEF StartCheck, CheckCount
        <5> QED
          BY <4>1, <5>1
      <4>3. check[e] <= NChecks
        BY <1>10, <4>2 DEF StartCheck, CheckCount, Inv, PhaseInv
      <4> QED
        BY <4>1, <4>2, <4>3
    <3>2. check[e] \in 1..NChecks
      BY <3>1
    <3> QED
      BY <3>1, <3>2, Contexts0
  <2>2. Alone => status[Eval] = Pending /\ Green(check[e] - 1)
    BY <1>10, <2>1 DEF StartCheck, Inv, AloneInv, Shown, Judging, Reports
  <2>3. /\ phase'[e] = "checking" /\ check'[e] = check[e] /\ status'[Eval] = status[Eval]
        /\ \A c \in 1..(check[e] - 1) : status'[c] = status[c]
    BY <1>10, <2>1, Contexts0 DEF StartCheck, Inv, TypeOK
  <2> QED
    BY <2>2, <2>3 DEF Shown, Green
<1>11. CASE CheckPasses(e)
  <2>1. check[e] \in 1..NChecks /\ HasMeta /\ check[e] # Eval /\ check[e] \in Contexts
    <3>1. check[e] \in 1..(NChecks + 1) /\ check[e] <= NChecks /\ HasMeta
      <4>1. check[e] \in 1..(NChecks + 1)
        BY DEF Inv, TypeOK
      <4>2. HasMeta
        BY <1>11, <4>1 DEF CheckPasses, CheckCount, Inv, PhaseInv
      <4>3. check[e] <= NChecks
        BY <1>11, <4>2 DEF CheckPasses, CheckCount, Inv, PhaseInv
      <4> QED
        BY <4>1, <4>2, <4>3
    <3>2. check[e] \in 1..NChecks
      BY <3>1
    <3> QED
      BY <3>1, <3>2, Contexts0
  <2>2. Alone => status[Eval] = Pending /\ Green(check[e] - 1)
    BY <1>11, <2>1 DEF CheckPasses, Inv, AloneInv, Shown, Judging, Reports
  <2>3. /\ phase'[e] = "merged" /\ check'[e] = check[e] + 1 /\ status'[Eval] = status[Eval]
        /\ status'[check[e]] = "success"
        /\ \A c \in 1..(check[e] - 1) : status'[c] = status[c]
    BY <1>11, <2>1, Contexts0 DEF CheckPasses, Inv, TypeOK
  <2>4. check'[e] - 1 = check[e] /\ \A c \in 1..check[e] : c = check[e] \/ c \in 1..(check[e] - 1)
    BY <2>1, <2>3
  <2>5. Alone => Green(check[e] - 1)'
    BY <2>2, <2>3, <2>4 DEF Green
  <2> QED
    BY <2>2, <2>3, <2>5 DEF Shown
<1>12. CASE CheckFails(e)
  <2>1. check[e] \in 1..NChecks /\ HasMeta /\ check[e] # Eval /\ check[e] \in Contexts
    <3>1. check[e] \in 1..(NChecks + 1) /\ check[e] <= NChecks /\ HasMeta
      <4>1. check[e] \in 1..(NChecks + 1)
        BY DEF Inv, TypeOK
      <4>2. HasMeta
        BY <1>12, <4>1 DEF CheckFails, CheckCount, Inv, PhaseInv
      <4>3. check[e] <= NChecks
        BY <1>12, <4>2 DEF CheckFails, CheckCount, Inv, PhaseInv
      <4> QED
        BY <4>1, <4>2, <4>3
    <3>2. check[e] \in 1..NChecks
      BY <3>1
    <3> QED
      BY <3>1, <3>2, Contexts0
  <2>2. Alone => status[Eval] = Pending /\ Green(check[e] - 1)
    BY <1>12, <2>1 DEF CheckFails, Inv, AloneInv, Shown, Judging, Reports
  <2>3. phase'[e] = "failed" /\ status'[Eval] = status[Eval]
    BY <1>12, <2>1, Contexts0 DEF CheckFails, Inv, TypeOK
  <2> QED
    BY <2>2, <2>3 DEF Shown
<1>13. CASE CompleteWithErrors(e)
  <2>1. phase'[e] \in {"labelling", "answering"} /\ (phase'[e] = "labelling" => conflicts')
    BY <1>13 DEF CompleteWithErrors, Inv, TypeOK
  <2>2. response'[e] = <<>>
    BY <1>13 DEF CompleteWithErrors, Inv, TypeOK, AnswerInv
  <2> QED
    BY <2>1, <2>2 DEF Shown, Judging, Reports
<1>14. CASE StartMeta(e)
  <2>1. HasMeta
    BY <1>14 DEF StartMeta, Inv, PhaseInv
  <2>2. Alone => status[Eval] = Pending /\ Green(NChecks)
    BY <1>14, <2>1 DEF StartMeta, Inv, AloneInv, Shown, Judging, Reports
  <2>3. /\ phase'[e] = "meta" /\ status'[Eval] = status[Eval]
        /\ \A c \in 1..NChecks : status'[c] = status[c]
    BY <1>14, Contexts0 DEF StartMeta, Inv, TypeOK
  <2> QED
    BY <2>2, <2>3 DEF Shown, Green
<1>15. CASE MetaFails(e)
  BY <1>15, Contexts0 DEF MetaFails, Inv, TypeOK, PhaseInv, AloneInv, Shown, Green, Judging, Reports, Pending, CheckCount
<1>16. CASE MetaPasses(e)
  <2>1. HasMeta
    BY <1>16 DEF MetaPasses, Inv, PhaseInv
  <2>2. Alone => status[Eval] = Pending /\ Green(NChecks)
    BY <1>16, <2>1 DEF MetaPasses, Inv, AloneInv, Shown, Judging, Reports
  <2>3. /\ phase'[e] = "passed" /\ status'[Eval] = status[Eval] /\ status'[Meta] = "success"
        /\ \A c \in 1..NChecks : status'[c] = status[c]
    BY <1>16, Contexts0 DEF MetaPasses, Inv, TypeOK
  <2>4. \A c \in 1..Meta : c = Meta \/ c \in 1..NChecks
    BY DEF Meta
  <2>5. Alone => Green(Meta)'
    BY <2>2, <2>3, <2>4 DEF Green
  <2> QED
    BY <2>2, <2>3, <2>5 DEF Shown
<1>17. CASE GenericPasses(e)
  BY <1>17, Contexts0 DEF GenericPasses, Inv, TypeOK, PhaseInv, AloneInv, Shown, Green, Judging, Reports, Pending, CheckCount
<1>18. CASE Succeed(e)
  BY <1>18, Contexts0 DEF Succeed, Inv, TypeOK, PhaseInv, AloneInv, Shown, Green, Judging, Reports, Pending, CheckCount
<1>19. CASE Publish(e)
  BY <1>19, Contexts0 DEF Publish, Inv, TypeOK, PhaseInv, AloneInv, Shown, Green, Judging, Reports, Pending, CheckCount
<1>20. CASE AckJob(e)
  BY <1>20, Contexts0 DEF AckJob, Inv, TypeOK, PhaseInv, AloneInv, Shown, Green, Judging, Reports, Pending, CheckCount
<1>21. CASE Crash(e)
  BY <1>21, Contexts0 DEF Crash, Inv, TypeOK, PhaseInv, AloneInv, Shown, Green, Judging, Reports, Pending, CheckCount
<1> QED
  BY <1>1, <1>2, <1>3, <1>4, <1>5, <1>6, <1>7, <1>8, <1>9, <1>10, <1>11, <1>12, <1>13, <1>14, <1>15, <1>16, <1>17, <1>18, <1>19, <1>20, <1>21 DEF Step

LEMMA LabelStep ==
  ASSUME Inv, NEW e \in Evaluators, Step(e) \/ Crash(e)
  PROVE  Alone => LabelInv'
<1>0. Alone => \A f \in Evaluators \ {e} : phase[f] = "idle" /\ phase'[f] = "idle"
  BY OnlyOne
<1>1. CASE TakeJob(e)
  BY <1>1, <1>0 DEF TakeJob, Inv, TypeOK, PhaseInv, AloneInv, LabelInv, Shown
<1>2. CASE Skip(e)
  BY <1>2, <1>0 DEF Skip, Inv, TypeOK, PhaseInv, AloneInv, LabelInv, Shown
<1>3. CASE ReadIssue(e)
  BY <1>3, <1>0 DEF ReadIssue, Inv, TypeOK, PhaseInv, AloneInv, LabelInv, Shown
<1>4. CASE Report(e)
  <2>1. /\ \A f \in Evaluators : f # e => phase'[f] = phase[f]
        /\ phase[e] \in (Reports \ {"measuring"}) \cup {"starting"} /\ phase'[e] \in Reports
        /\ UNCHANGED <<site, issue, conflicts, crashes>>
    BY <1>4, Reported
  <2>2. phase[e] # "labelling"
    BY <2>1 DEF Reports
  <2> QED
    BY <2>1, <2>2 DEF Inv, AloneInv, LabelInv
<1>5. CASE StrategyFails(e)
  BY <1>5, <1>0 DEF StrategyFails, Inv, TypeOK, PhaseInv, AloneInv, LabelInv, Shown
<1>6. CASE CommitNotFound(e)
  BY <1>6, <1>0 DEF CommitNotFound, Inv, TypeOK, PhaseInv, AloneInv, LabelInv, Shown
<1>7. CASE MergeFails(e)
  BY <1>7, <1>0 DEF MergeFails, Inv, TypeOK, PhaseInv, AloneInv, LabelInv, Shown
<1>8. CASE MergeConflict(e)
  BY <1>8, <1>0 DEF MergeConflict, Inv, TypeOK, PhaseInv, AloneInv, LabelInv, Shown
<1>9. CASE AfterMerge(e)
  BY <1>9, <1>0 DEF AfterMerge, Inv, TypeOK, PhaseInv, AloneInv, LabelInv, Shown
<1>10. CASE StartCheck(e)
  BY <1>10, <1>0 DEF StartCheck, Inv, TypeOK, PhaseInv, AloneInv, LabelInv, Shown
<1>11. CASE CheckPasses(e)
  BY <1>11, <1>0 DEF CheckPasses, Inv, TypeOK, PhaseInv, AloneInv, LabelInv, Shown
<1>12. CASE CheckFails(e)
  BY <1>12, <1>0 DEF CheckFails, Inv, TypeOK, PhaseInv, AloneInv, LabelInv, Shown
<1>13. CASE CompleteWithErrors(e)
  BY <1>13, <1>0 DEF CompleteWithErrors, Inv, TypeOK, PhaseInv, AloneInv, LabelInv, Shown
<1>14. CASE StartMeta(e)
  BY <1>14, <1>0 DEF StartMeta, Inv, TypeOK, PhaseInv, AloneInv, LabelInv, Shown
<1>15. CASE MetaFails(e)
  BY <1>15, <1>0 DEF MetaFails, Inv, TypeOK, PhaseInv, AloneInv, LabelInv, Shown
<1>16. CASE MetaPasses(e)
  BY <1>16, <1>0 DEF MetaPasses, Inv, TypeOK, PhaseInv, AloneInv, LabelInv, Shown
<1>17. CASE GenericPasses(e)
  BY <1>17, <1>0 DEF GenericPasses, Inv, TypeOK, PhaseInv, AloneInv, LabelInv, Shown
<1>18. CASE Succeed(e)
  BY <1>18, <1>0 DEF Succeed, Inv, TypeOK, PhaseInv, AloneInv, LabelInv, Shown
<1>19. CASE Publish(e)
  BY <1>19, <1>0 DEF Publish, Inv, TypeOK, PhaseInv, AloneInv, LabelInv, Shown
<1>20. CASE AckJob(e)
  BY <1>20, <1>0 DEF AckJob, Inv, TypeOK, PhaseInv, AloneInv, LabelInv, Shown
<1>21. CASE Crash(e)
  BY <1>21, <1>0 DEF Crash, Inv, TypeOK, PhaseInv, AloneInv, LabelInv, Shown
<1> QED
  BY <1>1, <1>2, <1>3, <1>4, <1>5, <1>6, <1>7, <1>8, <1>9, <1>10, <1>11, <1>12, <1>13, <1>14, <1>15, <1>16, <1>17, <1>18, <1>19, <1>20, <1>21 DEF Step

LEMMA AloneStep ==
  ASSUME Inv, NEW e \in Evaluators, Step(e) \/ Crash(e)
  PROVE  AloneInv'
<1> SUFFICES ASSUME Alone
             PROVE  LabelInv' /\ \A f \in Evaluators : Shown(f)'
  BY SiteFixed DEF AloneInv, Alone
<1>1. \A f \in Evaluators \ {e} : phase'[f] = "idle"
  BY OnlyOne
<1>2. \A f \in Evaluators \ {e} : Shown(f)'
  BY <1>1 DEF Shown, Judging, Reports
<1> QED
  BY <1>2, ShownStep, LabelStep

-----------------------------------------------------------------------------
(* The invariant.                                                            *)

\* People change the issue.
LEMMA ChangeStep ==
  ASSUME Inv, NEW now \in [open : BOOLEAN, wip : BOOLEAN, conflict : BOOLEAN],
         now.conflict = issue.conflict, Change(now)
  PROVE  Inv'
<1>1. TypeOK'
  BY DEF Inv, TypeOK, Change
<1>2. CountInv' /\ PhaseInv' /\ PendingInv'
  BY DEF Inv, CountInv, PhaseInv, PendingInv, Busy, Readers, Change
<1>3. changes' # 0
  BY DEF Inv, TypeOK, Change
<1>4. AnswerInv' /\ BuildInv'
  BY <1>3 DEF Inv, AnswerInv, BuildInv, Change
<1>5. ReadyInv'
  BY DEF Inv, TypeOK, ReadyInv, ReadyAt, Change
<1>6. AloneInv'
  BY DEF Inv, AloneInv, Alone, LabelInv, Shown, Green, Change
<1> QED
  BY <1>1, <1>2, <1>4, <1>5, <1>6 DEF Inv

LEMMA Stutter ==
  ASSUME Inv, UNCHANGED vars
  PROVE  Inv'
<1>1. TypeOK' /\ CountInv' /\ PhaseInv'
  BY DEF Inv, TypeOK, CountInv, Busy, Readers, PhaseInv, vars
<1>2. PendingInv' /\ AnswerInv'
  BY DEF Inv, PendingInv, AnswerInv, vars
<1>3. BuildInv' /\ ReadyInv'
  BY DEF Inv, BuildInv, Owes, ReadyInv, ReadyAt, vars
<1>4. AloneInv'
  BY DEF Inv, AloneInv, Alone, LabelInv, Shown, Green, vars
<1> QED
  BY <1>1, <1>2, <1>3, <1>4 DEF Inv

LEMMA Initially == Init => Inv
<1> SUFFICES ASSUME Init PROVE Inv
  OBVIOUS
<1>1. TypeOK
  <2>1. <<>> \in Seq(Queues)
    BY ArchQueues
  <2>2. site \in Sites /\ queue \in Nat /\ site.crashes \in Nat
    BY DEF Init
  <2>3. check \in [Evaluators -> 1..(NChecks + 1)]
    BY Contexts0 DEF Init
  <2>4. /\ issue \in [open : BOOLEAN, wip : BOOLEAN, conflict : BOOLEAN]
        /\ busy \in [Evaluators -> BOOLEAN] /\ ready \in [Evaluators -> BOOLEAN]
        /\ phase \in [Evaluators -> Phases] /\ status \in [Contexts -> States]
    BY DEF Init, Phases, States
  <2>5. /\ archs \in [Evaluators -> {<<>>, BuildArchs}] /\ response \in [Evaluators -> Seq(Queues)]
        /\ builds \subseteq Queues /\ conflicts \in BOOLEAN
    BY <2>1 DEF Init
  <2>6. dropped \in Nat /\ changes \in Nat /\ crashes \in 0..site.crashes
    BY <2>2 DEF Init
  <2> QED
    BY <2>2, <2>3, <2>4, <2>5, <2>6 DEF TypeOK
<1>2. CountInv
  <2>1. Busy = {} /\ Readers = {}
    BY DEF Init, Busy, Readers
  <2>2. Cardinality(Busy) = 0 /\ Cardinality(Readers) = 0
    BY <2>1, FS_EmptySet
  <2>3. queue = site.jobs /\ dropped = 0 /\ crashes = 0 /\ site.jobs \in Nat
    BY DEF Init
  <2>4. queue + Cardinality(Busy) <= site.jobs /\ dropped + queue + Cardinality(Readers) <= site.jobs + crashes
    BY <2>2, <2>3
  <2> QED
    BY <2>4 DEF Init, CountInv
<1>3. PhaseInv
  BY DEF Init, PhaseInv
<1>4. queue > 0
  BY DEF Init
<1>5. PendingInv
  BY <1>4, Contexts0 DEF Init, PendingInv, Pending
<1>6. AnswerInv
  BY DEF Init, AnswerInv, Judging, Reports
<1>7. BuildInv
  BY <1>4 DEF BuildInv
<1>8. ReadyInv
  <2>1. ToSet(<<>>) = {}
    BY DEF ToSet
  <2> QED
    BY <2>1 DEF Init, ReadyInv, ReadyAt, Judging, Reports
<1>9. AloneInv
  BY DEF Init, AloneInv, LabelInv, Shown, Judging, Reports
<1> QED
  BY <1>1, <1>2, <1>3, <1>5, <1>6, <1>7, <1>8, <1>9 DEF Inv

LEMMA Kept ==
  ASSUME Inv, [Next]_vars
  PROVE  Inv'
<1>1. ASSUME NEW e \in Evaluators, Step(e) \/ Crash(e)
      PROVE  Inv'
  BY <1>1, TypeStep, CountStep, PhaseStep, PendingStep, AnswerStep, BuildStep, ReadyStep, AloneStep DEF Inv
<1>2. CASE Change([issue EXCEPT !.open = ~@])
  BY <1>2, ChangeStep DEF Inv, TypeOK
<1>3. CASE Change([issue EXCEPT !.wip = ~@])
  BY <1>3, ChangeStep DEF Inv, TypeOK
<1> QED
  BY <1>1, <1>2, <1>3, Stutter DEF Next

\* What evaluators and GitHub owe each other holds in every state.
THEOREM Invariant == Spec => []Inv
<1>1. Inv /\ [Next]_vars => Inv'
  BY Kept
<1> QED
  BY Initially, <1>1, PTL DEF Spec

-----------------------------------------------------------------------------
(* What follows from it.                                                    *)

LEMMA TypesFollow == Inv => TypeInv
<1> SUFFICES ASSUME Inv PROVE TypeInv
  OBVIOUS
<1>1. dropped \in 0..(site.jobs + site.crashes)
  <2>1. Cardinality(Readers) \in Nat
    BY FS_Subset, FS_CardinalityType DEF Readers
  <2>2. /\ dropped \in Nat /\ queue \in Nat /\ crashes \in 0..site.crashes
        /\ site.jobs \in Nat /\ site.crashes \in Nat
        /\ dropped + queue + Cardinality(Readers) <= site.jobs + crashes
    BY DEF Inv, TypeOK, CountInv
  <2> QED
    BY <2>1, <2>2
<1> QED
  BY <1>1 DEF Inv, TypeOK, CountInv, TypeInv, Busy, Queues, States, Pending

LEMMA QuietSettled ==
  ASSUME Inv, Quiet
  PROVE  NothingLeftPending /\ GreenBringsBuilds /\ ConflictLabelRight
<1>1. NothingLeftPending
  <2>1. ~(queue > 0) /\ \A e \in Evaluators : phase[e] = "idle"
    BY DEF Quiet
  <2>a. dropped \in Nat /\ crashes \in Nat
    BY DEF Inv, TypeOK
  <2>b. \A e \in Evaluators : phase[e] \notin Judging \cup Early
    BY <2>1 DEF Judging, Reports, Early
  <2>2. status[Eval] \in {"none", Pending} => dropped > 0
    <3>1. status[Eval] \in {"none", Pending} => dropped # 0
      <4>1. status[Eval] \in {"none", Pending} /\ dropped = 0 =>
               queue > 0 \/ \E e \in Evaluators : phase[e] \in Judging \cup Early
        BY DEF Inv, PendingInv
      <4> QED
        BY <2>1, <2>b, <4>1
    <3> QED
      BY <2>a, <3>1
  <2>3. status[Eval] = Pending => crashes > 0
    <3>1. status[Eval] = Pending => crashes # 0
      BY <2>1, <2>b DEF Inv, PendingInv
    <3> QED
      BY <2>a, <3>1
  <2>4. crashes = 0 => \A c \in Contexts : status[c] # Pending
    BY <2>1 DEF Inv, PendingInv, Judging, Reports, Early, Contexts
  <2> QED
    BY <2>2, <2>3, <2>4 DEF NothingLeftPending
<1>2. GreenBringsBuilds
  <2>1. \A e \in Evaluators : ~Owes(e)
    BY DEF Quiet, Owes, Judging, Reports, Early
  <2>2. ~(queue > 0) /\ builds \subseteq Queues
    BY DEF Quiet, Inv, TypeOK
  <2> QED
    BY <2>1, <2>2 DEF Inv, BuildInv, AnswerInv, GreenBringsBuilds, Queues
<1>3. ConflictLabelRight
  BY DEF Quiet, Inv, AloneInv, LabelInv, ConflictLabelRight
<1> QED
  BY <1>1, <1>2, <1>3

\* When all evaluations of a head are over, GitHub shows a verdict, the builds
\* that go with it, and the right label (evaluate.rs:131-157, 238-268, 328-361).
THEOREM Settled == Spec => []HeadSettled
<1>1. Inv => HeadSettled
  BY TypesFollow, QuietSettled DEF HeadSettled
<1> QED
  BY Invariant, <1>1, PTL

\* BuildsAreWanted as a relation of two states.
BuildsStep ==
  /\ \A e \in Evaluators :
       response[e] # <<>> /\ response'[e] = Tail(response[e])
          /\ Head(response[e]) # "build-results" => ready[e]
  /\ Alone /\ builds' # builds => status[Eval] = "success"

LEMMA BuildsWanted ==
  ASSUME Inv, [Next]_vars
  PROVE  BuildsStep
<1>1. ASSUME NEW e \in Evaluators, response[e] # <<>>, Head(response[e]) # "build-results"
      PROVE  ready[e]
  <2>1. Head(response[e]) \in ToSet(response[e])
    BY <1>1, SequenceFacts DEF Inv, TypeOK
  <2> QED
    BY <1>1, <2>1 DEF Inv, ReadyInv, ReadyAt
<1>2. ASSUME Alone, builds' # builds
      PROVE  status[Eval] = "success"
  <2>1. PICK e \in Evaluators : Step(e) \/ Crash(e)
    BY <1>2 DEF Next, Change, vars
  <2>2. Publish(e)
    BY <1>2, <2>1 DEF Step, Crash, TakeJob, Skip, ReadIssue, Report, StrategyFails, CommitNotFound, MergeFails, MergeConflict,
       AfterMerge, StartCheck, CheckPasses, CheckFails, CompleteWithErrors, StartMeta, MetaFails,
       MetaPasses, GenericPasses, Succeed, AckJob
  <2> QED
    BY <1>2, <2>2 DEF Publish, Inv, AloneInv, Shown
<1> QED
  BY <1>1, <1>2 DEF BuildsStep

\* Builds on systems are published only for a pull request that was not work in
\* progress at some time since the delivery, and, by an evaluator that is alone,
\* only for a green head (evaluate.rs:139-149, 328-361).
THEOREM Wanted == Spec => BuildsAreWanted
<1>1. Inv /\ [Next]_vars => [BuildsStep]_vars
  BY BuildsWanted
<1> QED
  BY Invariant, <1>1, PTL DEF Spec, BuildsAreWanted, BuildsStep


-----------------------------------------------------------------------------
(* The refinement of CommitVerdict.                                         *)

\* The variables of CommitVerdict.
verdictNow == IF Alone THEN status[Eval] ELSE "none"
passedNow == IF Alone THEN {c \in Checks : ~HasMeta \/ status[c] = "success"} ELSE {}

LEMMA SameVerdict ==
  ASSUME UNCHANGED site,
         UNCHANGED status \/ ~Alone
  PROVE  UNCHANGED <<verdictNow, passedNow>>
BY DEF verdictNow, passedNow, Alone

\* The status of a check changes while the verdict is pending.
LEMMA CheckShown ==
  ASSUME Inv, Alone, HasMeta, UNCHANGED site, status[Eval] = Pending,
         NEW c \in Checks, NEW state, status' = [status EXCEPT ![c] = state]
  PROVE  Verdict!Next
<1>1. c # Eval /\ Checks \subseteq Contexts /\ Eval \in Contexts /\ Alone'
  BY Contexts0 DEF Alone
<1>2. /\ status'[Eval] = status[Eval] /\ status'[c] = state
      /\ \A d \in Checks : d # c => status'[d] = status[d]
  BY <1>1 DEF Inv, TypeOK
<1>3. passedNow' \in {passedNow \cup {c}, passedNow \ {c}}
  <2>1. CASE state = "success"
    <3>1. passedNow' = passedNow \cup {c}
      BY <1>1, <1>2, <2>1 DEF passedNow
    <3> QED
      BY <3>1
  <2>2. CASE state # "success"
    <3>1. passedNow' = passedNow \ {c}
      BY <1>1, <1>2, <2>2 DEF passedNow
    <3> QED
      BY <3>1
  <2> QED
    BY <2>1, <2>2
<1>4. verdictNow = Pending /\ verdictNow' = verdictNow
  BY <1>1, <1>2 DEF verdictNow
<1>5. Verdict!Check(c)
  BY <1>3, <1>4 DEF Verdict!Check, verdictNow, passedNow, Pending
<1> QED
  BY <1>5 DEF Verdict!Next

\* The verdict changes alone.
LEMMA VerdictShown ==
  ASSUME Inv, Alone, UNCHANGED site, NEW state, status' = [status EXCEPT ![Eval] = state]
  PROVE  /\ verdictNow = status[Eval] /\ verdictNow' = state
         /\ UNCHANGED passedNow
<1>1. Eval \notin Checks /\ Checks \subseteq Contexts /\ Eval \in Contexts /\ Alone'
  BY Contexts0 DEF Alone
<1>2. /\ status'[Eval] = state
      /\ \A d \in Checks : status'[d] = status[d]
  BY <1>1 DEF Inv, TypeOK
<1> QED
  BY <1>1, <1>2 DEF verdictNow, passedNow

LEMMA VerdictStep ==
  ASSUME Inv, [Next]_vars
  PROVE  Verdict!Next \/ UNCHANGED <<verdictNow, passedNow>>
<1>1. CASE UNCHANGED <<site, status>>
  BY <1>1, SameVerdict
<1>2. ASSUME NEW e \in Evaluators, Step(e) \/ Crash(e), Alone
      PROVE  Verdict!Next \/ UNCHANGED <<verdictNow, passedNow>>
  <2>0. UNCHANGED site
    BY <1>2, SiteFixed
  <2>1. CASE Report(e)
    <3>1. status' = [status EXCEPT ![Eval] = Pending]
      BY <2>1 DEF Report
    <3>2. Verdict!Begin
      BY <1>2, <2>0, <3>1, VerdictShown DEF Verdict!Begin, verdictNow, passedNow, Pending
    <3> QED
      BY <3>2 DEF Verdict!Next
  <2>2. CASE StrategyFails(e) \/ CommitNotFound(e) \/ MergeFails(e) \/ CompleteWithErrors(e)
    <3>1. PICK state \in {"failure", "error"} : status' = [status EXCEPT ![Eval] = state]
      BY <2>2 DEF StrategyFails, CommitNotFound, MergeFails, CompleteWithErrors
    <3>2. status[Eval] = Pending
      BY <1>2, <2>2 DEF StrategyFails, CommitNotFound, MergeFails, CompleteWithErrors, Inv, AloneInv, Shown, Judging, Reports
    <3>3. Verdict!Reject
      BY <1>2, <2>0, <3>1, <3>2, VerdictShown DEF Verdict!Reject, verdictNow, passedNow, Pending
    <3> QED
      BY <3>3 DEF Verdict!Next
  <2>3. CASE Succeed(e)
    <3>1. status' = [status EXCEPT ![Eval] = "success"]
      BY <2>3 DEF Succeed
    <3>2. status[Eval] = Pending /\ (HasMeta => Green(Meta))
      BY <1>2, <2>3 DEF Succeed, Inv, AloneInv, Shown, Judging, Reports
    <3>3. passedNow = Checks
      BY <1>2, <3>2 DEF passedNow, Green, Checks
    <3>4. Verdict!Succeed
      BY <1>2, <2>0, <3>1, <3>2, <3>3, VerdictShown DEF Verdict!Succeed, verdictNow, passedNow, Pending
    <3> QED
      BY <3>4 DEF Verdict!Next
  <2>4. CASE StartCheck(e) \/ CheckPasses(e) \/ CheckFails(e)
    <3>1. PICK state : status' = [status EXCEPT ![check[e]] = state]
      BY <2>4 DEF StartCheck, CheckPasses, CheckFails
    <3>2. status[Eval] = Pending
      BY <1>2, <2>4 DEF StartCheck, CheckPasses, CheckFails, Inv, AloneInv, Shown, Judging, Reports
    <3>3. HasMeta /\ check[e] \in Checks
      <4>1. check[e] \in 1..(NChecks + 1)
        BY DEF Inv, TypeOK
      <4>2. CASE StartCheck(e)
        <5>1. check[e] <= CheckCount /\ (~HasMeta => CheckCount = 0)
          BY <4>2 DEF StartCheck, CheckCount
        <5> QED
          BY <4>1, <5>1 DEF Checks, Meta
      <4>3. CASE CheckPasses(e) \/ CheckFails(e)
        BY <4>1, <4>3 DEF CheckPasses, CheckFails, Inv, PhaseInv, Checks, Meta
      <4> QED
        BY <2>4, <4>2, <4>3
    <3> QED
      BY <1>2, <2>0, <3>1, <3>2, <3>3, CheckShown
  <2>5. CASE StartMeta(e) \/ MetaFails(e) \/ MetaPasses(e)
    <3>1. PICK state : status' = [status EXCEPT ![Meta] = state]
      BY <2>5 DEF StartMeta, MetaFails, MetaPasses
    <3>2. status[Eval] = Pending
      BY <1>2, <2>5 DEF StartMeta, MetaFails, MetaPasses, Inv, AloneInv, Shown, Judging, Reports
    <3>3. HasMeta /\ Meta \in Checks
      BY <2>5, Contexts0 DEF StartMeta, MetaFails, MetaPasses, Inv, PhaseInv
    <3> QED
      BY <1>2, <2>0, <3>1, <3>2, <3>3, CheckShown
  <2>6. CASE TakeJob(e) \/ Skip(e) \/ ReadIssue(e) \/ MergeConflict(e) \/ AfterMerge(e)
             \/ GenericPasses(e) \/ Publish(e) \/ AckJob(e) \/ Crash(e)
    <3>1. UNCHANGED status
      BY <2>6 DEF TakeJob, Skip, ReadIssue, MergeConflict, AfterMerge, GenericPasses, Publish, AckJob, Crash
    <3> QED
      BY <2>0, <3>1, SameVerdict
  <2> QED
    BY <1>2, <2>1, <2>2, <2>3, <2>4, <2>5, <2>6 DEF Step
<1>3. ASSUME NEW e \in Evaluators, Step(e) \/ Crash(e), ~Alone
      PROVE  UNCHANGED <<verdictNow, passedNow>>
  BY <1>3, SiteFixed, SameVerdict
<1> QED
  BY <1>1, <1>2, <1>3 DEF Next, Change, vars

\* One evaluator implements the verdict of CommitVerdict: a head is green only
\* when every check of its last evaluation is, through crashes and repeated
\* evaluations (evaluate.rs:285-359, nixpkgs.rs:290-344).
THEOREM VerdictRefined == Spec => RefinesCommitVerdict
<1>1. Init => Verdict!Init
  <2>1. ASSUME Init PROVE verdictNow = "none" /\ passedNow \in SUBSET Checks
    BY <2>1, Contexts0 DEF Init, verdictNow, passedNow
  <2> QED
    BY <2>1 DEF Verdict!Init, verdictNow, passedNow
<1>2. Inv /\ [Next]_vars => [Verdict!Next]_<<verdictNow, passedNow>>
  BY VerdictStep
<1>3. [Verdict!Next]_<<verdictNow, passedNow>> =>
        [Verdict!Next]_<<IF Alone THEN status[Eval] ELSE "none",
                         IF Alone THEN {c \in Checks : ~HasMeta \/ status[c] = "success"} ELSE {}>>
  BY DEF verdictNow, passedNow
<1> QED
  BY <1>1, <1>2, <1>3, Invariant, PTL DEF Spec, RefinesCommitVerdict, Verdict!Spec
=============================================================================
