----------------------------- MODULE Evaluation -----------------------------
(***************************************************************************)
(* ofborg/src/tasks/evaluate.rs with the strategies of tasks/eval: the      *)
(* evaluation of one head of one pull request, run by worker.rs.            *)
(*                                                                          *)
(* An evaluator takes a job, reads the issue, and reports on GitHub how far *)
(* it is: the commit status "grahamcofborg-eval", a status for every check, *)
(* one for the meta data, and the label of a merge conflict.  When all is   *)
(* well it answers with builds.  An error of GitHub or git panics, which is *)
(* a crash: the job is delivered again.  Descriptions are left out, and so  *)
(* are the other labels (module Labels) and git (module Checkout).          *)
(***************************************************************************)
EXTENDS Integers, Sequences, SequencesExt, FiniteSets

CONSTANTS
    Evaluators,
    NChecks,        \* the checks of the nixpkgs strategy (9)
    BuildArchs,     \* the systems the author may have builds on, in order
    Sites           \* the instances to look at, each with
                    \*   team:    the evaluators at work
                    \*   nixpkgs: the repository is nixpkgs: it has checks and meta data
                    \*   named:   the commit messages name packages, ten at most
                    \*   jobs:    bound: the evaluation jobs for this head
                    \*   changes: bound: what people do to the pull request
                    \*   crashes: bound: evaluators that die

ASSUME EvaluationAssumption ==
    /\ IsFiniteSet(Evaluators) /\ NChecks \in Nat /\ BuildArchs \in Seq(STRING)
    /\ \A s \in Sites :
          /\ s.team \subseteq Evaluators /\ s.nixpkgs \in BOOLEAN /\ s.named \in BOOLEAN
          /\ s.jobs \in Nat \ {0} /\ s.changes \in Nat /\ s.crashes \in Nat

VARIABLES
    site,       \* the instance it is, which does not change
    issue,      \* open, wip, and the label of a merge conflict
    queue,      \* mass-rebuild-check-jobs: how many jobs wait
    busy,       \* busy[e]: e has a job it has not acknowledged
    phase,      \* phase[e]: where the consumer is
    check,      \* check[e]: the check it is at
    archs,      \* archs[e]: auto_schedule_build_archs
    response,   \* response[e]: the queues it has yet to publish to
    status,     \* status[c]: the commit status of the context c
    builds,     \* the systems builds were published for, with "build-results"
    conflicts,  \* the last merge did not work
    ready,      \* ready[e]: the issue was not in progress at some time since the delivery
    dropped,    \* jobs that were acknowledged without an evaluation
    changes, crashes

workVars == <<queue, busy, phase, check, archs, response>>
githubVars == <<status, builds, conflicts>>
vars == <<site, issue, workVars, githubVars, ready, dropped, changes, crashes>>

HasMeta == site.nixpkgs
Named == site.named

\* The contexts by number: grahamcofborg-eval, the checks, and behind them
\* the meta data.  Other repositories have none but the first.
Eval == 0
Meta == NChecks + 1
Checks == 1..Meta
Contexts == Checks \cup {Eval}
CheckCount == IF HasMeta THEN NChecks ELSE 0
Pending == "pending"

Init ==
    /\ site \in Sites
    /\ issue = [open |-> TRUE, wip |-> FALSE, conflict |-> FALSE]
    /\ queue = site.jobs
    /\ busy = [e \in Evaluators |-> FALSE]
    /\ phase = [e \in Evaluators |-> "idle"]
    /\ check = [e \in Evaluators |-> 1]
    /\ archs = [e \in Evaluators |-> <<>>]
    /\ response = [e \in Evaluators |-> <<>>]
    /\ status = [c \in Contexts |-> "none"]
    /\ builds = {}
    /\ conflicts = FALSE
    /\ ready = [e \in Evaluators |-> FALSE]
    /\ dropped = 0
    /\ changes = 0
    /\ crashes = 0

-----------------------------------------------------------------------------
(* The consumer, from the delivery to its answer.                            *)

Goto(e, next) == phase' = [phase EXCEPT ![e] = next]
Set(context, state) == status' = [status EXCEPT ![context] = state]

\* What the steps between a delivery and its answer leave alone.
Untouched == UNCHANGED <<site, queue, busy, ready, dropped, changes, crashes>>

TakeJob(e) ==
    /\ e \in site.team /\ phase[e] = "idle" /\ queue > 0
    /\ queue' = queue - 1
    /\ busy' = [busy EXCEPT ![e] = TRUE]
    /\ ready' = [ready EXCEPT ![e] = ~issue.wip]
    /\ Goto(e, "reading")
    /\ UNCHANGED <<site, issue, check, archs, response, githubVars, dropped, changes, crashes>>

\* Mutant: skip() answers with no actions.
Skip_NoAck(e) ==
    /\ phase[e] = "reading"
    /\ dropped' = dropped + 1
    /\ Goto(e, "stuck")
    /\ UNCHANGED <<site, issue, queue, busy, check, archs, response, githubVars, ready, changes, crashes>>

\* The issue is closed, or cannot be fetched.
Skip(e) ==
    /\ phase[e] = "reading"
    /\ dropped' = dropped + 1
    /\ Goto(e, "answering")
    /\ UNCHANGED <<site, issue, queue, busy, check, archs, response, githubVars, ready, changes, crashes>>

\* Mutant: work in progress is not asked about.
ReadIssue_NotWip(e) ==
    /\ phase[e] = "reading" /\ issue.open
    /\ archs' = [archs EXCEPT ![e] = BuildArchs]
    /\ Goto(e, "starting")
    /\ UNCHANGED <<issue, check, response, githubVars>> /\ Untouched

ReadIssue(e) ==
    /\ phase[e] = "reading" /\ issue.open
    /\ archs' = [archs EXCEPT ![e] = IF issue.wip THEN <<>> ELSE BuildArchs]
    /\ Goto(e, "starting")
    /\ UNCHANGED <<issue, check, response, githubVars>> /\ Untouched

\* The stages that say "pending" again, and what each leads to: the stdenvs and
\* the paths are looked at for nixpkgs, on the target branch and on the merge.
Onward ==
    [starting |-> "cloning", cloning |-> "checkout",
     checkout |-> IF HasMeta THEN "stdenvs" ELSE "fetching",
     stdenvs |-> "paths", paths |-> "fetching", fetching |-> "merging", merging |-> "merge",
     newStdenvs |-> "newPaths", newPaths |-> "beginning", beginning |-> "merged"]

\* The last one is all_evaluations_passed, before the meta data.
Report(e) ==
    /\ \/ /\ phase[e] \in DOMAIN Onward
          /\ Goto(e, Onward[phase[e]])
       \/ /\ HasMeta /\ phase[e] = "merged" /\ check[e] > CheckCount
          /\ Goto(e, "measuring")
    /\ Set(Eval, Pending)
    /\ UNCHANGED <<issue, check, archs, response, builds, conflicts>> /\ Untouched

\* Mutant: the consumer skips without a status.
StrategyFails_Silent(e) ==
    /\ HasMeta
    /\ phase[e] \in {"fetching", "beginning"}
    /\ Goto(e, "answering")
    /\ UNCHANGED <<issue, check, archs, response, githubVars>> /\ Untouched

\* handle_strategy_err: the target branch, or the merge, does not evaluate.
StrategyFails(e) ==
    /\ HasMeta
    /\ phase[e] \in {"fetching", "beginning"}
    /\ Set(Eval, "failure")
    /\ Goto(e, "answering")
    /\ UNCHANGED <<issue, check, archs, response, builds, conflicts>> /\ Untouched

CommitNotFound(e) ==
    /\ phase[e] = "merging"
    /\ Set(Eval, "error")
    /\ Goto(e, "answering")
    /\ UNCHANGED <<issue, check, archs, response, builds, conflicts>> /\ Untouched

MergeFails(e) ==
    /\ phase[e] = "merge"
    /\ Set(Eval, "failure")
    /\ conflicts' = TRUE
    /\ Goto(e, IF HasMeta THEN "labelling" ELSE "answering")
    /\ UNCHANGED <<issue, check, archs, response, builds>> /\ Untouched

MergeConflict(e) ==
    /\ phase[e] = "labelling"
    /\ issue' = [issue EXCEPT !.conflict = TRUE]
    /\ Goto(e, "answering")
    /\ UNCHANGED <<check, archs, response, githubVars>> /\ Untouched

\* The merge, and after_merge: the label goes first.
AfterMerge(e) ==
    /\ phase[e] = "merge"
    /\ conflicts' = FALSE
    /\ issue' = [issue EXCEPT !.conflict = @ /\ ~HasMeta]
    /\ check' = [check EXCEPT ![e] = 1]
    /\ Goto(e, IF HasMeta THEN "newStdenvs" ELSE "beginning")
    /\ UNCHANGED <<archs, response, status, builds>> /\ Untouched

-----------------------------------------------------------------------------
(* The checks, one after the other until one fails.                          *)

StartCheck(e) ==
    /\ phase[e] = "merged" /\ check[e] <= CheckCount
    /\ Set(check[e], Pending)
    /\ Goto(e, "checking")
    /\ UNCHANGED <<issue, check, archs, response, builds, conflicts>> /\ Untouched

CheckPasses(e) ==
    /\ phase[e] = "checking"
    /\ Set(check[e], "success")
    /\ check' = [check EXCEPT ![e] = @ + 1]
    /\ Goto(e, "merged")
    /\ UNCHANGED <<issue, archs, response, builds, conflicts>> /\ Untouched

\* Mutant: the checks go on, and the last one decides.
CheckFails_GoesOn(e) ==
    /\ phase[e] = "checking"
    /\ Set(check[e], "failure")
    /\ check' = [check EXCEPT ![e] = @ + 1]
    /\ Goto(e, IF check[e] < NChecks THEN "merged" ELSE "failed")
    /\ UNCHANGED <<issue, archs, response, builds, conflicts>> /\ Untouched

\* all() stops at the first check that does not pass: the iterator is lazy.
CheckFails(e) ==
    /\ phase[e] = "checking"
    /\ Set(check[e], "failure")
    /\ Goto(e, "failed")
    /\ UNCHANGED <<issue, check, archs, response, builds, conflicts>> /\ Untouched

CompleteWithErrors(e) ==
    /\ phase[e] \in {"failed", "meta failed"}
    /\ Set(Eval, "failure")
    /\ Goto(e, "answering")
    /\ UNCHANGED <<issue, check, archs, response, builds, conflicts>> /\ Untouched

-----------------------------------------------------------------------------
(* all_evaluations_passed, and the builds.                                   *)

StartMeta(e) ==
    /\ phase[e] = "measuring"
    /\ Set(Meta, Pending)
    /\ Goto(e, "meta")
    /\ UNCHANGED <<issue, check, archs, response, builds, conflicts>> /\ Untouched

MetaFails(e) ==
    /\ phase[e] = "meta"
    /\ Set(Meta, "failure")
    /\ Goto(e, "meta failed")
    /\ UNCHANGED <<issue, check, archs, response, builds, conflicts>> /\ Untouched

\* Packages named by the commit messages are built on every system, and the
\* build jobs are announced; none if there are none of them, or more than ten.
MetaPasses(e) ==
    /\ phase[e] = "meta"
    /\ Set(Meta, "success")
    /\ response' = [response EXCEPT ![e] =
          IF Named THEN Append(archs[e], "build-results") ELSE <<>>]
    /\ Goto(e, "passed")
    /\ UNCHANGED <<issue, check, archs, builds, conflicts>> /\ Untouched

\* Nothing is checked for a repository that is not nixpkgs.
GenericPasses(e) ==
    /\ ~HasMeta
    /\ phase[e] = "merged" /\ check[e] > CheckCount
    /\ Goto(e, "passed")
    /\ UNCHANGED <<issue, check, archs, response, githubVars>> /\ Untouched

Succeed(e) ==
    /\ phase[e] = "passed"
    /\ Set(Eval, "success")
    /\ Goto(e, "answering")
    /\ UNCHANGED <<issue, check, archs, response, builds, conflicts>> /\ Untouched

\* worker.rs carries out the answer.
Publish(e) ==
    /\ phase[e] = "answering" /\ response[e] # <<>>
    /\ builds' = builds \cup {Head(response[e])}
    /\ response' = [response EXCEPT ![e] = Tail(@)]
    /\ UNCHANGED <<issue, phase, check, archs, status, conflicts>> /\ Untouched

AckJob(e) ==
    /\ phase[e] = "answering" /\ response[e] = <<>>
    /\ busy' = [busy EXCEPT ![e] = FALSE]
    /\ Goto(e, "idle")
    /\ UNCHANGED <<site, issue, queue, check, archs, response, githubVars, ready, dropped, changes, crashes>>

-----------------------------------------------------------------------------

\* The evaluator dies, or panics; RabbitMQ delivers its job again.
Crash(e) ==
    /\ phase[e] # "idle" /\ crashes < site.crashes
    /\ queue' = queue + (IF busy[e] THEN 1 ELSE 0)
    /\ busy' = [busy EXCEPT ![e] = FALSE]
    /\ Goto(e, "idle")
    /\ response' = [response EXCEPT ![e] = <<>>]
    /\ crashes' = crashes + 1
    /\ UNCHANGED <<site, issue, check, archs, githubVars, ready, dropped, changes>>

\* People close and reopen the pull request, and mark it as work in progress.
Change(now) ==
    /\ changes < site.changes
    /\ changes' = changes + 1
    /\ issue' = now
    /\ ready' = [e \in Evaluators |-> ready[e] \/ ~now.wip]
    /\ UNCHANGED <<site, workVars, githubVars, dropped, crashes>>

Step(e) ==
    \/ TakeJob(e) \/ Skip(e) \/ ReadIssue(e) \/ Report(e)
    \/ StrategyFails(e) \/ CommitNotFound(e) \/ MergeFails(e) \/ MergeConflict(e) \/ AfterMerge(e)
    \/ StartCheck(e) \/ CheckPasses(e) \/ CheckFails(e) \/ CompleteWithErrors(e)
    \/ StartMeta(e) \/ MetaFails(e) \/ MetaPasses(e)
    \/ GenericPasses(e) \/ Succeed(e) \/ Publish(e) \/ AckJob(e)

Next ==
    \/ \E e \in Evaluators : Step(e) \/ Crash(e)
    \/ Change([issue EXCEPT !.open = ~@])
    \/ Change([issue EXCEPT !.wip = ~@])

\* Evaluators are restarted, and nix and git end.
Spec == Init /\ [][Next]_vars /\ \A e \in Evaluators : WF_vars(Step(e))

-----------------------------------------------------------------------------

TypeInv ==
    /\ site \in Sites
    /\ status \in [Contexts -> {"none", Pending, "success", "failure", "error"}]
    /\ check \in [Evaluators -> 1..(NChecks + 1)]
    /\ builds \subseteq ToSet(BuildArchs) \cup {"build-results"}
    /\ \A e \in Evaluators : busy[e] <=> phase[e] # "idle"
    /\ queue + Cardinality({e \in Evaluators : busy[e]}) <= site.jobs
    /\ dropped \in 0..(site.jobs + site.crashes)

Quiet == queue = 0 /\ \A e \in Evaluators : phase[e] = "idle"

\* The head has a verdict, unless a job was dropped because the issue was
\* closed or could not be fetched; a status that is still pending is what a
\* crash left.
NothingLeftPending ==
    /\ status[Eval] \in {"none", Pending} => dropped > 0
    /\ status[Eval] = Pending => crashes > 0
    /\ crashes = 0 => \A c \in Contexts : status[c] # Pending

\* A green head has the builds of its packages on all systems of its author,
\* and they are announced: a crash between the green status and the builds does
\* not lose them.  Unless somebody changed the issue, or it could not be fetched.
GreenBringsBuilds ==
    status[Eval] = "success" /\ changes = 0 /\ dropped = 0 /\ HasMeta =>
        builds = IF Named THEN ToSet(BuildArchs) \cup {"build-results"} ELSE {}

\* Two evaluators with the same head mix their statuses and labels: some of
\* what follows is said of one that is alone.
Alone == Cardinality(site.team) = 1

\* The label of a conflict is there only if the last merge did not work; that
\* it is there then is sure when nothing died between the status and the label.
ConflictLabelRight ==
    HasMeta /\ Alone => /\ issue.conflict => conflicts
                        /\ conflicts /\ crashes = 0 => issue.conflict

\* When all evaluations of a head are over, through crashes and repeated
\* evaluations, also by two evaluators at once, GitHub shows what came out:
\* a verdict, the builds that go with it, and the right label
\* (evaluate.rs:131-157, 238-268, 328-361, 374-404, nixpkgs.rs:384-397).
HeadSettled ==
    TypeInv /\ (Quiet => NothingLeftPending /\ GreenBringsBuilds /\ ConflictLabelRight)

\* "To disable automatic building of packages on a PR, add [WIP]"
\* (README.md:30): builds are scheduled only if the pull request was not work in
\* progress at some time since its evaluation was delivered; and only for a
\* head that is green, never before the meta data is checked, and never by an
\* evaluation that fails (evaluate.rs:139-149, 328-361).
BuildsAreWanted ==
    [][/\ \A e \in Evaluators :
            response[e] # <<>> /\ response'[e] = Tail(response[e])
               /\ Head(response[e]) # "build-results" => ready[e]
       /\ Alone /\ builds' # builds => status[Eval] = "success"]_vars

\* Every evaluation comes to its end.
EvaluationsEnd == <>[]Quiet

Verdict == INSTANCE CommitVerdict WITH
    verdict <- IF Alone THEN status[Eval] ELSE "none",
    passed <- IF Alone THEN {c \in Checks : ~HasMeta \/ status[c] = "success"} ELSE {}

\* One evaluator implements the verdict of CommitVerdict: a head is green only
\* when all checks of its last evaluation are, at every moment and through
\* repeated evaluations and crashes (evaluate.rs:285-359, nixpkgs.rs:290-344).
RefinesCommitVerdict == Verdict!Spec
=============================================================================
