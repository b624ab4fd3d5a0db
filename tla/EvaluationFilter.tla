-------------------------- MODULE EvaluationFilter --------------------------
(***************************************************************************)
(* ofborg/src/tasks/evaluationfilter.rs: which of the pull_request events   *)
(* of GitHub lead to an evaluation.                                         *)
(*                                                                          *)
(* The author of one pull request opens, pushes, edits, closes and reopens  *)
(* it; every event carries the pull request as it was at that moment.  The  *)
(* filter takes the events from its durable queue one at a time.            *)
(***************************************************************************)
EXTENDS Acl, Integers, Sequences, SequencesExt

CONSTANTS
    Repository,     \* the full name of the repository
    Bases,          \* the branches a pull request can be made against
    MaxEvents,      \* bound: what the author does
    MaxCrashes      \* bound: filters that die

VARIABLES
    pr,         \* state, head and base of the pull request
    branch,     \* the commit its branch is at
    happened,   \* how many events there were
    events,     \* the queue mass-rebuild-check-inputs
    todo,       \* what the filter has yet to do for the first event
    jobs,       \* what was published to mass-rebuild-check-jobs
    crashes

vars == <<pr, branch, happened, events, todo, jobs, crashes>>

\* The actions of PullRequestAction that matter, one for all the others it
\* knows, and one for those it does not: msg_to_job fails for these.
Actions == {"opened", "synchronize", "reopened", "edited", "closed", "labeled", "unknown"}

\* base_changed: changes.base is there, on an edited pull request.
Event(action, now, base_changed) ==
    [action |-> action, pull_request |-> now, base_changed |-> base_changed]

Job(event) == [head |-> event.pull_request.head, base |-> event.pull_request.base]

Init ==
    \E base \in Bases :
        /\ pr = [state |-> "open", head |-> 0, base |-> base]
        /\ branch = 0
        /\ happened = 1
        /\ events = <<Event("opened", pr, FALSE)>>
        /\ todo = <<>>
        /\ jobs = <<>>
        /\ crashes = 0

-----------------------------------------------------------------------------
(* The author, and GitHub.                                                   *)

Happens(action, now, base_changed) ==
    /\ happened < MaxEvents
    /\ happened' = happened + 1
    /\ pr' = now
    /\ events' = Append(events, Event(action, now, base_changed))
    /\ UNCHANGED <<todo, jobs, crashes>>

Push ==
    /\ branch' = branch + 1
    /\ pr.state = "open"
    /\ Happens("synchronize", [pr EXCEPT !.head = branch + 1], FALSE)

\* A closed pull request does not follow its branch, and no event is sent.
PushWhileClosed ==
    /\ pr.state = "closed" /\ happened < MaxEvents
    /\ branch' = branch + 1
    /\ happened' = happened + 1
    /\ UNCHANGED <<pr, events, todo, jobs, crashes>>

Close ==
    /\ pr.state = "open"
    /\ Happens("closed", [pr EXCEPT !.state = "closed"], FALSE)
    /\ UNCHANGED branch

Reopen ==
    /\ pr.state = "closed"
    /\ Happens("reopened", [pr EXCEPT !.state = "open", !.head = branch], FALSE)
    /\ UNCHANGED branch

ChangeBase(base) ==
    /\ pr.state = "open" /\ base # pr.base
    /\ Happens("edited", [pr EXCEPT !.base = base], TRUE)
    /\ UNCHANGED branch

\* The title is edited, a label is set, or something newer than the filter.
ChangeElse(action) ==
    /\ Happens(action, pr, FALSE)
    /\ UNCHANGED branch

-----------------------------------------------------------------------------
(* The filter.                                                               *)

\* Mutant: what was edited is not looked at.
Interesting_AnyEdit(event) ==
    event.action \in {"opened", "synchronize", "reopened", "edited"}

Interesting(event) ==
    \/ event.action \in {"opened", "synchronize", "reopened"}
    \/ event.action = "edited" /\ event.base_changed

\* The worker's answer to an event; one that does not decode is acknowledged.
Response(event) ==
    IF /\ event.action # "unknown"
       /\ IsRepoEligible(Repository)
       /\ event.pull_request.state = "open"
       /\ Interesting(event)
    THEN <<"publish", "ack">>
    ELSE <<"ack">>

Take ==
    /\ todo = <<>> /\ events # <<>>
    /\ todo' = Response(Head(events))
    /\ UNCHANGED <<pr, branch, happened, events, jobs, crashes>>

PublishJob ==
    /\ todo # <<>> /\ Head(todo) = "publish"
    /\ jobs' = Append(jobs, Job(Head(events)))
    /\ todo' = Tail(todo)
    /\ UNCHANGED <<pr, branch, happened, events, crashes>>

AckEvent ==
    /\ todo # <<>> /\ Head(todo) = "ack"
    /\ events' = Tail(events)
    /\ todo' = Tail(todo)
    /\ UNCHANGED <<pr, branch, happened, jobs, crashes>>

\* What was not acknowledged is delivered again, first.
Crash ==
    /\ todo # <<>> /\ crashes < MaxCrashes
    /\ todo' = <<>>
    /\ crashes' = crashes + 1
    /\ UNCHANGED <<pr, branch, happened, events, jobs>>

Filter == Take \/ PublishJob \/ AckEvent

Next ==
    \/ Push \/ PushWhileClosed \/ Close \/ Reopen
    \/ \E base \in Bases : ChangeBase(base)
    \/ \E action \in {"edited", "labeled", "unknown"} : ChangeElse(action)
    \/ Filter \/ Crash

\* The filter is restarted when it dies; the author may stop at any time.
Spec == Init /\ [][Next]_vars /\ WF_vars(Filter)

-----------------------------------------------------------------------------

TypeInv ==
    /\ pr.state \in {"open", "closed"} /\ pr.head \in 0..branch /\ pr.base \in Bases
    /\ \A n \in DOMAIN events : events[n].action \in Actions
    /\ \A n \in DOMAIN jobs : jobs[n].head \in 0..branch
    /\ happened \in 1..MaxEvents /\ crashes \in 0..MaxCrashes

Current == [head |-> pr.head, base |-> pr.base]

\* "Every PR automatically evaluates when it is opened and when the commits
\* change" (README.md:61): once the events are handled, the last evaluation
\* that was asked for is of the open pull request as it is, its commits and
\* its base, through closing, pushing and reopening, and crashes.
LastEvaluationIsCurrent ==
    (events = <<>> /\ pr.state = "open" /\ IsRepoEligible(Repository)) =>
        jobs # <<>> /\ Last(jobs) = Current

\* Each evaluation is asked for once, but for a crash: two in a row are of
\* different commits or bases, unless the pull request was reopened or the
\* filter died (evaluationfilter.rs:58-76).
NoNeedlessEvaluation ==
    [][jobs' # jobs /\ jobs # <<>> /\ crashes = 0 /\ Head(events).action # "reopened"
        => Last(jobs') # Last(jobs)]_vars

=============================================================================
