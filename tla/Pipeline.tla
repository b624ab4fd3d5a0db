------------------------------ MODULE Pipeline ------------------------------
(***************************************************************************)
(* From a comment to the checks on GitHub: the comment filter, the builders *)
(* of the three systems and the comment poster, each behind its durable     *)
(* queue at RabbitMQ (basic_prefetch(1)).                                   *)
(*                                                                          *)
(* Every one of them is a worker: it decodes a delivery, makes up the list  *)
(* of its actions and carries them out in order, the Ack last.  One that    *)
(* dies before that has its delivery put back at the head of the queue.     *)
(* A builder is reduced to the answers it can give (module Builder has the  *)
(* rest), the pull request to one head.                                     *)
(***************************************************************************)
EXTENDS CommentFilter, FiniteSetsExt

CONSTANTS
    Days,           \* the days to look at, each with
                    \*   comments: the issue_comment events, in GitHub's order
                    \*   online:   the systems that have a builder
                    \*   crashes:  bound: workers that die
                    \*   refusals: bound: checks that GitHub does not accept
    Statuses        \* the BuildStatus values an attempted build may end with

\* How a job may end otherwise: its commit is gone, it does not merge, none of
\* its attributes evaluates.
Unbuilt == {"missing", "merge failed", "Skipped"}
ASSUME StatusAssumption == Statuses \cap Unbuilt = {}

\* A message that is not what the worker's msg_to_job can read.
Garbage == [type |-> "Garbage"]

\* The body of a comment is a sequence of lines, that of an event which does
\* not decode is Garbage.
ASSUME DayAssumption ==
    \A d \in Days :
        /\ Len(d.comments) \in Nat /\ DOMAIN d.comments = 1..Len(d.comments)
        /\ \A c \in DOMAIN d.comments :
              d.comments[c].body = <<Garbage>> \/ d.comments[c].body \in Seq(Seq(Words))
        /\ d.online \subseteq Systems /\ d.crashes \in Nat /\ d.refusals \in Nat

VARIABLES
    day,        \* the day it is, which does not change
    queue,      \* queue[q]: the messages waiting in q
    unacked,    \* unacked[w]: the deliveries w has not acknowledged, 0 or 1
    todo,       \* todo[w]: the actions w has yet to carry out
    checks,     \* checks[name]: the check runs posted with this name, in order
    outcomes,   \* how the builders have ended a job on a system
    sent,       \* the jobs that were published, with their systems
    refused,    \* the check runs GitHub did not accept
    crashes     \* how many workers died

vars == <<day, queue, unacked, todo, checks, outcomes, sent, refused, crashes>>

Comments == day.comments
Online == day.online

Workers == Systems \cup {"filter", "poster"}

Inbox(w) ==
    CASE w = "filter" -> "build-inputs"
      [] w = "poster" -> "build-results"
      [] OTHER -> w

Queues == Systems \cup {"build-inputs", "build-results", "mass-rebuild-check-jobs"}

\* What the comment filter is sent.
IssueComment(c) == [type |-> "IssueComment", comment |-> c]

Init ==
    /\ day \in Days
    /\ queue = [q \in Queues |->
          IF q = "build-inputs"
          THEN [c \in DOMAIN Comments |->
                 IF Comments[c].body = <<Garbage>> THEN Garbage ELSE IssueComment(c)]
          ELSE <<>>]
    /\ unacked = [w \in Workers |-> <<>>]
    /\ todo = [w \in Workers |-> <<>>]
    /\ checks = <<>>
    /\ outcomes = {}
    /\ sent = {}
    /\ refused = {}
    /\ crashes = 0

-----------------------------------------------------------------------------
(* What the workers answer a delivery with.                                  *)

\* The comment as the filter sees it.  A delivery is told from the one before
\* it by the workers that had died until then.
Event(c) ==
    [id |-> <<c, crashes>>, user |-> Comments[c].user, repo |-> Comments[c].repo,
     action |-> Comments[c].action, body |-> Comments[c].body]

\* How a job can end: without an answer, with a merge that failed, with no
\* attribute that evaluates on this system, or with the status of a build of
\* those that do.
Endings(job) ==
    [status : Unbuilt, attempted : {{}}]
    \cup [status : Statuses, attempted : (SUBSET ToSet(job.attrs)) \ {{}}]

\* Mutant: a partly skipped build reports all attributes as attempted.
BuildResult_AllAttempted(job, system, ending) ==
    LET unmerged == ending.status = "merge failed" IN
    [type |-> "BuildResult", job |-> job, system |-> system,
     status |-> IF unmerged THEN "Failure" ELSE ending.status,
     attempted |-> IF unmerged THEN {} ELSE ToSet(job.attrs),
     skipped |-> {}]

\* A result names the attributes that were attempted and those that were
\* skipped, and none of them when the job could not be merged.
BuildResult(job, system, ending) ==
    LET unmerged == ending.status = "merge failed" IN
    [type |-> "BuildResult", job |-> job, system |-> system,
     status |-> IF unmerged THEN "Failure" ELSE ending.status,
     attempted |-> ending.attempted,
     skipped |-> IF unmerged THEN {} ELSE ToSet(job.attrs) \ ending.attempted]

\* Mutant: commit_missing tells nothing.
BuilderActions_NoAck(job, system, ending) ==
    IF ending.status = "missing" THEN <<>>
    ELSE <<Publish("build-results", BuildResult(job, system, ending)), Ack>>

\* Mutant: a job is acknowledged before its result is published.
BuilderActions_AckFirst(job, system, ending) ==
    IF ending.status = "missing" THEN <<Ack>>
    ELSE <<Ack, Publish("build-results", BuildResult(job, system, ending))>>

BuilderActions(job, system, ending) ==
    IF ending.status = "missing" THEN <<Ack>>
    ELSE <<Publish("build-results", BuildResult(job, system, ending)), Ack>>

Post(name, check) == [do |-> "post", name |-> name, check |-> check]
Name(attrs, system) == [attrs |-> attrs, system |-> system]

Conclusion(status) == IF status = "Success" THEN "success" ELSE "neutral"

\* job_to_check, result_to_check: the name of a check has all the attributes,
\* its summary tells the attempted from the skipped ones.  No attributes stand
\* for "(unknown attributes)".
JobCheck(job, system) ==
    Post(Name(ToSet(job.attrs), system),
         [job |-> job, state |-> "queued", conclusion |-> "none",
          attempted |-> {}, skipped |-> {}])
ResultCheck(result) ==
    Post(Name(result.attempted \cup result.skipped, result.system),
         [job |-> result.job, state |-> "completed",
          conclusion |-> Conclusion(result.status),
          attempted |-> result.attempted, skipped |-> result.skipped])

PosterActions(msg) ==
    CASE msg.type = "QueuedBuildJobs" ->
           Append([a \in DOMAIN msg.architectures |-> JobCheck(msg.job, msg.architectures[a])], Ack)
      [] msg.type = "BuildResult" -> <<ResultCheck(msg), Ack>>
      [] OTHER -> <<Ack>>

-----------------------------------------------------------------------------
(* Deliveries.                                                               *)

Idle(w) == unacked[w] = <<>> /\ todo[w] = <<>>

\* The broker hands w the head of its queue, w makes up its actions.
Deliver(w, actions) ==
    /\ Idle(w) /\ queue[Inbox(w)] # <<>>
    /\ queue' = [queue EXCEPT ![Inbox(w)] = Tail(@)]
    /\ unacked' = [unacked EXCEPT ![w] = <<Head(queue[Inbox(w)])>>]
    /\ todo' = [todo EXCEPT ![w] = actions]
    /\ UNCHANGED <<day, checks, sent, refused, crashes>>

Waiting(w) == Head(queue[Inbox(w)])

FilterTakesComment(found) ==
    /\ queue["build-inputs"] # <<>> /\ Waiting("filter").type = "IssueComment"
    /\ Deliver("filter", Response(Event(Waiting("filter").comment), found))
    /\ UNCHANGED outcomes

\* The filter panics in msg_to_job, before any action.
FilterTakesGarbage ==
    /\ queue["build-inputs"] # <<>> /\ Waiting("filter") = Garbage
    /\ Deliver("filter", <<[do |-> "panic"]>>)
    /\ UNCHANGED outcomes

BuilderTakesJob(system, ending) ==
    /\ system \in Online /\ queue[system] # <<>>
    /\ Deliver(system, BuilderActions(Waiting(system), system, ending))
    /\ outcomes' = outcomes \cup {<<Waiting(system), system, ending>>}

BuilderTakes(system) ==
    /\ queue[system] # <<>>
    /\ \E ending \in Endings(Waiting(system)) : BuilderTakesJob(system, ending)

PosterTakesMessage ==
    /\ queue["build-results"] # <<>>
    /\ Deliver("poster", PosterActions(Waiting("poster")))
    /\ UNCHANGED outcomes

-----------------------------------------------------------------------------
(* Actions.                                                                  *)

Does(w, what) ==
    /\ todo[w] # <<>> /\ Head(todo[w]).do = what
    /\ todo' = [todo EXCEPT ![w] = Tail(@)]

DoPublish(w) ==
    /\ Does(w, "publish")
    /\ LET action == Head(todo[w]) IN
       /\ queue' = [queue EXCEPT ![action.queue] = Append(@, action.msg)]
       /\ sent' = IF action.queue \in Systems
                  THEN sent \cup {<<action.msg, action.queue>>} ELSE sent
    /\ UNCHANGED <<day, unacked, checks, outcomes, refused, crashes>>

DoAck(w) ==
    /\ Does(w, "ack")
    /\ unacked' = [unacked EXCEPT ![w] = <<>>]
    /\ UNCHANGED <<day, queue, checks, outcomes, sent, refused, crashes>>

PostsOf(name) == IF name \in DOMAIN checks THEN checks[name] ELSE <<>>

DoPost(w) ==
    /\ Does(w, "post")
    /\ LET action == Head(todo[w]) IN
       checks' = [name \in DOMAIN checks \cup {action.name} |->
                    IF name = action.name THEN Append(PostsOf(name), action.check)
                    ELSE checks[name]]
    /\ UNCHANGED <<day, queue, unacked, outcomes, sent, refused, crashes>>

\* An error of GitHub is logged, and the poster goes on.
DoPostRefused(w) ==
    /\ Does(w, "post")
    /\ Cardinality(refused) < day.refusals
    /\ refused' = refused \cup {<<Head(todo[w]).name, Head(todo[w]).check>>}
    /\ UNCHANGED <<day, queue, unacked, checks, outcomes, sent, crashes>>

\* The connection is gone: the delivery goes back to the head of its queue.
Die(w) ==
    /\ queue' = [queue EXCEPT ![Inbox(w)] = unacked[w] \o @]
    /\ unacked' = [unacked EXCEPT ![w] = <<>>]
    /\ todo' = [todo EXCEPT ![w] = <<>>]
    /\ UNCHANGED <<day, checks, outcomes, sent, refused>>

DoPanic(w) ==
    /\ todo[w] # <<>> /\ Head(todo[w]).do = "panic"
    /\ Die(w)
    /\ UNCHANGED crashes

Crash(w) ==
    /\ ~Idle(w)
    /\ crashes < day.crashes
    /\ crashes' = crashes + 1
    /\ Die(w)

Act(w) == DoPublish(w) \/ DoAck(w) \/ DoPost(w) \/ DoPostRefused(w) \/ DoPanic(w)

Take ==
    \/ \E found \in BOOLEAN : FilterTakesComment(found)
    \/ FilterTakesGarbage
    \/ PosterTakesMessage

Next ==
    \/ Take
    \/ \E system \in Systems : BuilderTakes(system)
    \/ \E w \in Workers : Act(w) \/ Crash(w)

\* The services are restarted when they die, and RabbitMQ delivers what waits;
\* nothing is said about which builds end how, or whether GitHub answers.
Spec ==
    /\ Init /\ [][Next]_vars
    /\ WF_vars(Take)
    /\ \A s \in Systems : WF_vars(BuilderTakes(s))
    /\ \A w \in Workers : WF_vars(Act(w))

-----------------------------------------------------------------------------

TypeInv ==
    /\ day \in Days
    /\ DOMAIN queue = Queues
    /\ \A w \in Workers :
         /\ Len(unacked[w]) <= 1
         /\ todo[w] # <<>> => unacked[w] # <<>>
    /\ \A s \in sent : s[1].type = "BuildJob" /\ s[2] \in Systems
    /\ {<<o[1], o[2]>> : o \in outcomes} \subseteq sent
    /\ crashes \in 0..day.crashes

\* A check is announced as queued on a system only when its job has been sent
\* to that system (githubcommentfilter.rs:128-146): the filter may die between
\* the two, and then there is a build without a check, never the other way
\* round.
AnnouncedJobsExist ==
    \A name \in DOMAIN checks : \A n \in DOMAIN checks[name] :
        checks[name][n].state = "queued" => <<checks[name][n].job, name.system>> \in sent

\* A green check may be about attributes that were never built: its name has
\* all those of its job (test_check_passing_build, githubcommentposter.rs:
\* 257-336).  But its job has been built on the system of the check, with
\* success; at least one attribute was attempted; those said to be are the very
\* ones the build was for, and every other one in the name is said to have been
\* skipped (build.rs:328-389, githubcommentposter.rs:124-197,
\* buildresult.rs:25-35).
GreenMeansBuilt ==
    \A name \in DOMAIN checks : \A n \in DOMAIN checks[name] :
        LET check == checks[name][n] IN
        check.conclusion = "success" =>
            /\ <<check.job, name.system, [status |-> "Success", attempted |-> check.attempted]>>
                  \in outcomes
            /\ check.attempted # {}
            /\ name.attrs = ToSet(check.job.attrs)
            /\ check.skipped = name.attrs \ check.attempted

\* No check on GitHub says more than is so: it is announced as queued when its
\* job has been sent, and green when what it calls attempted was built.
ChecksAreTrue == TypeInv /\ AnnouncedJobsExist /\ GreenMeansBuilt

Quiet ==
    /\ \A w \in Online \cup {"filter", "poster"} : queue[Inbox(w)] = <<>>
    /\ \A w \in Workers : Idle(w)

\* Why the check of a job can stay queued: its result came before it was
\* announced, its commit was gone or did not merge, GitHub refused the
\* completed check, or it waits for a builder to come online.
Overtaken(posts, job) ==
    \E n \in DOMAIN posts : posts[n].job = job /\ posts[n].state = "completed"
Unanswered(job, system) ==
    \E status \in {"missing", "merge failed"} :
        <<job, system, [status |-> status, attempted |-> {}]>> \in outcomes
RefusedResult(name, job) ==
    \E r \in refused : r[1] = name /\ r[2].job = job /\ r[2].state = "completed"

\* When all is done, a check that GitHub shows as queued (the last one posted
\* with its name) has one of these reasons (githubcommentfilter.rs:131-146,
\* build.rs:100-131, githubcommentposter.rs:78-90): no crash, no redelivery
\* and no mix of jobs with the same attributes is another.
StuckChecksExplained ==
    Quiet => \A name \in DOMAIN checks :
        LET last == Last(checks[name]) IN
        last.state = "queued" => \/ Overtaken(checks[name], last.job)
                                 \/ Unanswered(last.job, name.system)
                                 \/ RefusedResult(name, last.job)
                                 \/ \E n \in DOMAIN queue[name.system] :
                                      queue[name.system][n] = last.job

\* Whom the README lets build where: in nixpkgs trusted users on all systems,
\* known ones on those with good sandboxing, whatever the spelling of the
\* login; tests where they can run.
Allowed(user, repo) ==
    IF lower[repo] # "nixos/nixpkgs" THEN IF user = "grahamc" THEN Systems ELSE {}
    ELSE IF \E t \in trusted_users : lower[t] = lower[user] THEN Systems
    ELSE IF \E k \in known_users : lower[k] = lower[user] THEN Linux
    ELSE {}
Right(job) ==
    LET comment == Comments[job.request[1][1]]
        allowed == Allowed(comment.user, comment.repo)
    IN  IF job.subset = "NixOS" THEN allowed \cap Linux ELSE allowed

\* A job never goes to a system its author may not use, and when all is done it
\* has gone to every one that he may (README.md:101-125, acl.rs,
\* githubcommentfilter.rs:105-130).  Only a filter that dies in between may
\* leave some out: the pull request may not be found the second time.
RightSystems ==
    \A s \in sent :
        /\ s[2] \in Right(s[1])
        /\ Quiet /\ crashes = 0 => \A system \in Right(s[1]) : <<s[1], system>> \in sent

\* An undecodable message stops the filter for good: every comment in front of
\* it is handled, none behind it ever is (githubcommentfilter.rs:36-45).  Where
\* there is none all programs come to rest, whatever died in between.
Undecodable(c) == Comments[c].body = <<Garbage>>
Blocked(c) == \E g \in 1..(c - 1) : Undecodable(g)
Readable == {c \in DOMAIN Comments : ~Undecodable(c)}
Handled(c) ==
    /\ \A n \in DOMAIN queue["build-inputs"] : queue["build-inputs"][n] # IssueComment(c)
    /\ unacked["filter"] # <<IssueComment(c)>>
AllHandled ==
    /\ \A c \in Readable : Blocked(c) \/ Handled(c)
    /\ Readable = DOMAIN Comments => Quiet
CommentsHandledInOrder ==
    [](\A c \in Readable : Blocked(c) => ~Handled(c)) /\ <>[]AllHandled
=============================================================================
