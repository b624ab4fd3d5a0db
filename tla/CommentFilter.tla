--------------------------- MODULE CommentFilter ---------------------------
(***************************************************************************)
(* ofborg/src/tasks/githubcommentfilter.rs: the actions the comment filter  *)
(* answers an issue_comment event with.                                     *)
(*                                                                          *)
(* The Uuid that a build job is given is the delivery of the comment it is  *)
(* made for (comment.id), and the number of the instruction in it: a        *)
(* comment that is delivered again makes other jobs.                        *)
(***************************************************************************)
EXTENDS CommentParser, Acl

Ack == [do |-> "ack"]
Publish(queue, msg) == [do |-> "publish", queue |-> queue, msg |-> msg]

BuildJob(request, instruction) ==
    [type |-> "BuildJob", request |-> request,
     subset |-> instruction.kind, attrs |-> instruction.attrs]

QueuedBuildJobs(job, architectures) ==
    [type |-> "QueuedBuildJobs", job |-> job, architectures |-> architectures]

EvaluationJob == [type |-> "EvaluationJob"]

\* Where an instruction of a user who may build on systems is built, in the
\* order in which acl.rs lists them.
Destinations(instruction, systems) ==
    LET right == {s \in systems : instruction.kind = "NixOS" => CanRunNixosTests(s)}
        Only(s) == IF s \in right THEN <<s>> ELSE <<>>
    IN  Only("x86_64-darwin") \o Only("x86_64-linux") \o Only("aarch64-linux")

\* Mutant: the check is announced before the jobs are published.
ActionsFor_QueuedFirst(request, instruction, systems) ==
    LET destinations == Destinations(instruction, systems)
        job == BuildJob(request, instruction)
    IN  IF instruction = Eval
        THEN <<Publish("mass-rebuild-check-jobs", EvaluationJob)>>
        ELSE <<Publish("build-results", QueuedBuildJobs(job, destinations))>> \o
             [d \in DOMAIN destinations |-> Publish(destinations[d], job)]

\* A job for every system, and behind them the checks to announce.
ActionsFor(request, instruction, systems) ==
    LET destinations == Destinations(instruction, systems)
        job == BuildJob(request, instruction)
    IN  IF instruction = Eval
        THEN <<Publish("mass-rebuild-check-jobs", EvaluationJob)>>
        ELSE Append([d \in DOMAIN destinations |-> Publish(destinations[d], job)],
                    Publish("build-results", QueuedBuildJobs(job, destinations)))

\* The consumer; found says that the pull request could be fetched from
\* GitHub, which it cannot when the comment is on an issue.
Response(comment, found) ==
    LET instructions == Parse(comment.body)
        systems == Architectures(comment.user, comment.repo)
    IN  IF \/ comment.action = "deleted"
           \/ instructions = <<>>
           \/ systems = {}
           \/ ~found
        THEN <<Ack>>
        ELSE Append(FlattenSeq([n \in DOMAIN instructions |->
                        ActionsFor(<<comment.id, n>>, instructions[n], systems)]),
                    Ack)
=============================================================================
