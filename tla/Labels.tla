------------------------------- MODULE Labels -------------------------------
(***************************************************************************)
(* The labels an evaluation puts on a pull request: update_labels of        *)
(* ofborg/src/tasks/evaluate.rs and its callers in                          *)
(* ofborg/src/tasks/eval/nixpkgs.rs.                                        *)
(*                                                                          *)
(* Each update reads the labels of the issue, adds the missing ones in one  *)
(* request and removes the others in a request each; a request that fails   *)
(* panics, and the evaluation is delivered again.  The rest of an           *)
(* evaluation, its statuses and its builds, is module Evaluation.           *)
(***************************************************************************)
EXTENDS Taggers, OutPathDiff

CONSTANTS
    Evaluators,
    Heads,          \* the heads a pull request may have
    Content,        \* Content[h]: what git and nix find there
    TagPaths,       \* the configuration of the PathsTagger
    Submitter,      \* who opened the pull request, in lower case
    ReviewLimit,    \* 10: so many maintainers are not asked for a review
    InitialLabels,
    Sites           \* the instances to look at, each with
                    \*   team:    the evaluators at work
                    \*   heads:   the heads that are pushed
                    \*   peoples: labels people put on and take off
                    \*   pushes:  bound: heads pushed
                    \*   edits:   bound: what people do to labels and title
                    \*   crashes: bound: evaluators that die, or requests that fail

None == [is |-> "none"]
NoJob == "none"

ASSUME LabelsAssumption ==
    /\ NoJob \notin Heads /\ None \notin Evaluators /\ ReviewLimit \in Nat
    /\ \A label \in InitialLabels : Len(label) = 2
    /\ \A s \in Sites : /\ s.team \subseteq Evaluators /\ s.heads \subseteq Heads
                        /\ \A label \in s.peoples : Len(label) = 2
                        /\ s.pushes \in Nat /\ s.edits \in Nat /\ s.crashes \in Nat

\* nix-env lists an attribute once.
ASSUME ContentAssumption == \A h \in Heads :
    /\ DOMAIN Content[h] =
           {"paths", "before", "after", "stdenvBefore", "stdenvAfter", "conflict", "impact"}
    /\ Content[h].conflict \in BOOLEAN
    /\ \A list \in {Content[h].before, Content[h].after} :
           /\ list \in Seq(Seq(Seq(STRING)))
           /\ \A i, j \in DOMAIN list : WellFormed(list[i]) /\ WellFormed(list[j])
                  /\ list[i][1] = list[j][1] => i = j

\* The labels that the configuration has for paths (config.public.json) are
\* none of those that other taggers know.
ASSUME TagPathsAssumption ==
    DOMAIN TagPaths \cap
        ({"2.status: merge conflict", "6.topic: darwin", "8.has: package (new)", "8.has: clean-up",
          "10.rebuild-linux-stdenv", "10.rebuild-darwin-stdenv", "11.by: package-maintainer"}
         \cup RebuildTopics) = {}

VARIABLES
    site,       \* the instance it is, which does not change
    labels,     \* the labels of the issue
    darwin,     \* its title speaks of darwin or macos
    reviewers,  \* who was asked for a review
    queue,      \* mass-rebuild-check-jobs
    job,        \* job[e]: the head e evaluates
    at,         \* at[e]: the next thing it does
    update,     \* update[e]: what is left of the update of labels it is in
    raced,      \* raced[e]: since e read the labels somebody else took one away
    last,       \* the evaluation that was acknowledged last, and how it ended
    disturbed,  \* since the evaluators at work began, people touched labels the
                \* taggers know, or one of them began with another head
    pushes, edits, crashes

issueVars == <<labels, darwin, reviewers>>
workVars == <<queue, job, at, update>>
vars == <<site, issueVars, workVars, raced, last, disturbed, pushes, edits, crashes>>
unpushed == <<site, darwin, queue, last, disturbed, pushes, edits, crashes>>

MergeConflict == Plain("2.status: merge conflict")
TopicDarwin == Plain("6.topic: darwin")

-----------------------------------------------------------------------------
(* What the taggers say of a head.                                           *)

Orig == [h \in Heads |-> ParseLines(Content[h].before)]
Cur == [h \in Heads |-> ParseLines(Content[h].after)]
Attrs == [h \in Heads |-> CalculateRebuild(Orig[h], Cur[h])]

OfPaths == [h \in Heads |-> PathsTags(TagPaths, Content[h].paths)]
OfStdenvs == [h \in Heads |-> StdenvTags(Content[h].stdenvBefore, Content[h].stdenvAfter)]
OfPackages == [h \in Heads |->
    PkgsAddedRemovedTags(Removed(Orig[h], Cur[h]), Added(Orig[h], Cur[h]))]
OfRebuilds == [h \in Heads |-> RebuildTags(Attrs[h])]
OfMaintainers == [h \in Heads |->
    MaintainerTags(Submitter, MaintainersByPackage(Content[h].impact))]

Init ==
    /\ site \in Sites
    /\ labels = InitialLabels
    /\ darwin = FALSE
    /\ reviewers = {}
    /\ queue = <<>>
    /\ job = [e \in Evaluators |-> NoJob]
    /\ at = [e \in Evaluators |-> "idle"]
    /\ update = [e \in Evaluators |-> None]
    /\ raced = [e \in Evaluators |-> FALSE]
    /\ last = None
    /\ disturbed = FALSE
    /\ pushes = 0
    /\ edits = 0
    /\ crashes = 0

-----------------------------------------------------------------------------
(* update_labels                                                             *)

\* The issue is read.
Ask(e, tags) ==
    /\ update' = [update EXCEPT ![e] = [is |-> "adding", add |-> tags.add \ labels,
                                        remove |-> tags.remove \cap labels]]
    /\ raced' = [raced EXCEPT ![e] = FALSE]

\* Who is in an update learns nothing of what others take away.
Races(e, gone) ==
    raced' = [d \in Evaluators |-> raced[d] \/ (d # e /\ update[d] # None /\ gone # {})]

Left(todo) == IF todo.remove = {} THEN None ELSE [todo EXCEPT !.is = "removing", !.add = {}]

AddLabels(e) ==
    /\ update[e].is = "adding"
    /\ labels' = labels \cup update[e].add
    /\ update' = [update EXCEPT ![e] = Left(update[e])]
    /\ UNCHANGED <<reviewers, job, at, raced>> /\ UNCHANGED unpushed

\* One request for every label; their order tells nothing.
RemoveLabel(e) ==
    /\ update[e].is = "removing"
    /\ \E label \in update[e].remove \cap labels :
           /\ labels' = labels \ {label}
           /\ update' = [update EXCEPT ![e] = Left([update[e] EXCEPT !.remove = @ \ {label}])]
           /\ Races(e, {label})
    /\ UNCHANGED <<reviewers, job, at>> /\ UNCHANGED unpushed

\* The job goes back to where it was.
Requeue(e) ==
    /\ queue' = <<job[e]>> \o queue
    /\ job' = [job EXCEPT ![e] = NoJob]
    /\ at' = [at EXCEPT ![e] = "idle"]
    /\ update' = [update EXCEPT ![e] = None]
    /\ raced' = [raced EXCEPT ![e] = FALSE]
    /\ UNCHANGED issueVars
    /\ UNCHANGED <<site, last, disturbed, pushes, edits>>

\* Mutant: the request is made again.
RemoveFails_Waits(e) ==
    /\ update[e].is = "removing" /\ ~(update[e].remove \subseteq labels)
    /\ UNCHANGED vars

\* expect("Failed to remove tag"): the label is gone already.
RemoveFails(e) ==
    /\ update[e].is = "removing" /\ ~(update[e].remove \subseteq labels)
    /\ Requeue(e)
    /\ UNCHANGED crashes

-----------------------------------------------------------------------------
(* An evaluation, from one update to the next.                               *)

Take(e) ==
    /\ e \in site.team /\ at[e] = "idle" /\ queue # <<>>
    /\ job' = [job EXCEPT ![e] = Head(queue)]
    /\ queue' = Tail(queue)
    /\ at' = [at EXCEPT ![e] = "title"]
    /\ LET others == {d \in Evaluators \ {e} : at[d] # "idle"}
       IN  disturbed' = /\ others # {}
                        /\ disturbed \/ \E d \in others : job[d] # Head(queue)
    /\ UNCHANGED issueVars
    /\ UNCHANGED <<site, update, raced, last, pushes, edits, crashes>>

\* e is between two updates, at this place.
Stands(e, place) == at[e] = place /\ update[e] = None

Goto(e, next) ==
    /\ at' = [at EXCEPT ![e] = next]
    /\ UNCHANGED <<labels, job>> /\ UNCHANGED unpushed

Tag(e, tags, next) ==
    /\ Ask(e, tags)
    /\ UNCHANGED reviewers
    /\ Goto(e, next)

\* The issue is read for its title; if that fails, the title says nothing.
TagFromTitle(e) ==
    /\ Stands(e, "title")
    /\ \/ darwin /\ Ask(e, Tags({TopicDarwin}, {}))
       \/ UNCHANGED <<update, raced>>
    /\ UNCHANGED reviewers
    /\ Goto(e, "paths")

TagFromPaths(e) == Stands(e, "paths") /\ Tag(e, OfPaths[job[e]], "merge")

\* merge_conflict and after_merge
Merge(e) ==
    /\ Stands(e, "merge")
    /\ IF Content[job[e]].conflict
       THEN Tag(e, Tags({MergeConflict}, {}), "conflict")
       ELSE Tag(e, Tags({}, {MergeConflict}), "stdenvs")

UpdateStdenvLabels(e) == Stands(e, "stdenvs") /\ Tag(e, OfStdenvs[job[e]], "packages")

UpdateNewPackageLabels(e) == Stands(e, "packages") /\ Tag(e, OfPackages[job[e]], "maintainers")

\* record_impacted_maintainers is asked only when something is rebuilt.
RecordImpactedMaintainers(e) ==
    /\ Stands(e, "maintainers") /\ Attrs[job[e]] # {}
    /\ Ask(e, OfMaintainers[job[e]])
    /\ LET maintainers == DOMAIN Content[job[e]].impact
       IN  reviewers' = IF Cardinality(maintainers) < ReviewLimit
                        THEN reviewers \cup maintainers ELSE reviewers
    /\ Goto(e, "rebuilds")

\* Nothing is rebuilt, or nix cannot tell whose packages they are.
NoMaintainers(e) ==
    /\ Stands(e, "maintainers")
    /\ UNCHANGED <<reviewers, update, raced>>
    /\ Goto(e, "rebuilds")

UpdateRebuildLabels(e) == Stands(e, "rebuilds") /\ Tag(e, OfRebuilds[job[e]], "complete")

\* A step in between fails: the target branch or the merge does not evaluate,
\* the commit is gone, a check or the meta data is wrong.
Fail(e) ==
    /\ at[e] \in {"paths", "stdenvs", "complete"} /\ update[e] = None
    /\ at' = [at EXCEPT ![e] = "failed"]
    /\ UNCHANGED issueVars
    /\ UNCHANGED <<site, queue, job, update, raced, last, disturbed, pushes, edits, crashes>>

\* The job is acknowledged.
End(e) ==
    /\ at[e] \in {"complete", "conflict", "failed"} /\ update[e] = None
    /\ last' = [is |-> at[e], head |-> job[e]]
    /\ job' = [job EXCEPT ![e] = NoJob]
    /\ at' = [at EXCEPT ![e] = "idle"]
    /\ UNCHANGED issueVars
    /\ UNCHANGED <<site, queue, update, raced, disturbed, pushes, edits, crashes>>

\* The process dies, or a request it makes fails.
Crash(e) ==
    /\ at[e] # "idle" /\ crashes < site.crashes
    /\ crashes' = crashes + 1
    /\ Requeue(e)

Step(e) ==
    \/ Take(e)
    \/ AddLabels(e) \/ RemoveLabel(e) \/ RemoveFails(e)
    \/ TagFromTitle(e) \/ TagFromPaths(e) \/ Merge(e)
    \/ UpdateStdenvLabels(e) \/ UpdateNewPackageLabels(e)
    \/ RecordImpactedMaintainers(e) \/ NoMaintainers(e) \/ UpdateRebuildLabels(e)
    \/ End(e)

-----------------------------------------------------------------------------
(* People, on GitHub.                                                        *)

Push(h) ==
    /\ pushes < site.pushes
    /\ pushes' = pushes + 1
    /\ queue' = Append(queue, h)
    /\ UNCHANGED issueVars
    /\ UNCHANGED <<site, job, at, update, raced, last, disturbed, edits, crashes>>

\* Labels a tagger of the bot may take away.
Removable ==
    {MergeConflict} \cup {Plain(tag) : tag \in DOMAIN TagPaths} \cup StdenvPossible \cup RebuildPossible

Edit(label) ==
    /\ edits < site.edits
    /\ edits' = edits + 1
    /\ labels' = IF label \in labels THEN labels \ {label} ELSE labels \cup {label}
    /\ Races(None, labels \ labels')
    /\ disturbed' = (disturbed \/ label \in Removable)
    /\ UNCHANGED <<site, darwin, reviewers, workVars, last, pushes, crashes>>

Retitle ==
    /\ edits < site.edits
    /\ edits' = edits + 1
    /\ darwin' = ~darwin
    /\ UNCHANGED <<site, labels, reviewers, workVars, raced, last, disturbed, pushes, crashes>>

People == (\E h \in site.heads : Push(h)) \/ (\E label \in site.peoples : Edit(label)) \/ Retitle

Next == (\E e \in Evaluators : Step(e) \/ Fail(e) \/ Crash(e)) \/ People

\* An evaluator goes on with its job, and a service manager starts it again.
Fairness == \A e \in Evaluators : WF_vars(Step(e))

Spec == Init /\ [][Next]_vars /\ Fairness

-----------------------------------------------------------------------------
(* What the labels of a head should be, from what git and nix found.         *)

\* The lines of a well-formed list, and those that are new in the other.
Lines(list) == {list[i] : i \in {i \in DOMAIN list : Len(list[i]) = 2 /\ Len(list[i][1]) > 1}}
Rebuilt(h, arch) ==
    {line[1] : line \in {l \in Lines(Content[h].after) \ Lines(Content[h].before) : Last(l[1]) = arch}}

RightCounts(h) ==
    {label \in RebuildPossible :
        InRange(label[2], Cardinality(Rebuilt(h, IF label[1] = "10.rebuild-linux" THEN "x86_64-linux"
                                                                                 ELSE "x86_64-darwin")))}

Right == [h \in Heads |->
    RightCounts(h)
    \cup {StdenvLabel[s] : s \in {s \in StdenvSystems :
                                     Content[h].stdenvBefore[s] # Content[h].stdenvAfter[s]}}
    \cup {Plain(tag) : tag \in {t \in DOMAIN TagPaths : Content[h].paths \cap TagPaths[t] # {}}}]

-----------------------------------------------------------------------------

TypeInv ==
    /\ \A label \in labels : Len(label) = 2
    /\ darwin \in BOOLEAN
    /\ queue \in Seq(Heads)
    /\ \A e \in Evaluators :
           /\ (job[e] = NoJob) = (at[e] = "idle")
           /\ update[e] # None => /\ job[e] # NoJob
                                  /\ update[e].add \cap update[e].remove = {}
                                  /\ update[e].is = "removing" => update[e].remove # {}
    /\ last # None => last.head \in Heads

Settled == queue = <<>> /\ \A e \in Evaluators : at[e] = "idle"

\* When the evaluations are over, the labels that tell what a pull request
\* rebuilds, touches and changes are those of the head that was evaluated last,
\* whatever earlier evaluations, people, and evaluations cut off by a crash left
\* behind; a conflict leaves its label (tagger.rs:151-200, nixpkgs.rs:87-128,
\* 384-406).  Labels that people change while evaluators are at work, evaluators
\* of different heads at a time, and evaluations that stop early are left out.
LabelsOfLastEvaluation ==
    TypeInv /\ (Settled /\ last # None /\ ~disturbed =>
        /\ last.is = "complete" => labels \cap Removable = Right[last.head]
        /\ last.is = "conflict" => MergeConflict \in labels)

\* An update fails on a label that is not there only if somebody took it away
\* after the issue was read (evaluate.rs:433-463): an evaluator alone with a
\* pull request never panics in update_labels; and every evaluation comes to its
\* end, although evaluators of one pull request make each other panic, since each
\* panic needs a label that another one removed.
OnlyRacesFail ==
    \A e \in Evaluators : update[e] # None /\ ~raced[e] => update[e].remove \subseteq labels
EvaluationsSettle == []OnlyRacesFail /\ <>[]Settled

\* Labels that are no tagger's to remove stay on the issue, unless a person
\* takes them off (evaluate.rs:448-462): among them "8.has: clean-up", which
\* "is too vague to automatically remove" (tagger.rs:108).  And the label for
\* maintainers is put on only when the submitter maintains all that the pull
\* request rebuilds and whose maintainers are known, and that is something
\* (tagger.rs:294-318).
MaintainedBySubmitter(h) ==
    LET impact == Content[h].impact IN
    /\ Attrs[h] # {}
    /\ Submitter \in DOMAIN impact /\ impact[Submitter] # {}
    /\ \A m \in DOMAIN impact : impact[m] \subseteq impact[Submitter]
LabelsWithReason ==
    [][/\ edits' = edits => (labels \ labels') \subseteq Removable
       /\ \A e \in Evaluators :
            update[e] # update'[e] /\ update'[e] # None /\ ByMaintainer \in update'[e].add =>
              MaintainedBySubmitter(job[e])]_vars
=============================================================================
