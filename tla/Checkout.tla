------------------------------ MODULE Checkout ------------------------------
(***************************************************************************)
(* ofborg/src/checkout.rs and clone.rs: how the builder (tasks/build.rs)    *)
(* and the evaluator (tasks/evaluate.rs) get a pull request, merged into    *)
(* its target branch, into their working tree.                              *)
(*                                                                          *)
(* All workers of a machine share one bare clone, the cache; a worker has   *)
(* its tree from its category and identity.  A git command runs under the   *)
(* lock file of its repository; the lock is given back between two          *)
(* commands, and by the operating system when the process dies.             *)
(*                                                                          *)
(* An Err from this code is unwrapped by the tasks: the process panics, the *)
(* broker requeues the job and a new process starts over with it.           *)
(***************************************************************************)
EXTENDS Integers, FiniteSets

CONSTANTS
    Workers,
    Evaluators,  \* the workers that are evaluators; the others are builders
    Trees,       \* the working trees
    TreeOf,      \* TreeOf[w]: the working tree of w
    Cache,       \* the bare clone
    Prs,         \* the pull requests
    Nobody,      \* nobody holds a lock
    MaxMaster,   \* bound: commits on the target branch
    MaxPushes,   \* bound: commits of a pull request
    Sites        \* the machines to look at, each with its workers, the pull
                 \* requests prs they get, bounds master and pushes of its own,
                 \* whether the target branch may be deleted (deletes), whether a
                 \* job may not name it (names), and a bound trouble: crashes,
                 \* killed git commands, network failures

\* Workers of one kind and machine have different identities (README.md:225-229).
ASSUME RepositoryAssumption ==
    /\ Evaluators \subseteq Workers
    /\ TreeOf \in [Workers -> Trees]
    /\ \A v, w \in Workers : TreeOf[v] = TreeOf[w] => v = w
    /\ Cache \notin Trees
    /\ Nobody \notin Workers

ASSUME BoundAssumption ==
    /\ MaxMaster \in Nat /\ MaxPushes \in Nat \ {0}
    /\ \A s \in Sites : /\ s.workers \subseteq Workers /\ s.prs \subseteq Prs
                       /\ s.master \in 0..MaxMaster /\ s.pushes \in 1..MaxPushes
                       /\ s.trouble \in Nat /\ s.deletes \in BOOLEAN
                       /\ s.names \subseteq BOOLEAN

Repositories == Trees \cup {Cache}

VARIABLES
    site,       \* the machine it is, which does not change
    master,     \* upstream: the number of the newest commit of the target branch
    gone,       \* upstream: the target branch was deleted
    pushed,     \* upstream: pushed[p] is the number of p's newest commit
    oldest,     \* upstream: oldest[p] is the oldest commit p's head descends from
    dir,        \* dir[r]: the directory is absent, partial or cloned
    origin,     \* origin[t]: where the tree's origin/<target branch> points
    objects,    \* objects[t]: the commits of pull requests in the tree's store
    head,       \* head[t]: the checked out commit, [base, merged]
    merging,    \* merging[t]: a merge stopped at a conflict
    indexLock,  \* indexLock[t]: git's index.lock file was left behind
    owner,      \* owner[r]: the worker that holds the lock of r
    pc,         \* pc[w]: the call the worker is in
    job,        \* job[w]: the commit of a pull request it works on
    named,      \* named[w]: the job names its target branch
    since,      \* since[w]: the target branch when it took the job
    killed,     \* repositories in which a git command was killed
    broken,     \* what git refused to do: the call, the worker, its job's named
    trouble     \* how many crashes, kills and network failures there were

upstreamVars == <<site, master, gone, pushed, oldest>>
treeVars == <<origin, objects, head, merging, indexLock>>
workerVars == <<pc, job, named, since>>
historyVars == <<killed, broken, trouble>>
vars == <<upstreamVars, dir, treeVars, owner, workerVars, historyVars>>

\* prefetch_cache, checkout_ref, fetch_pr, commit_exists, files_changed and
\* commit_messages_from_head, merge_commit, in the order of both tasks.
Calls == {"clone_cache", "fetch_cache", "clone_tree", "fetch_tree", "clean", "checkout",
          "fetch_pr", "commit_exists", "inspect", "merge_commit"}
Verdicts == {"merged", "merge_failed", "commit_missing"}

NoJob == <<>>
\* The tree has no origin/<target branch>.
NoRef == -1
\* What git clone and git fetch find of the target branch.
Upstream == IF gone THEN NoRef ELSE master
Commits == Prs \X (1..MaxPushes)
Reachable(p) == {<<p, n>> : n \in oldest[p]..pushed[p]}

RepositoryOf(w, call) == IF call \in {"clone_cache", "fetch_cache"} THEN Cache ELSE TreeOf[w]

Init ==
    /\ site \in Sites
    /\ master = 0
    /\ gone = FALSE
    /\ pushed = [p \in Prs |-> 1]
    /\ oldest = [p \in Prs |-> 1]
    /\ dir = [r \in Repositories |-> "absent"]
    /\ origin = [t \in Trees |-> 0]
    /\ objects = [t \in Trees |-> {}]
    /\ head = [t \in Trees |-> [base |-> 0, merged |-> {}]]
    /\ merging = [t \in Trees |-> FALSE]
    /\ indexLock = [t \in Trees |-> FALSE]
    /\ owner = [r \in Repositories |-> Nobody]
    /\ pc = [w \in Workers |-> "idle"]
    /\ job = [w \in Workers |-> NoJob]
    /\ named = [w \in Workers |-> TRUE]
    /\ since = [w \in Workers |-> 0]
    /\ killed = {}
    /\ broken = {}
    /\ trouble = 0

-----------------------------------------------------------------------------
(* The repository on GitHub.                                                 *)

MasterMoves ==
    /\ master < site.master /\ ~gone
    /\ master' = master + 1
    /\ UNCHANGED <<site, gone, pushed, oldest, dir, treeVars, owner, workerVars, historyVars>>

\* Jobs for the branch may wait in the queue, and it does not come back.
TargetDeleted ==
    /\ site.deletes /\ ~gone
    /\ gone' = TRUE
    /\ UNCHANGED <<site, master, pushed, oldest, dir, treeVars, owner, workerVars, historyVars>>

\* A new commit on the pull request, or one that replaces all the others.
Push(p, force) ==
    /\ p \in site.prs /\ pushed[p] < site.pushes
    /\ pushed' = [pushed EXCEPT ![p] = @ + 1]
    /\ oldest' = IF force THEN [oldest EXCEPT ![p] = pushed[p] + 1] ELSE oldest
    /\ UNCHANGED <<site, master, gone, dir, treeVars, owner, workerVars, historyVars>>

-----------------------------------------------------------------------------
(* A worker and its git commands.                                            *)

\* A job names the head commit the pull request had when it was made; it need
\* not name the target branch.
TakeJob(w) ==
    /\ w \in site.workers /\ pc[w] = "idle"
    /\ \E p \in site.prs : \E n \in 1..pushed[p] : job' = [job EXCEPT ![w] = <<p, n>>]
    /\ \E names \in site.names : named' = [named EXCEPT ![w] = names]
    /\ pc' = [pc EXCEPT ![w] = "clone_cache"]
    /\ since' = [since EXCEPT ![w] = master]
    /\ UNCHANGED <<upstreamVars, dir, treeVars, owner, historyVars>>

FinishJob(w) ==
    /\ pc[w] \in Verdicts
    /\ pc' = [pc EXCEPT ![w] = "idle"]
    /\ job' = [job EXCEPT ![w] = NoJob]
    /\ named' = [named EXCEPT ![w] = TRUE]
    /\ since' = [since EXCEPT ![w] = 0]
    /\ UNCHANGED <<upstreamVars, dir, treeVars, owner, historyVars>>

\* GitClonable::lock.
Lock(w) ==
    /\ pc[w] \in Calls
    /\ owner[RepositoryOf(w, pc[w])] = Nobody
    /\ owner' = [owner EXCEPT ![RepositoryOf(w, pc[w])] = w]
    /\ UNCHANGED <<upstreamVars, dir, treeVars, workerVars, historyVars>>

In(w, call) == pc[w] = call /\ owner[RepositoryOf(w, call)] = w

\* The call is over: the lock is dropped and the worker goes on.
Return(w, next) ==
    /\ owner' = [owner EXCEPT ![RepositoryOf(w, pc[w])] = Nobody]
    /\ pc' = [pc EXCEPT ![w] = next]
    /\ UNCHANGED <<upstreamVars, job, named, since, killed, trouble>>

Unlocked(w) == [r \in Repositories |-> IF owner[r] = w THEN Nobody ELSE owner[r]]

\* Git refuses to work in the directory as it is: Err, panic, start over.
Refused(w) ==
    /\ broken' = broken \cup {[worker |-> w, call |-> pc[w], named |-> named[w]]}
    /\ Return(w, "clone_cache")
    /\ UNCHANGED <<dir, treeVars>>

Clone(w, call, next) ==
    /\ In(w, call)
    /\ LET r == RepositoryOf(w, call)
       IN  /\ dir' = IF dir[r] = "absent" THEN [dir EXCEPT ![r] = "cloned"] ELSE dir
           /\ IF dir[r] = "absent" /\ r # Cache
              THEN /\ origin' = [origin EXCEPT ![r] = Upstream]
                   /\ head' = [head EXCEPT ![r] = [base |-> Upstream, merged |-> {}]]
                   /\ UNCHANGED <<objects, merging, indexLock>>
              ELSE UNCHANGED treeVars
    /\ Return(w, next)
    /\ UNCHANGED broken

CloneCache(w) == Clone(w, "clone_cache", "fetch_cache")
CloneTree(w) == Clone(w, "clone_tree", "fetch_tree")

\* Mutant: the lock of the cache is never given back.
FetchCache_KeepsLock(w) ==
    /\ In(w, "fetch_cache")
    /\ dir[Cache] = "cloned"
    /\ pc' = [pc EXCEPT ![w] = "clone_tree"]
    /\ UNCHANGED <<upstreamVars, dir, treeVars, owner, job, named, since, historyVars>>

\* The cache is a store of objects; no ref of it is used.
FetchCache(w) ==
    /\ In(w, "fetch_cache")
    /\ dir[Cache] = "cloned"
    /\ Return(w, "clone_tree")
    /\ UNCHANGED <<dir, treeVars, broken>>

\* Mutant: the tree is not fetched once it is cloned.
FetchTree_Once(w) ==
    /\ In(w, "fetch_tree")
    /\ dir[TreeOf[w]] = "cloned"
    /\ Return(w, "clean")
    /\ UNCHANGED <<dir, treeVars, broken>>

\* There is no --prune: the reference outlives a branch that was deleted.
FetchTree(w) ==
    /\ In(w, "fetch_tree")
    /\ dir[TreeOf[w]] = "cloned"
    /\ origin' = [origin EXCEPT ![TreeOf[w]] = IF gone THEN @ ELSE master]
    /\ Return(w, "clean")
    /\ UNCHANGED <<dir, objects, head, merging, indexLock, broken>>

\* "initial clone is done" (clone.rs:54) was taken from a directory that git
\* did not finish.
FetchRefused(w) ==
    /\ In(w, "fetch_cache") \/ In(w, "fetch_tree")
    /\ dir[RepositoryOf(w, pc[w])] = "partial"
    /\ Refused(w)

\* Mutant: nothing is aborted or reset.
Clean_Nothing(w) ==
    /\ In(w, "clean")
    /\ Return(w, "checkout")
    /\ UNCHANGED <<dir, treeVars, broken>>

\* am --abort, merge --abort, reset --hard; none of their results is looked at.
Clean(w) ==
    /\ In(w, "clean")
    /\ merging' = [merging EXCEPT ![TreeOf[w]] = @ /\ indexLock[TreeOf[w]]]
    /\ Return(w, "checkout")
    /\ UNCHANGED <<dir, origin, objects, head, indexLock, broken>>

\* "origin/" is put in front of the branch.  A job that names none is for
\* "master" in the evaluator and for "origin/master" in the builder, which so
\* looks for origin/origin/master.
Resolves(w) == origin[TreeOf[w]] # NoRef /\ (named[w] \/ w \in Evaluators)

\* Mutant: the tree stays on the commit of the job before.
CheckoutOriginRef_Stays(w) ==
    /\ In(w, "checkout")
    /\ ~merging[TreeOf[w]] /\ ~indexLock[TreeOf[w]] /\ Resolves(w)
    /\ Return(w, "fetch_pr")
    /\ UNCHANGED <<dir, treeVars, broken>>

CheckoutOriginRef(w) ==
    /\ In(w, "checkout")
    /\ ~merging[TreeOf[w]] /\ ~indexLock[TreeOf[w]] /\ Resolves(w)
    /\ head' = [head EXCEPT ![TreeOf[w]] = [base |-> origin[TreeOf[w]], merged |-> {}]]
    /\ Return(w, "fetch_pr")
    /\ UNCHANGED <<dir, origin, objects, merging, indexLock, broken>>

CheckoutRefused(w) ==
    /\ In(w, "checkout")
    /\ merging[TreeOf[w]] \/ indexLock[TreeOf[w]] \/ ~Resolves(w)
    /\ Refused(w)

\* Mutant: only origin is fetched, which has no refs of pull requests.
FetchPr_Nothing(w) ==
    /\ In(w, "fetch_pr")
    /\ Return(w, "commit_exists")
    /\ UNCHANGED <<dir, treeVars, broken>>

FetchPr(w) ==
    /\ In(w, "fetch_pr")
    /\ objects' = [objects EXCEPT ![TreeOf[w]] = @ \cup Reachable(job[w][1])]
    /\ Return(w, "commit_exists")
    /\ UNCHANGED <<dir, origin, head, merging, indexLock, broken>>

CommitExists(w) ==
    /\ In(w, "commit_exists")
    /\ Return(w, IF job[w] \notin objects[TreeOf[w]] THEN "commit_missing"
                 ELSE IF w \in Evaluators THEN "inspect" ELSE "merge_commit")
    /\ UNCHANGED <<dir, treeVars, broken>>

\* commit_messages_from_head and files_changed_from_head read HEAD..commit.
Inspect(w) ==
    /\ In(w, "inspect")
    /\ Return(w, "merge_commit")
    /\ UNCHANGED <<dir, treeVars, broken>>

MergeCommit(w) ==
    /\ In(w, "merge_commit")
    /\ ~merging[TreeOf[w]] /\ ~indexLock[TreeOf[w]]
    /\ head' = [head EXCEPT ![TreeOf[w]].merged = @ \cup {job[w]}]
    /\ Return(w, "merged")
    /\ UNCHANGED <<dir, origin, objects, merging, indexLock, broken>>

\* The merge stops at a conflict, which stays in the tree.
MergeConflicts(w) ==
    /\ In(w, "merge_commit")
    /\ merging' = [merging EXCEPT ![TreeOf[w]] = TRUE]
    /\ Return(w, "merge_failed")
    /\ UNCHANGED <<dir, origin, objects, head, indexLock, broken>>

-----------------------------------------------------------------------------
(* What goes wrong.                                                          *)

StartOver(w) ==
    /\ trouble < site.trouble
    /\ trouble' = trouble + 1
    /\ pc[w] # "idle"
    /\ pc' = [pc EXCEPT ![w] = "clone_cache"]
    /\ owner' = Unlocked(w)
    /\ UNCHANGED <<upstreamVars, job, named, since, broken>>

\* The worker dies between two commands or in what it does with the tree, or
\* the network fails and git with it.
Crash(w) ==
    /\ StartOver(w)
    /\ UNCHANGED <<dir, treeVars, killed>>

\* git is killed with the worker and does not clean up behind itself.
KilledInGit(w) ==
    /\ StartOver(w)
    /\ In(w, pc[w])
    /\ killed' = killed \cup {RepositoryOf(w, pc[w])}
    /\ \/ /\ pc[w] \in {"clone_cache", "clone_tree"}
          /\ dir[RepositoryOf(w, pc[w])] = "absent"
          /\ dir' = [dir EXCEPT ![RepositoryOf(w, pc[w])] = "partial"]
          /\ UNCHANGED treeVars
       \/ /\ pc[w] \in {"clean", "checkout", "merge_commit"}
          /\ indexLock' = [indexLock EXCEPT ![TreeOf[w]] = TRUE]
          /\ UNCHANGED <<dir, origin, objects, head, merging>>

-----------------------------------------------------------------------------

GitStep(w) ==
    \/ CloneCache(w)
    \/ FetchCache(w)
    \/ CloneTree(w)
    \/ FetchTree(w)
    \/ FetchRefused(w)
    \/ Clean(w)
    \/ CheckoutOriginRef(w)
    \/ CheckoutRefused(w)
    \/ FetchPr(w)
    \/ CommitExists(w)
    \/ Inspect(w)
    \/ MergeCommit(w)
    \/ MergeConflicts(w)

Next ==
    \/ MasterMoves
    \/ TargetDeleted
    \/ \E p \in Prs, force \in BOOLEAN : Push(p, force)
    \/ \E w \in Workers :
        \/ TakeJob(w)
        \/ FinishJob(w)
        \/ Lock(w)
        \/ GitStep(w)
        \/ Crash(w)
        \/ KilledInGit(w)

\* A worker works on while it runs, a git command ends, and a lock that is
\* free again and again is got at last (flock has a queue of waiters).
Fairness == \A w \in Workers : SF_vars(Lock(w)) /\ WF_vars(GitStep(w))

Spec == Init /\ [][Next]_vars /\ Fairness

-----------------------------------------------------------------------------
(* Properties.                                                               *)

TypeOK ==
    /\ site \in Sites
    /\ master \in 0..MaxMaster
    /\ gone \in BOOLEAN
    /\ pushed \in [Prs -> 1..MaxPushes]
    /\ oldest \in [Prs -> 1..MaxPushes]
    /\ dir \in [Repositories -> {"absent", "partial", "cloned"}]
    /\ origin \in [Trees -> NoRef..MaxMaster]
    /\ objects \in [Trees -> SUBSET Commits]
    /\ head \in [Trees -> [base : NoRef..MaxMaster, merged : SUBSET Commits]]
    /\ merging \in [Trees -> BOOLEAN]
    /\ indexLock \in [Trees -> BOOLEAN]
    /\ owner \in [Repositories -> Workers \cup {Nobody}]
    /\ pc \in [Workers -> Calls \cup Verdicts \cup {"idle"}]
    /\ job \in [Workers -> Commits \cup {NoJob}]
    /\ named \in [Workers -> BOOLEAN]
    /\ since \in [Workers -> 0..MaxMaster]
    /\ killed \in SUBSET Repositories
    /\ broken \in SUBSET [worker : Workers, call : Calls, named : BOOLEAN]
    /\ trouble \in 0..site.trouble

\* Type correctness, and: a lock is held by a worker in a call on that very
\* repository and by nobody else, also after panics, crashes and kills.
TypeInv ==
    /\ TypeOK
    /\ \A r \in Repositories : owner[r] # Nobody =>
        pc[owner[r]] \in Calls /\ RepositoryOf(owner[r], pc[owner[r]]) = r

\* What is built is what was asked for: the job's commit and nothing else,
\* merged into a target branch at least as new as the job, whatever earlier
\* jobs, crashes and pushes left in the tree.  Only of a target branch that was
\* deleted may it be an older commit, from the last fetch that found it.
BuildsWhatWasAsked ==
    TypeInv /\ \A w \in Workers : pc[w] = "merged" =>
        /\ head[TreeOf[w]].merged = {job[w]}
        /\ head[TreeOf[w]].base \in (IF gone THEN 0 ELSE since[w])..master

\* What the evaluator compares the commit with (HEAD..commit) is the target
\* branch without the pull request, and git knows the commit.
InspectsTheTarget ==
    \A w \in Workers : pc[w] = "inspect" =>
        /\ head[TreeOf[w]].merged = {}
        /\ head[TreeOf[w]].base >= IF gone THEN 0 ELSE since[w]
        /\ job[w] \in objects[TreeOf[w]]

\* A job is dropped as "Commit doesn't exist" only if the pull request was
\* force-pushed and no longer leads to the commit.
MissingIsForcePushed ==
    \A w \in Workers : pc[w] = "commit_missing" => job[w] \notin Reachable(job[w][1])

\* When git refuses a call, a git command was killed in that very repository, or
\* the reference to check out does not exist: the job is a builder's and names
\* no target branch, or the tree was cloned when the branch was deleted already.
\* What failed merges, panics between two commands and failed fetches leave
\* behind is cleaned up by the next job.
RefusalsExplained ==
    \A b \in broken :
        \/ RepositoryOf(b.worker, b.call) \in killed
        \/ b.call = "checkout" /\ ~b.named /\ b.worker \notin Evaluators
        \/ b.call = "checkout" /\ origin[TreeOf[b.worker]] = NoRef

\* Every job comes to a verdict unless git has refused its worker something: no
\* worker waits for ever for a lock, or for another that comes to no verdict.
JobsGetVerdicts ==
    \A w \in Workers :
        pc[w] \in Calls ~> (pc[w] \in Verdicts \/ \E b \in broken : b.worker = w)

\* "Found dir at {:?}, initial clone is done" (clone.rs:54): behind
\* clone_repo there is a complete clone.
InitialCloneIsDone ==
    \A w \in Workers :
        /\ pc[w] \in Calls \ {"clone_cache"} => dir[Cache] = "cloned"
        /\ pc[w] \in Calls \ {"clone_cache", "fetch_cache", "clone_tree"} =>
                dir[TreeOf[w]] = "cloned"
=============================================================================
