--------------------------- MODULE CheckoutProofs ---------------------------
(***************************************************************************)
(* What the workers of a machine make of their trees, for any number of     *)
(* workers, pull requests, pushes, crashes and killed git commands: module  *)
(* Checkout.                                                                *)
(*                                                                          *)
(* The inductive invariant Inv says what a worker knows of its tree, by the *)
(* call it is in (JobInv, FetchedInv, HeadInv, CommitInv).  No other worker *)
(* takes that away, because no two have the same tree (OthersStay), and     *)
(* neither do pushes (UpstreamStep); whoever starts over knows nothing.     *)
(***************************************************************************)
EXTENDS Checkout, TLAPS

\* What git refused is explained, and will be: a reference that is missing does
\* not come back.
RefusalInv ==
    /\ RefusalsExplained
    /\ \A t \in Trees : origin[t] = NoRef => gone

\* A killed git command left the locks and the half clones, and no tree is ahead
\* of the target branch.
RepositoryInv ==
    /\ \A r \in Repositories : dir[r] = "partial" => r \in killed
    /\ \A t \in Trees : /\ indexLock[t] => t \in killed
                        /\ origin[t] <= master /\ head[t].base <= master

\* Somebody who holds a lock is in a call on that repository.
LockInv ==
    \A r \in Repositories : owner[r] # Nobody =>
        pc[owner[r]] \in Calls /\ RepositoryOf(owner[r], pc[owner[r]]) = r

\* What a worker has made of its tree, by the call it is in.
JobInv(w) ==
    pc[w] # "idle" => /\ job[w] \in Commits /\ job[w][2] <= pushed[job[w][1]]
                      /\ since[w] <= master
FetchedInv(w) ==
    /\ pc[w] \in {"clean", "checkout"} => gone \/ since[w] <= origin[TreeOf[w]]
    /\ pc[w] = "checkout" /\ merging[TreeOf[w]] => TreeOf[w] \in killed
OnTarget(w, merged) ==
    /\ head[TreeOf[w]].merged = merged
    /\ 0 <= head[TreeOf[w]].base
    /\ gone \/ since[w] <= head[TreeOf[w]].base
HeadInv(w) ==
    /\ pc[w] \in {"fetch_pr", "commit_exists", "inspect", "merge_commit"} => OnTarget(w, {})
    /\ pc[w] = "merged" => OnTarget(w, {job[w]})
CommitInv(w) ==
    /\ pc[w] = "commit_exists" /\ job[w] \in Reachable(job[w][1]) => job[w] \in objects[TreeOf[w]]
    /\ pc[w] = "inspect" => job[w] \in objects[TreeOf[w]]
    /\ pc[w] = "commit_missing" => job[w] \notin Reachable(job[w][1])
WorkerInv(w) == JobInv(w) /\ FetchedInv(w) /\ HeadInv(w) /\ CommitInv(w)

Inv == TypeOK /\ RefusalInv /\ RepositoryInv /\ LockInv /\ \A w \in Workers : WorkerInv(w)

\* The steps of a worker.
Act(w) == TakeJob(w) \/ FinishJob(w) \/ Lock(w) \/ GitStep(w) \/ Crash(w) \/ KilledInGit(w)

USE RepositoryAssumption, BoundAssumption
    DEF In, Return, NoRef, upstreamVars, treeVars, workerVars, historyVars

\* No two workers have the same tree, and none has the cache.
LEMMA Places ==
  ASSUME NEW w \in Workers
  PROVE  /\ TreeOf[w] \in Trees /\ TreeOf[w] \in Repositories /\ TreeOf[w] # Cache /\ Cache \in Repositories
         /\ \A call : RepositoryOf(w, call) \in {TreeOf[w], Cache}
         /\ \A call : call \notin {"clone_cache", "fetch_cache"} => RepositoryOf(w, call) = TreeOf[w]
         /\ \A v \in Workers \ {w} : TreeOf[v] # TreeOf[w]
BY DEF RepositoryOf, Repositories

\* A worker leaves the others and their trees alone.
LEMMA OthersStay ==
  ASSUME Inv, NEW w \in Workers, Act(w)
  PROVE  /\ UNCHANGED upstreamVars /\ killed \subseteq killed'
         /\ \A v \in Workers \ {w} : /\ pc'[v] = pc[v] /\ job'[v] = job[v] /\ since'[v] = since[v]
                                     /\ origin'[TreeOf[v]] = origin[TreeOf[v]]
                                     /\ head'[TreeOf[v]] = head[TreeOf[v]]
                                     /\ merging'[TreeOf[v]] = merging[TreeOf[v]]
                                     /\ objects[TreeOf[v]] \subseteq objects'[TreeOf[v]]
<1>1. CASE TakeJob(w)
  BY <1>1, Places DEF TakeJob, Inv, TypeOK
<1>2. CASE FinishJob(w)
  BY <1>2, Places DEF FinishJob, Inv, TypeOK
<1>3. CASE Lock(w)
  BY <1>3, Places DEF Lock, Inv, TypeOK
<1>4. CASE CloneCache(w)
  BY <1>4, Places DEF CloneCache, Clone, Inv, TypeOK
<1>5. CASE FetchCache(w)
  BY <1>5, Places DEF FetchCache, Inv, TypeOK
<1>6. CASE CloneTree(w)
  BY <1>6, Places DEF CloneTree, Clone, Inv, TypeOK
<1>7. CASE FetchTree(w)
  BY <1>7, Places DEF FetchTree, Inv, TypeOK
<1>8. CASE FetchRefused(w)
  BY <1>8, Places DEF FetchRefused, Refused, Inv, TypeOK
<1>9. CASE Clean(w)
  BY <1>9, Places DEF Clean, Inv, TypeOK
<1>10. CASE CheckoutOriginRef(w)
  BY <1>10, Places DEF CheckoutOriginRef, Inv, TypeOK
<1>11. CASE CheckoutRefused(w)
  BY <1>11, Places DEF CheckoutRefused, Refused, Inv, TypeOK
<1>12. CASE FetchPr(w)
  BY <1>12, Places DEF FetchPr, Inv, TypeOK
<1>13. CASE CommitExists(w)
  BY <1>13, Places DEF CommitExists, Inv, TypeOK
<1>14. CASE Inspect(w)
  BY <1>14, Places DEF Inspect, Inv, TypeOK
<1>15. CASE MergeCommit(w)
  BY <1>15, Places DEF MergeCommit, Inv, TypeOK
<1>16. CASE MergeConflicts(w)
  <2>1. UNCHANGED upstreamVars /\ UNCHANGED <<killed, job, since, origin, head, objects>>
    BY <1>16 DEF MergeConflicts
  <2>2. \A v \in Workers \ {w} : pc'[v] = pc[v]
    BY <1>16 DEF MergeConflicts, Inv, TypeOK
  <2>3. \A v \in Workers \ {w} : merging'[TreeOf[v]] = merging[TreeOf[v]]
    BY <1>16, Places DEF MergeConflicts, Inv, TypeOK
  <2> QED
    BY <2>1, <2>2, <2>3
<1>17. CASE Crash(w)
  BY <1>17, Places DEF Crash, StartOver, Inv, TypeOK
<1>18. CASE KilledInGit(w)
  BY <1>18, Places DEF KilledInGit, StartOver, Inv, TypeOK
<1> QED
  BY <1>1, <1>2, <1>3, <1>4, <1>5, <1>6, <1>7, <1>8, <1>9, <1>10, <1>11, <1>12, <1>13, <1>14, <1>15, <1>16, <1>17, <1>18 DEF Act, GitStep

-----------------------------------------------------------------------------
(* One lemma for each part of the invariant: every step of a worker keeps it. *)

LEMMA TypeStep ==
  ASSUME Inv, NEW w \in Workers, Act(w)
  PROVE  TypeOK'
<1>1. CASE TakeJob(w)
  <2>1. job' \in [Workers -> Commits \cup {NoJob}]
    <3>1. PICK p \in site.prs : \E n \in 1..pushed[p] : job' = [job EXCEPT ![w] = <<p, n>>]
      BY <1>1 DEF TakeJob
    <3>2. PICK n \in 1..pushed[p] : job' = [job EXCEPT ![w] = <<p, n>>]
      BY <3>1
    <3>3. p \in Prs /\ pushed[p] \in 1..MaxPushes
      BY DEF Inv, TypeOK
    <3>4. n \in 1..MaxPushes
      BY <3>3
    <3>5. <<p, n>> \in Commits
      BY <3>3, <3>4 DEF Commits
    <3> QED
      BY <3>2, <3>5 DEF Inv, TypeOK
  <2>2. pc' \in [Workers -> Calls \cup Verdicts \cup {"idle"}] /\ since' \in [Workers -> 0..MaxMaster]
    BY <1>1 DEF TakeJob, Inv, TypeOK, Calls
  <2>3. named' \in [Workers -> BOOLEAN]
    <3>1. PICK names \in site.names : named' = [named EXCEPT ![w] = names]
      BY <1>1 DEF TakeJob
    <3>2. names \in BOOLEAN
      BY <3>1 DEF Inv, TypeOK
    <3> QED
      BY <3>1, <3>2 DEF Inv, TypeOK
  <2> QED
    BY <1>1, <2>1, <2>2, <2>3 DEF TakeJob, Inv, TypeOK
<1>2. CASE FinishJob(w)
  BY <1>2, Places DEF FinishJob, Inv, TypeOK, Calls, Verdicts
<1>3. CASE Lock(w)
  BY <1>3, Places DEF Lock, Inv, TypeOK, Calls, Verdicts
<1>4. CASE CloneCache(w)
  <2>1. owner' \in [Repositories -> Workers \cup {Nobody}]
    BY <1>4, Places DEF CloneCache, Clone, Inv, TypeOK
  <2>2. pc' \in [Workers -> Calls \cup Verdicts \cup {"idle"}]
    BY <1>4 DEF CloneCache, Clone, Inv, TypeOK, Calls, Verdicts
  <2>3. dir' \in [Repositories -> {"absent", "partial", "cloned"}] /\ UNCHANGED treeVars
    BY <1>4 DEF CloneCache, Clone, RepositoryOf, Inv, TypeOK
  <2> QED
    BY <1>4, <2>1, <2>2, <2>3 DEF CloneCache, Clone, Inv, TypeOK
<1>5. CASE FetchCache(w)
  BY <1>5, Places DEF FetchCache, Inv, TypeOK, Calls, Verdicts
<1>6. CASE CloneTree(w)
  <2>1. owner' \in [Repositories -> Workers \cup {Nobody}]
    BY <1>6, Places DEF CloneTree, Clone, Inv, TypeOK
  <2>2. pc' \in [Workers -> Calls \cup Verdicts \cup {"idle"}]
    BY <1>6 DEF CloneTree, Clone, Inv, TypeOK, Calls, Verdicts
  <2>3. dir' \in [Repositories -> {"absent", "partial", "cloned"}]
    BY <1>6 DEF CloneTree, Clone, RepositoryOf, Inv, TypeOK
  <2>4. head' \in [Trees -> [base : NoRef..MaxMaster, merged : SUBSET Commits]]
    <3>1. [base |-> Upstream, merged |-> {}] \in [base : NoRef..MaxMaster, merged : SUBSET Commits]
      BY DEF Inv, TypeOK, Upstream
    <3>2. head' \in {head, [head EXCEPT ![TreeOf[w]] = [base |-> Upstream, merged |-> {}]]}
      BY <1>6, Places DEF CloneTree, Clone
    <3>3. TreeOf[w] \in Trees /\ head \in [Trees -> [base : NoRef..MaxMaster, merged : SUBSET Commits]]
      BY Places DEF Inv, TypeOK
    <3> QED
      BY <3>1, <3>2, <3>3
  <2>5. origin' \in [Trees -> NoRef..MaxMaster]
    <3>1. origin' \in {origin, [origin EXCEPT ![TreeOf[w]] = Upstream]}
      BY <1>6, Places DEF CloneTree, Clone
    <3>2. TreeOf[w] \in Trees /\ origin \in [Trees -> NoRef..MaxMaster] /\ Upstream \in NoRef..MaxMaster
      BY Places DEF Inv, TypeOK, Upstream
    <3> QED
      BY <3>1, <3>2
  <2>6. UNCHANGED <<objects, merging, indexLock>>
    BY <1>6 DEF CloneTree, Clone
  <2> QED
    BY <1>6, <2>1, <2>2, <2>3, <2>4, <2>5, <2>6 DEF CloneTree, Clone, Inv, TypeOK
<1>7. CASE FetchTree(w)
  <2>1. owner' \in [Repositories -> Workers \cup {Nobody}]
    BY <1>7, Places DEF FetchTree, Inv, TypeOK
  <2>2. pc' \in [Workers -> Calls \cup Verdicts \cup {"idle"}]
    BY <1>7 DEF FetchTree, Inv, TypeOK, Calls, Verdicts
  <2>3. origin' \in [Trees -> NoRef..MaxMaster]
    BY <1>7, Places DEF FetchTree, Inv, TypeOK
  <2> QED
    BY <1>7, <2>1, <2>2, <2>3 DEF FetchTree, Inv, TypeOK
<1>8. CASE FetchRefused(w)
  <2>1. owner' \in [Repositories -> Workers \cup {Nobody}]
    BY <1>8, Places DEF FetchRefused, Refused, Inv, TypeOK
  <2>2. pc' \in [Workers -> Calls \cup Verdicts \cup {"idle"}]
    BY <1>8 DEF FetchRefused, Refused, Inv, TypeOK, Calls, Verdicts
  <2>3. broken' \in SUBSET [worker : Workers, call : Calls, named : BOOLEAN]
    BY <1>8 DEF FetchRefused, Refused, Inv, TypeOK, Calls
  <2> QED
    BY <1>8, <2>1, <2>2, <2>3 DEF FetchRefused, Refused, Inv, TypeOK
<1>9. CASE Clean(w)
  BY <1>9, Places DEF Clean, Inv, TypeOK, Calls, Verdicts
<1>10. CASE CheckoutOriginRef(w)
  BY <1>10, Places DEF CheckoutOriginRef, Inv, TypeOK, Calls, Verdicts
<1>11. CASE CheckoutRefused(w)
  <2>1. owner' \in [Repositories -> Workers \cup {Nobody}]
    BY <1>11, Places DEF CheckoutRefused, Refused, Inv, TypeOK
  <2>2. pc' \in [Workers -> Calls \cup Verdicts \cup {"idle"}]
    BY <1>11 DEF CheckoutRefused, Refused, Inv, TypeOK, Calls, Verdicts
  <2>3. broken' \in SUBSET [worker : Workers, call : Calls, named : BOOLEAN]
    BY <1>11 DEF CheckoutRefused, Refused, Inv, TypeOK, Calls
  <2> QED
    BY <1>11, <2>1, <2>2, <2>3 DEF CheckoutRefused, Refused, Inv, TypeOK
<1>12. CASE FetchPr(w)
  <2>1. owner' \in [Repositories -> Workers \cup {Nobody}]
    BY <1>12, Places DEF FetchPr, Inv, TypeOK
  <2>2. pc' \in [Workers -> Calls \cup Verdicts \cup {"idle"}]
    BY <1>12 DEF FetchPr, Inv, TypeOK, Calls, Verdicts
  <2>3. objects' \in [Trees -> SUBSET Commits]
    <3>1. job[w] \in Prs \X (1..MaxPushes)
      BY <1>12 DEF FetchPr, Inv, WorkerInv, JobInv, Commits
    <3>2. oldest[job[w][1]] \in 1..MaxPushes /\ pushed[job[w][1]] \in 1..MaxPushes /\ job[w][1] \in Prs
      BY <3>1 DEF Inv, TypeOK
    <3>3. Reachable(job[w][1]) \subseteq Commits
      BY <3>2 DEF Reachable, Commits
    <3> QED
      BY <1>12, <3>3, Places DEF FetchPr, Inv, TypeOK
  <2> QED
    BY <1>12, <2>1, <2>2, <2>3 DEF FetchPr, Inv, TypeOK
<1>13. CASE CommitExists(w)
  BY <1>13, Places DEF CommitExists, Inv, TypeOK, Calls, Verdicts
<1>14. CASE Inspect(w)
  BY <1>14, Places DEF Inspect, Inv, TypeOK, Calls, Verdicts
<1>15. CASE MergeCommit(w)
  <2>1. owner' \in [Repositories -> Workers \cup {Nobody}]
    BY <1>15, Places DEF MergeCommit, Inv, TypeOK
  <2>2. pc' \in [Workers -> Calls \cup Verdicts \cup {"idle"}]
    BY <1>15 DEF MergeCommit, Inv, TypeOK, Calls, Verdicts
  <2>3. head' \in [Trees -> [base : NoRef..MaxMaster, merged : SUBSET Commits]]
    <3>1. job[w] \in Commits
      BY <1>15 DEF MergeCommit, Inv, WorkerInv, JobInv
    <3>2. TreeOf[w] \in Trees /\ head[TreeOf[w]] \in [base : NoRef..MaxMaster, merged : SUBSET Commits]
      BY Places DEF Inv, TypeOK
    <3>3. [head[TreeOf[w]] EXCEPT !.merged = @ \cup {job[w]}] \in [base : NoRef..MaxMaster, merged : SUBSET Commits]
      BY <3>1, <3>2
    <3>4. head' = [head EXCEPT ![TreeOf[w]] = [head[TreeOf[w]] EXCEPT !.merged = @ \cup {job[w]}]]
      BY <1>15 DEF MergeCommit
    <3> QED
      BY <3>2, <3>3, <3>4 DEF Inv, TypeOK
  <2> QED
    BY <1>15, <2>1, <2>2, <2>3 DEF MergeCommit, Inv, TypeOK
<1>16. CASE MergeConflicts(w)
  BY <1>16, Places DEF MergeConflicts, Inv, TypeOK, Calls, Verdicts
<1>17. CASE Crash(w)
  <2>1. owner' \in [Repositories -> Workers \cup {Nobody}]
    BY <1>17 DEF Crash, StartOver, Unlocked, Inv, TypeOK
  <2>2. pc' \in [Workers -> Calls \cup Verdicts \cup {"idle"}]
    BY <1>17 DEF Crash, StartOver, Inv, TypeOK, Calls
  <2>3. trouble' \in 0..site.trouble
    BY <1>17 DEF Crash, StartOver, Inv, TypeOK
  <2> QED
    BY <1>17, <2>1, <2>2, <2>3 DEF Crash, StartOver, Inv, TypeOK
<1>18. CASE KilledInGit(w)
  <2>1. owner' \in [Repositories -> Workers \cup {Nobody}]
    BY <1>18 DEF KilledInGit, StartOver, Unlocked, Inv, TypeOK
  <2>2. pc' \in [Workers -> Calls \cup Verdicts \cup {"idle"}]
    BY <1>18 DEF KilledInGit, StartOver, Inv, TypeOK, Calls
  <2>3. trouble' \in 0..site.trouble
    BY <1>18 DEF KilledInGit, StartOver, Inv, TypeOK
  <2>4. killed' \in SUBSET Repositories
    <3>1. RepositoryOf(w, pc[w]) \in Repositories
      BY Places
    <3> QED
      BY <1>18, <3>1 DEF KilledInGit, Inv, TypeOK
  <2>5. /\ dir' \in {dir, [dir EXCEPT ![RepositoryOf(w, pc[w])] = "partial"]}
        /\ indexLock' \in {indexLock, [indexLock EXCEPT ![TreeOf[w]] = TRUE]}
        /\ UNCHANGED <<origin, objects, head, merging>>
    BY <1>18 DEF KilledInGit
  <2>6. dir' \in [Repositories -> {"absent", "partial", "cloned"}]
    BY <2>5 DEF Inv, TypeOK
  <2>7. indexLock' \in [Trees -> BOOLEAN]
    <3>1. indexLock \in [Trees -> BOOLEAN]
      BY DEF Inv, TypeOK
    <3> QED
      BY <2>5, <3>1
  <2> QED
    BY <1>18, <2>1, <2>2, <2>3, <2>4, <2>5, <2>6, <2>7 DEF KilledInGit, StartOver, Inv, TypeOK
<1> QED
  BY <1>1, <1>2, <1>3, <1>4, <1>5, <1>6, <1>7, <1>8, <1>9, <1>10, <1>11, <1>12, <1>13, <1>14, <1>15, <1>16, <1>17, <1>18 DEF Act, GitStep

LEMMA LockStep ==
  ASSUME Inv, NEW w \in Workers, Act(w)
  PROVE  LockInv'
<1>1. CASE TakeJob(w)
  <2>1. \A r \in Repositories : owner'[r] = owner[r] /\ owner[r] # w
    BY <1>1 DEF TakeJob, Inv, LockInv, Calls
  <2>2. \A v \in Workers \ {w} : pc'[v] = pc[v]
    BY <1>1 DEF TakeJob, Inv, TypeOK
  <2> QED
    BY <2>1, <2>2 DEF Inv, TypeOK, LockInv, RepositoryOf
<1>2. CASE FinishJob(w)
  BY <1>2, Places DEF FinishJob, Inv, TypeOK, LockInv, Calls, Verdicts
<1>3. CASE Lock(w)
  BY <1>3, Places DEF Lock, Inv, TypeOK, LockInv, Calls, Verdicts
<1>4. CASE CloneCache(w)
  BY <1>4, Places DEF CloneCache, Clone, Inv, TypeOK, LockInv, Calls, Verdicts
<1>5. CASE FetchCache(w)
  BY <1>5, Places DEF FetchCache, Inv, TypeOK, LockInv, Calls, Verdicts
<1>6. CASE CloneTree(w)
  BY <1>6, Places DEF CloneTree, Clone, Inv, TypeOK, LockInv, Calls, Verdicts
<1>7. CASE FetchTree(w)
  BY <1>7, Places DEF FetchTree, Inv, TypeOK, LockInv, Calls, Verdicts
<1>8. CASE FetchRefused(w)
  BY <1>8, Places DEF FetchRefused, Refused, Inv, TypeOK, LockInv, Calls, Verdicts
<1>9. CASE Clean(w)
  BY <1>9, Places DEF Clean, Inv, TypeOK, LockInv, Calls, Verdicts
<1>10. CASE CheckoutOriginRef(w)
  BY <1>10, Places DEF CheckoutOriginRef, Inv, TypeOK, LockInv, Calls, Verdicts
<1>11. CASE CheckoutRefused(w)
  BY <1>11, Places DEF CheckoutRefused, Refused, Inv, TypeOK, LockInv, Calls, Verdicts
<1>12. CASE FetchPr(w)
  BY <1>12, Places DEF FetchPr, Inv, TypeOK, LockInv, Calls, Verdicts
<1>13. CASE CommitExists(w)
  BY <1>13, Places DEF CommitExists, Inv, TypeOK, LockInv, Calls, Verdicts
<1>14. CASE Inspect(w)
  BY <1>14, Places DEF Inspect, Inv, TypeOK, LockInv, Calls, Verdicts
<1>15. CASE MergeCommit(w)
  BY <1>15, Places DEF MergeCommit, Inv, TypeOK, LockInv, Calls, Verdicts
<1>16. CASE MergeConflicts(w)
  BY <1>16, Places DEF MergeConflicts, Inv, TypeOK, LockInv, Calls, Verdicts
<1>17. CASE Crash(w)
  <2>1. \A r \in Repositories : owner'[r] # Nobody => owner'[r] = owner[r] /\ owner[r] # w
    BY <1>17 DEF Crash, StartOver, Unlocked
  <2>2. \A v \in Workers \ {w} : pc'[v] = pc[v]
    BY <1>17 DEF Crash, StartOver, Inv, TypeOK
  <2> QED
    BY <2>1, <2>2 DEF Inv, TypeOK, LockInv, RepositoryOf
<1>18. CASE KilledInGit(w)
  <2>1. \A r \in Repositories : owner'[r] # Nobody => owner'[r] = owner[r] /\ owner[r] # w
    BY <1>18 DEF KilledInGit, StartOver, Unlocked
  <2>2. \A v \in Workers \ {w} : pc'[v] = pc[v]
    BY <1>18 DEF KilledInGit, StartOver, Inv, TypeOK
  <2> QED
    BY <2>1, <2>2 DEF Inv, TypeOK, LockInv, RepositoryOf
<1> QED
  BY <1>1, <1>2, <1>3, <1>4, <1>5, <1>6, <1>7, <1>8, <1>9, <1>10, <1>11, <1>12, <1>13, <1>14, <1>15, <1>16, <1>17, <1>18 DEF Act, GitStep

LEMMA RepositoryStep ==
  ASSUME Inv, NEW w \in Workers, Act(w)
  PROVE  RepositoryInv'
<1>1. CASE TakeJob(w)
  BY <1>1, Places DEF TakeJob, Inv, TypeOK, RepositoryInv
<1>2. CASE FinishJob(w)
  BY <1>2, Places DEF FinishJob, Inv, TypeOK, RepositoryInv
<1>3. CASE Lock(w)
  BY <1>3, Places DEF Lock, Inv, TypeOK, RepositoryInv
<1>4. CASE CloneCache(w)
  <2>1. \A r \in Repositories : dir'[r] = "partial" => dir[r] = "partial"
    BY <1>4 DEF CloneCache, Clone, Inv, TypeOK
  <2>2. UNCHANGED treeVars /\ UNCHANGED <<master, killed>>
    BY <1>4 DEF CloneCache, Clone, RepositoryOf
  <2> QED
    BY <2>1, <2>2 DEF Inv, RepositoryInv
<1>5. CASE FetchCache(w)
  BY <1>5, Places DEF FetchCache, Inv, TypeOK, RepositoryInv
<1>6. CASE CloneTree(w)
  <2>1. /\ origin' \in {origin, [origin EXCEPT ![TreeOf[w]] = Upstream]}
        /\ head' \in {head, [head EXCEPT ![TreeOf[w]] = [base |-> Upstream, merged |-> {}]]}
        /\ UNCHANGED <<master, killed, indexLock>>
    BY <1>6, Places DEF CloneTree, Clone
  <2>2. \A r \in Repositories : dir'[r] = "partial" => dir[r] = "partial"
    BY <1>6 DEF CloneTree, Clone, Inv, TypeOK
  <2>3. TreeOf[w] \in Trees /\ master \in Nat /\ Upstream \in Int /\ Upstream <= master
    BY Places DEF Inv, TypeOK, Upstream
  <2>4. \A t \in Trees : origin'[t] \in {origin[t], Upstream}
    BY <2>1, <2>3 DEF Inv, TypeOK
  <2>5. \A t \in Trees : head'[t].base \in {head[t].base, Upstream}
    BY <2>1, <2>3 DEF Inv, TypeOK
  <2>6. \A t \in Trees : origin'[t] <= master' /\ head'[t].base <= master'
    BY <2>1, <2>3, <2>4, <2>5 DEF Inv, RepositoryInv
  <2> QED
    BY <2>1, <2>2, <2>6 DEF Inv, RepositoryInv
<1>7. CASE FetchTree(w)
  BY <1>7, Places DEF FetchTree, Inv, TypeOK, RepositoryInv
<1>8. CASE FetchRefused(w)
  BY <1>8 DEF FetchRefused, Refused, Inv, RepositoryInv
<1>9. CASE Clean(w)
  BY <1>9, Places DEF Clean, Inv, TypeOK, RepositoryInv
<1>10. CASE CheckoutOriginRef(w)
  BY <1>10, Places DEF CheckoutOriginRef, Inv, TypeOK, RepositoryInv
<1>11. CASE CheckoutRefused(w)
  BY <1>11 DEF CheckoutRefused, Refused, Inv, RepositoryInv
<1>12. CASE FetchPr(w)
  BY <1>12, Places DEF FetchPr, Inv, TypeOK, RepositoryInv
<1>13. CASE CommitExists(w)
  BY <1>13, Places DEF CommitExists, Inv, TypeOK, RepositoryInv
<1>14. CASE Inspect(w)
  BY <1>14, Places DEF Inspect, Inv, TypeOK, RepositoryInv
<1>15. CASE MergeCommit(w)
  BY <1>15, Places DEF MergeCommit, Inv, TypeOK, RepositoryInv
<1>16. CASE MergeConflicts(w)
  BY <1>16, Places DEF MergeConflicts, Inv, TypeOK, RepositoryInv
<1>17. CASE Crash(w)
  BY <1>17, Places DEF Crash, StartOver, Inv, TypeOK, RepositoryInv
<1>18. CASE KilledInGit(w)
  <2>1. /\ killed' = killed \cup {RepositoryOf(w, pc[w])} /\ UNCHANGED <<origin, head, master>>
        /\ dir' \in {dir, [dir EXCEPT ![RepositoryOf(w, pc[w])] = "partial"]}
    BY <1>18 DEF KilledInGit, StartOver
  <2>2. \A r \in Repositories : dir'[r] = "partial" => r \in killed'
    BY <2>1 DEF Inv, TypeOK, RepositoryInv
  <2>3. \A t \in Trees : indexLock'[t] => t \in killed'
    BY <1>18, Places DEF KilledInGit, Inv, TypeOK, RepositoryInv
  <2> QED
    BY <2>1, <2>2, <2>3 DEF Inv, RepositoryInv
<1> QED
  BY <1>1, <1>2, <1>3, <1>4, <1>5, <1>6, <1>7, <1>8, <1>9, <1>10, <1>11, <1>12, <1>13, <1>14, <1>15, <1>16, <1>17, <1>18 DEF Act, GitStep

\* What explains a refusal.
Explained(b) ==
    \/ RepositoryOf(b.worker, b.call) \in killed
    \/ b.call = "checkout" /\ ~b.named /\ b.worker \notin Evaluators
    \/ b.call = "checkout" /\ origin[TreeOf[b.worker]] = NoRef

\* References come with a clone or a fetch.
LEMMA References ==
  ASSUME Inv, NEW w \in Workers, Act(w)
  PROVE  \A t \in Trees : origin'[t] \in {origin[t], Upstream}
<1>1. CASE CloneTree(w)
  <2>1. origin' \in {origin, [origin EXCEPT ![TreeOf[w]] = Upstream]}
    BY <1>1, Places DEF CloneTree, Clone
  <2> QED
    BY <2>1, Places DEF Inv, TypeOK
<1>2. CASE FetchTree(w)
  BY <1>2, Places DEF FetchTree, Inv, TypeOK, Upstream
<1>3. CASE CloneCache(w)
  BY <1>3 DEF CloneCache, Clone, RepositoryOf
<1>4. ASSUME ~CloneTree(w), ~FetchTree(w), ~CloneCache(w)
      PROVE  origin' = origin
  BY <1>4 DEF Act, GitStep, TakeJob, FinishJob, Lock, FetchCache, FetchRefused, Refused, Clean,
              CheckoutOriginRef, CheckoutRefused, FetchPr, CommitExists, Inspect, MergeCommit,
              MergeConflicts, Crash, KilledInGit
<1> QED
  BY <1>1, <1>2, <1>3, <1>4

LEMMA NewRefusal ==
  ASSUME Inv, NEW w \in Workers, Act(w)
  PROVE  broken' = broken \/ \E b : broken' = broken \cup {b} /\ Explained(b) /\ b.worker \in Workers
<1>1. CASE FetchRefused(w)
  <2> DEFINE b == [worker |-> w, call |-> pc[w], named |-> named[w]]
  <2>1. broken' = broken \cup {b}
    BY <1>1 DEF FetchRefused, Refused
  <2>2. RepositoryOf(w, pc[w]) \in Repositories /\ dir[RepositoryOf(w, pc[w])] = "partial"
    BY <1>1, Places DEF FetchRefused
  <2>3. RepositoryOf(b.worker, b.call) \in killed
    BY <2>2 DEF Inv, RepositoryInv
  <2> QED
    BY <2>1, <2>3 DEF Explained
<1>2. CASE CheckoutRefused(w)
  <2> DEFINE b == [worker |-> w, call |-> pc[w], named |-> named[w]]
  <2>1. broken' = broken \cup {b} /\ b.call = "checkout"
    BY <1>2 DEF CheckoutRefused, Refused
  <2>2. RepositoryOf(w, "checkout") = TreeOf[w]
    BY Places
  <2>3. CASE merging[TreeOf[w]] \/ indexLock[TreeOf[w]]
    <3>1. TreeOf[w] \in killed
      BY <1>2, <2>3, Places DEF CheckoutRefused, Inv, WorkerInv, FetchedInv, RepositoryInv
    <3> QED
      BY <2>1, <2>2, <3>1 DEF Explained
  <2>4. CASE ~Resolves(w)
    BY <2>1, <2>4 DEF Resolves, Explained
  <2> QED
    BY <1>2, <2>3, <2>4 DEF CheckoutRefused
<1>3. ASSUME ~FetchRefused(w), ~CheckoutRefused(w)
      PROVE  broken' = broken
  BY <1>3 DEF Act, GitStep, TakeJob, FinishJob, Lock, CloneCache, CloneTree, Clone, FetchCache, FetchTree,
              Clean, CheckoutOriginRef, FetchPr, CommitExists, Inspect, MergeCommit, MergeConflicts,
              Crash, KilledInGit, StartOver
<1> QED
  BY <1>1, <1>2, <1>3

LEMMA RefusalStep ==
  ASSUME Inv, NEW w \in Workers, Act(w)
  PROVE  RefusalInv'
<1>1. killed \subseteq killed' /\ gone' = gone
  BY OthersStay
<1>2. \A t \in Trees : /\ origin[t] = NoRef => origin'[t] = NoRef
                       /\ origin'[t] = NoRef => gone'
  BY <1>1, References DEF Inv, RefusalInv, TypeOK, Upstream
<1>3. ASSUME NEW b \in broken'
      PROVE  Explained(b) /\ b.worker \in Workers
  BY <1>3, NewRefusal DEF Inv, RefusalInv, RefusalsExplained, Explained, TypeOK
<1>4. ASSUME NEW b \in broken'
      PROVE  Explained(b)'
  <2>1. TreeOf[b.worker] \in Trees
    BY <1>3, Places
  <2>2. RepositoryOf(b.worker, b.call) \in killed => RepositoryOf(b.worker, b.call) \in killed'
    BY <1>1
  <2>3. origin[TreeOf[b.worker]] = NoRef => origin'[TreeOf[b.worker]] = NoRef
    BY <1>2, <2>1
  <2>4. Explained(b)
    BY <1>3, <1>4
  <2> QED
    BY <2>2, <2>3, <2>4 DEF Explained, RepositoryOf
<1> QED
  BY <1>2, <1>4 DEF RefusalInv, RefusalsExplained, Explained

LEMMA JobStep ==
  ASSUME Inv, NEW w \in Workers, Act(w)
  PROVE  JobInv(w)'
<1>1. CASE TakeJob(w)
  <2>1. PICK p \in site.prs : \E n \in 1..pushed[p] : job' = [job EXCEPT ![w] = <<p, n>>]
    BY <1>1 DEF TakeJob
  <2>2. PICK n \in 1..pushed[p] : job' = [job EXCEPT ![w] = <<p, n>>]
    BY <2>1
  <2>3. p \in Prs /\ pushed[p] \in 1..MaxPushes
    BY DEF Inv, TypeOK
  <2>4. n \in 1..MaxPushes /\ n <= pushed[p]
    BY <2>3
  <2>5. job'[w] = <<p, n>> /\ job'[w] \in Commits
    BY <2>2, <2>3, <2>4 DEF Commits, Inv, TypeOK
  <2>6. since'[w] = master /\ master' = master /\ pushed' = pushed
    BY <1>1 DEF TakeJob, Inv, TypeOK
  <2>7. since'[w] <= master'
    BY <2>6 DEF Inv, TypeOK
  <2> QED
    BY <2>4, <2>5, <2>6, <2>7 DEF JobInv
<1>2. CASE FinishJob(w)
  BY <1>2 DEF FinishJob, Inv, TypeOK, WorkerInv, JobInv, Calls, Verdicts
<1>3. CASE Lock(w)
  BY <1>3 DEF Lock, Inv, TypeOK, WorkerInv, JobInv, Calls, Verdicts
<1>4. CASE CloneCache(w)
  BY <1>4 DEF CloneCache, Clone, Inv, TypeOK, WorkerInv, JobInv, Calls, Verdicts
<1>5. CASE FetchCache(w)
  BY <1>5 DEF FetchCache, Inv, TypeOK, WorkerInv, JobInv, Calls, Verdicts
<1>6. CASE CloneTree(w)
  BY <1>6 DEF CloneTree, Clone, Inv, TypeOK, WorkerInv, JobInv, Calls, Verdicts
<1>7. CASE FetchTree(w)
  BY <1>7 DEF FetchTree, Inv, TypeOK, WorkerInv, JobInv, Calls, Verdicts
<1>8. CASE FetchRefused(w)
  BY <1>8 DEF FetchRefused, Refused, Inv, TypeOK, WorkerInv, JobInv, Calls, Verdicts
<1>9. CASE Clean(w)
  BY <1>9 DEF Clean, Inv, TypeOK, WorkerInv, JobInv, Calls, Verdicts
<1>10. CASE CheckoutOriginRef(w)
  BY <1>10 DEF CheckoutOriginRef, Inv, TypeOK, WorkerInv, JobInv, Calls, Verdicts
<1>11. CASE CheckoutRefused(w)
  BY <1>11 DEF CheckoutRefused, Refused, Inv, TypeOK, WorkerInv, JobInv, Calls, Verdicts
<1>12. CASE FetchPr(w)
  BY <1>12 DEF FetchPr, Inv, TypeOK, WorkerInv, JobInv, Calls, Verdicts
<1>13. CASE CommitExists(w)
  BY <1>13 DEF CommitExists, Inv, TypeOK, WorkerInv, JobInv, Calls, Verdicts
<1>14. CASE Inspect(w)
  BY <1>14 DEF Inspect, Inv, TypeOK, WorkerInv, JobInv, Calls, Verdicts
<1>15. CASE MergeCommit(w)
  BY <1>15 DEF MergeCommit, Inv, TypeOK, WorkerInv, JobInv, Calls, Verdicts
<1>16. CASE MergeConflicts(w)
  BY <1>16 DEF MergeConflicts, Inv, TypeOK, WorkerInv, JobInv, Calls, Verdicts
<1>17. CASE Crash(w)
  BY <1>17 DEF Crash, StartOver, Inv, TypeOK, WorkerInv, JobInv, Calls, Verdicts
<1>18. CASE KilledInGit(w)
  BY <1>18 DEF KilledInGit, StartOver, Inv, TypeOK, WorkerInv, JobInv, Calls, Verdicts
<1> QED
  BY <1>1, <1>2, <1>3, <1>4, <1>5, <1>6, <1>7, <1>8, <1>9, <1>10, <1>11, <1>12, <1>13, <1>14, <1>15, <1>16, <1>17, <1>18 DEF Act, GitStep

LEMMA FetchedStep ==
  ASSUME Inv, NEW w \in Workers, Act(w)
  PROVE  FetchedInv(w)'
<1>1. CASE TakeJob(w)
  BY <1>1, Places DEF TakeJob, Inv, TypeOK, RepositoryInv, WorkerInv, JobInv, FetchedInv, Calls, Verdicts
<1>2. CASE FinishJob(w)
  BY <1>2, Places DEF FinishJob, Inv, TypeOK, RepositoryInv, WorkerInv, JobInv, FetchedInv, Calls, Verdicts
<1>3. CASE Lock(w)
  BY <1>3, Places DEF Lock, Inv, TypeOK, RepositoryInv, WorkerInv, JobInv, FetchedInv, Calls, Verdicts
<1>4. CASE CloneCache(w)
  BY <1>4, Places DEF CloneCache, Clone, Inv, TypeOK, RepositoryInv, WorkerInv, JobInv, FetchedInv, Calls, Verdicts
<1>5. CASE FetchCache(w)
  BY <1>5, Places DEF FetchCache, Inv, TypeOK, RepositoryInv, WorkerInv, JobInv, FetchedInv, Calls, Verdicts
<1>6. CASE CloneTree(w)
  BY <1>6, Places DEF CloneTree, Clone, Inv, TypeOK, RepositoryInv, WorkerInv, JobInv, FetchedInv, Calls, Verdicts
<1>7. CASE FetchTree(w)
  BY <1>7, Places DEF FetchTree, Inv, TypeOK, RepositoryInv, WorkerInv, JobInv, FetchedInv, Calls, Verdicts
<1>8. CASE FetchRefused(w)
  BY <1>8, Places DEF FetchRefused, Refused, Inv, TypeOK, RepositoryInv, WorkerInv, JobInv, FetchedInv, Calls, Verdicts
<1>9. CASE Clean(w)
  BY <1>9, Places DEF Clean, Inv, TypeOK, RepositoryInv, WorkerInv, JobInv, FetchedInv, Calls, Verdicts
<1>10. CASE CheckoutOriginRef(w)
  BY <1>10, Places DEF CheckoutOriginRef, Inv, TypeOK, RepositoryInv, WorkerInv, JobInv, FetchedInv, Calls, Verdicts
<1>11. CASE CheckoutRefused(w)
  BY <1>11, Places DEF CheckoutRefused, Refused, Inv, TypeOK, RepositoryInv, WorkerInv, JobInv, FetchedInv, Calls, Verdicts
<1>12. CASE FetchPr(w)
  BY <1>12, Places DEF FetchPr, Inv, TypeOK, RepositoryInv, WorkerInv, JobInv, FetchedInv, Calls, Verdicts
<1>13. CASE CommitExists(w)
  BY <1>13, Places DEF CommitExists, Inv, TypeOK, RepositoryInv, WorkerInv, JobInv, FetchedInv, Calls, Verdicts
<1>14. CASE Inspect(w)
  BY <1>14, Places DEF Inspect, Inv, TypeOK, RepositoryInv, WorkerInv, JobInv, FetchedInv, Calls, Verdicts
<1>15. CASE MergeCommit(w)
  BY <1>15, Places DEF MergeCommit, Inv, TypeOK, RepositoryInv, WorkerInv, JobInv, FetchedInv, Calls, Verdicts
<1>16. CASE MergeConflicts(w)
  BY <1>16, Places DEF MergeConflicts, Inv, TypeOK, RepositoryInv, WorkerInv, JobInv, FetchedInv, Calls, Verdicts
<1>17. CASE Crash(w)
  BY <1>17, Places DEF Crash, StartOver, Inv, TypeOK, RepositoryInv, WorkerInv, JobInv, FetchedInv, Calls, Verdicts
<1>18. CASE KilledInGit(w)
  BY <1>18, Places DEF KilledInGit, StartOver, Inv, TypeOK, RepositoryInv, WorkerInv, JobInv, FetchedInv, Calls, Verdicts
<1> QED
  BY <1>1, <1>2, <1>3, <1>4, <1>5, <1>6, <1>7, <1>8, <1>9, <1>10, <1>11, <1>12, <1>13, <1>14, <1>15, <1>16, <1>17, <1>18 DEF Act, GitStep

LEMMA HeadStep ==
  ASSUME Inv, NEW w \in Workers, Act(w)
  PROVE  HeadInv(w)'
<1>1. CASE TakeJob(w)
  BY <1>1, Places DEF TakeJob, Inv, TypeOK, WorkerInv, FetchedInv, HeadInv, OnTarget, Calls, Verdicts
<1>2. CASE FinishJob(w)
  BY <1>2, Places DEF FinishJob, Inv, TypeOK, WorkerInv, FetchedInv, HeadInv, OnTarget, Calls, Verdicts
<1>3. CASE Lock(w)
  BY <1>3, Places DEF Lock, Inv, TypeOK, WorkerInv, FetchedInv, HeadInv, OnTarget, Calls, Verdicts
<1>4. CASE CloneCache(w)
  BY <1>4, Places DEF CloneCache, Clone, Inv, TypeOK, WorkerInv, FetchedInv, HeadInv, OnTarget, Calls, Verdicts
<1>5. CASE FetchCache(w)
  BY <1>5, Places DEF FetchCache, Inv, TypeOK, WorkerInv, FetchedInv, HeadInv, OnTarget, Calls, Verdicts
<1>6. CASE CloneTree(w)
  BY <1>6, Places DEF CloneTree, Clone, Inv, TypeOK, WorkerInv, FetchedInv, HeadInv, OnTarget, Calls, Verdicts
<1>7. CASE FetchTree(w)
  BY <1>7, Places DEF FetchTree, Inv, TypeOK, WorkerInv, FetchedInv, HeadInv, OnTarget, Calls, Verdicts
<1>8. CASE FetchRefused(w)
  BY <1>8, Places DEF FetchRefused, Refused, Inv, TypeOK, WorkerInv, FetchedInv, HeadInv, OnTarget, Calls, Verdicts
<1>9. CASE Clean(w)
  BY <1>9, Places DEF Clean, Inv, TypeOK, WorkerInv, FetchedInv, HeadInv, OnTarget, Calls, Verdicts
<1>10. CASE CheckoutOriginRef(w)
  BY <1>10, Places DEF CheckoutOriginRef, Resolves, Inv, TypeOK, WorkerInv, FetchedInv, HeadInv, OnTarget, Calls, Verdicts
<1>11. CASE CheckoutRefused(w)
  BY <1>11, Places DEF CheckoutRefused, Refused, Inv, TypeOK, WorkerInv, FetchedInv, HeadInv, OnTarget, Calls, Verdicts
<1>12. CASE FetchPr(w)
  BY <1>12, Places DEF FetchPr, Inv, TypeOK, WorkerInv, FetchedInv, HeadInv, OnTarget, Calls, Verdicts
<1>13. CASE CommitExists(w)
  BY <1>13, Places DEF CommitExists, Inv, TypeOK, WorkerInv, FetchedInv, HeadInv, OnTarget, Calls, Verdicts
<1>14. CASE Inspect(w)
  BY <1>14, Places DEF Inspect, Inv, TypeOK, WorkerInv, FetchedInv, HeadInv, OnTarget, Calls, Verdicts
<1>15. CASE MergeCommit(w)
  BY <1>15, Places DEF MergeCommit, Inv, TypeOK, WorkerInv, FetchedInv, HeadInv, OnTarget, Calls, Verdicts
<1>16. CASE MergeConflicts(w)
  BY <1>16, Places DEF MergeConflicts, Inv, TypeOK, WorkerInv, FetchedInv, HeadInv, OnTarget, Calls, Verdicts
<1>17. CASE Crash(w)
  BY <1>17, Places DEF Crash, StartOver, Inv, TypeOK, WorkerInv, FetchedInv, HeadInv, OnTarget, Calls, Verdicts
<1>18. CASE KilledInGit(w)
  BY <1>18, Places DEF KilledInGit, StartOver, Inv, TypeOK, WorkerInv, FetchedInv, HeadInv, OnTarget, Calls, Verdicts
<1> QED
  BY <1>1, <1>2, <1>3, <1>4, <1>5, <1>6, <1>7, <1>8, <1>9, <1>10, <1>11, <1>12, <1>13, <1>14, <1>15, <1>16, <1>17, <1>18 DEF Act, GitStep

LEMMA CommitStep ==
  ASSUME Inv, NEW w \in Workers, Act(w)
  PROVE  CommitInv(w)'
<1>1. CASE TakeJob(w)
  BY <1>1, Places DEF TakeJob, Inv, TypeOK, WorkerInv, CommitInv, Reachable, Calls, Verdicts
<1>2. CASE FinishJob(w)
  BY <1>2, Places DEF FinishJob, Inv, TypeOK, WorkerInv, CommitInv, Reachable, Calls, Verdicts
<1>3. CASE Lock(w)
  BY <1>3, Places DEF Lock, Inv, TypeOK, WorkerInv, CommitInv, Reachable, Calls, Verdicts
<1>4. CASE CloneCache(w)
  BY <1>4, Places DEF CloneCache, Clone, Inv, TypeOK, WorkerInv, CommitInv, Reachable, Calls, Verdicts
<1>5. CASE FetchCache(w)
  BY <1>5, Places DEF FetchCache, Inv, TypeOK, WorkerInv, CommitInv, Reachable, Calls, Verdicts
<1>6. CASE CloneTree(w)
  BY <1>6, Places DEF CloneTree, Clone, Inv, TypeOK, WorkerInv, CommitInv, Reachable, Calls, Verdicts
<1>7. CASE FetchTree(w)
  BY <1>7, Places DEF FetchTree, Inv, TypeOK, WorkerInv, CommitInv, Reachable, Calls, Verdicts
<1>8. CASE FetchRefused(w)
  BY <1>8, Places DEF FetchRefused, Refused, Inv, TypeOK, WorkerInv, CommitInv, Reachable, Calls, Verdicts
<1>9. CASE Clean(w)
  BY <1>9, Places DEF Clean, Inv, TypeOK, WorkerInv, CommitInv, Reachable, Calls, Verdicts
<1>10. CASE CheckoutOriginRef(w)
  BY <1>10, Places DEF CheckoutOriginRef, Inv, TypeOK, WorkerInv, CommitInv, Reachable, Calls, Verdicts
<1>11. CASE CheckoutRefused(w)
  BY <1>11, Places DEF CheckoutRefused, Refused, Inv, TypeOK, WorkerInv, CommitInv, Reachable, Calls, Verdicts
<1>12. CASE FetchPr(w)
  BY <1>12, Places DEF FetchPr, Inv, TypeOK, WorkerInv, CommitInv, Reachable, Calls, Verdicts
<1>13. CASE CommitExists(w)
  BY <1>13, Places DEF CommitExists, Inv, TypeOK, WorkerInv, CommitInv, Reachable, Calls, Verdicts
<1>14. CASE Inspect(w)
  BY <1>14, Places DEF Inspect, Inv, TypeOK, WorkerInv, CommitInv, Reachable, Calls, Verdicts
<1>15. CASE MergeCommit(w)
  BY <1>15, Places DEF MergeCommit, Inv, TypeOK, WorkerInv, CommitInv, Reachable, Calls, Verdicts
<1>16. CASE MergeConflicts(w)
  BY <1>16, Places DEF MergeConflicts, Inv, TypeOK, WorkerInv, CommitInv, Reachable, Calls, Verdicts
<1>17. CASE Crash(w)
  BY <1>17, Places DEF Crash, StartOver, Inv, TypeOK, WorkerInv, CommitInv, Reachable, Calls, Verdicts
<1>18. CASE KilledInGit(w)
  BY <1>18, Places DEF KilledInGit, StartOver, Inv, TypeOK, WorkerInv, CommitInv, Reachable, Calls, Verdicts
<1> QED
  BY <1>1, <1>2, <1>3, <1>4, <1>5, <1>6, <1>7, <1>8, <1>9, <1>10, <1>11, <1>12, <1>13, <1>14, <1>15, <1>16, <1>17, <1>18 DEF Act, GitStep

-----------------------------------------------------------------------------
(* The invariant.                                                            *)

\* What happens on GitHub takes nothing away from a worker.
LEMMA UpstreamStep ==
  ASSUME Inv, \/ MasterMoves
              \/ TargetDeleted
              \/ \E p \in Prs, force \in BOOLEAN : Push(p, force)
  PROVE  Inv'
<1>1. CASE MasterMoves
  <2>1. master' = master + 1 /\ master \in 0..MaxMaster /\ master' \in 0..MaxMaster
    BY <1>1 DEF MasterMoves, Inv, TypeOK
  <2>2. UNCHANGED <<site, pushed, oldest, dir, treeVars, owner, workerVars, historyVars>>
    BY <1>1 DEF MasterMoves
  <2>3. TypeOK' /\ LockInv' /\ RefusalInv'
    BY <2>1, <2>2, <1>1 DEF MasterMoves, Inv, TypeOK, LockInv, RefusalInv, RefusalsExplained, RepositoryOf
  <2>4. RepositoryInv'
    BY <2>1, <2>2 DEF Inv, TypeOK, RepositoryInv
  <2>5. ASSUME NEW w \in Workers
        PROVE  WorkerInv(w)'
    <3>1. WorkerInv(w)
      BY DEF Inv
    <3>2. JobInv(w)'
      BY <2>1, <2>2, <3>1 DEF Inv, TypeOK, WorkerInv, JobInv
    <3>3. FetchedInv(w)' /\ HeadInv(w)'
      BY <1>1, <2>2, <3>1 DEF MasterMoves, WorkerInv, FetchedInv, HeadInv, OnTarget
    <3>4. CommitInv(w)'
      BY <2>2, <3>1 DEF WorkerInv, CommitInv, Reachable
    <3> QED
      BY <3>2, <3>3, <3>4 DEF WorkerInv
  <2> QED
    BY <2>3, <2>4, <2>5 DEF Inv
<1>2. ASSUME NEW p \in Prs, NEW force \in BOOLEAN, Push(p, force)
      PROVE  Inv'
  <2>1. UNCHANGED <<site, master, gone, dir, treeVars, owner, workerVars, historyVars>>
    BY <1>2 DEF Push
  <2>2. pushed[p] \in 1..MaxPushes /\ pushed[p] + 1 \in 1..MaxPushes
    BY <1>2 DEF Push, Inv, TypeOK
  <2>3. /\ pushed' \in [Prs -> 1..MaxPushes] /\ pushed'[p] = pushed[p] + 1
        /\ \A q \in Prs : q # p => pushed'[q] = pushed[q]
    BY <1>2, <2>2 DEF Push, Inv, TypeOK
  <2>4. /\ oldest' \in [Prs -> 1..MaxPushes] /\ oldest'[p] \in {oldest[p], pushed[p] + 1}
        /\ \A q \in Prs : q # p => oldest'[q] = oldest[q]
    BY <1>2, <2>2 DEF Push, Inv, TypeOK
  <2>5. TypeOK' /\ LockInv' /\ RepositoryInv' /\ RefusalInv'
    BY <2>1, <2>3, <2>4 DEF Inv, TypeOK, LockInv, RepositoryInv, RefusalInv, RefusalsExplained, RepositoryOf
  <2>6. ASSUME NEW w \in Workers
        PROVE  WorkerInv(w)'
    <3>1. WorkerInv(w)
      BY DEF Inv
    <3>2. FetchedInv(w)' /\ HeadInv(w)'
      BY <2>1, <3>1 DEF WorkerInv, FetchedInv, HeadInv, OnTarget
    <3>3. CASE pc[w] = "idle"
      BY <2>1, <3>2, <3>3 DEF WorkerInv, JobInv, CommitInv
    <3>4. CASE pc[w] # "idle"
      <4>1. /\ job[w] \in Prs \X (1..MaxPushes) /\ job[w][2] <= pushed[job[w][1]]
            /\ job' = job /\ pc' = pc /\ since[w] <= master
        BY <2>1, <3>1, <3>4 DEF WorkerInv, JobInv, Commits
      <4>2. PICK q \in Prs, n \in 1..MaxPushes : job[w] = <<q, n>>
        BY <4>1
      <4>3. q \in Prs /\ n \in Nat /\ n <= pushed[q] /\ pushed[q] \in Nat /\ pushed'[q] \in Nat /\ oldest[q] \in Nat
        BY <4>1, <4>2, <2>3 DEF Inv, TypeOK
      <4>4. n <= pushed'[q]
        BY <2>2, <2>3, <4>3
      <4>5. n \in oldest'[q]..pushed'[q] => n \in oldest[q]..pushed[q]
        BY <2>2, <2>3, <2>4, <4>3
      <4>6. job[w] \in Reachable(q)' => job[w] \in Reachable(q)
        BY <4>2, <4>5 DEF Reachable
      <4>7. JobInv(w)'
        BY <2>1, <4>1, <4>2, <4>4 DEF JobInv, Commits
      <4>8. CommitInv(w)'
        BY <2>1, <3>1, <4>2, <4>6 DEF WorkerInv, CommitInv, Reachable
      <4> QED
        BY <3>2, <4>7, <4>8 DEF WorkerInv
    <3> QED
      BY <3>3, <3>4
  <2> QED
    BY <2>5, <2>6 DEF Inv
<1>3. CASE TargetDeleted
  <2>1. gone' = TRUE /\ UNCHANGED <<site, master, pushed, oldest, dir, treeVars, owner, workerVars, historyVars>>
    BY <1>3 DEF TargetDeleted
  <2>2. TypeOK' /\ LockInv' /\ RepositoryInv' /\ RefusalInv'
    BY <2>1 DEF Inv, TypeOK, LockInv, RepositoryInv, RefusalInv, RefusalsExplained, RepositoryOf
  <2>3. ASSUME NEW w \in Workers
        PROVE  WorkerInv(w)'
    BY <2>1 DEF Inv, WorkerInv, JobInv, FetchedInv, HeadInv, OnTarget, CommitInv, Reachable
  <2> QED
    BY <2>2, <2>3 DEF Inv
<1> QED
  BY <1>1, <1>2, <1>3

LEMMA WorkerStep ==
  ASSUME Inv, NEW w \in Workers, Act(w)
  PROVE  Inv'
<1>1. WorkerInv(w)'
  BY JobStep, FetchedStep, HeadStep, CommitStep DEF WorkerInv
<1>2. ASSUME NEW v \in Workers \ {w}
      PROVE  WorkerInv(v)'
  <2>1. WorkerInv(v)
    BY DEF Inv
  <2>2. /\ UNCHANGED upstreamVars /\ killed \subseteq killed'
        /\ pc'[v] = pc[v] /\ job'[v] = job[v] /\ since'[v] = since[v]
        /\ origin'[TreeOf[v]] = origin[TreeOf[v]] /\ head'[TreeOf[v]] = head[TreeOf[v]]
        /\ merging'[TreeOf[v]] = merging[TreeOf[v]]
        /\ objects[TreeOf[v]] \subseteq objects'[TreeOf[v]]
    BY OthersStay
  <2>3. JobInv(v)'
    BY <2>1, <2>2 DEF WorkerInv, JobInv
  <2>4. FetchedInv(v)'
    BY <2>1, <2>2 DEF WorkerInv, FetchedInv
  <2>5. HeadInv(v)'
    BY <2>1, <2>2 DEF WorkerInv, HeadInv, OnTarget
  <2>6. CommitInv(v)'
    BY <2>1, <2>2 DEF WorkerInv, CommitInv, Reachable
  <2> QED
    BY <2>3, <2>4, <2>5, <2>6 DEF WorkerInv
<1> QED
  BY <1>1, <1>2, TypeStep, LockStep, RefusalStep, RepositoryStep DEF Inv

LEMMA Initially == Init => Inv
<1> SUFFICES ASSUME Init PROVE Inv
  OBVIOUS
<1>1. 1 \in 1..MaxPushes /\ 0 \in 0..MaxMaster /\ 0 \in NoRef..MaxMaster /\ 0 \in 0..site.trouble
  BY DEF Init
<1>2. TypeOK
  BY <1>1 DEF Init, TypeOK
<1>3. RepositoryInv /\ LockInv /\ RefusalInv
  BY DEF Init, RepositoryInv, LockInv, RefusalInv, RefusalsExplained
<1>4. \A w \in Workers : WorkerInv(w)
  BY DEF Init, WorkerInv, JobInv, FetchedInv, HeadInv, CommitInv
<1> QED
  BY <1>2, <1>3, <1>4 DEF Inv

LEMMA Stutter ==
  ASSUME Inv, UNCHANGED vars
  PROVE  Inv'
<1>1. TypeOK' /\ RepositoryInv' /\ LockInv' /\ RefusalInv'
  BY DEF Inv, TypeOK, RepositoryInv, LockInv, RefusalInv, RefusalsExplained, RepositoryOf, vars
<1>2. ASSUME NEW w \in Workers
      PROVE  WorkerInv(w)'
  BY DEF Inv, WorkerInv, JobInv, FetchedInv, HeadInv, OnTarget, CommitInv, Reachable, vars
<1> QED
  BY <1>1, <1>2 DEF Inv

\* What a worker knows of its tree holds in every state.
THEOREM Invariant == Spec => []Inv
<1>1. Inv /\ [Next]_vars => Inv'
  BY UpstreamStep, WorkerStep, Stutter DEF Next, Act
<1> QED
  BY Initially, <1>1, PTL DEF Spec

-----------------------------------------------------------------------------
(* What follows from it.                                                     *)

\* What is built is the commit of the job and nothing else, merged into a target
\* branch at least as new as the job unless it was deleted, and locks are held by those who are in a
\* call on the repository (checkout.rs:73-170, clone.rs:25-153).
THEOREM RightCommitBuilt == Spec => []BuildsWhatWasAsked
<1>1. ASSUME Inv
      PROVE  BuildsWhatWasAsked
  <2>1. TypeInv
    BY <1>1 DEF Inv, LockInv, TypeInv
  <2>2. ASSUME NEW w \in Workers, pc[w] = "merged"
        PROVE  /\ head[TreeOf[w]].merged = {job[w]}
               /\ head[TreeOf[w]].base \in (IF gone THEN 0 ELSE since[w])..master
    <3>1. WorkerInv(w) /\ RepositoryInv /\ TypeOK
      BY <1>1 DEF Inv
    <3>2. /\ head[TreeOf[w]].merged = {job[w]} /\ 0 <= head[TreeOf[w]].base
          /\ gone \/ since[w] <= head[TreeOf[w]].base
      BY <2>2, <3>1 DEF WorkerInv, HeadInv, OnTarget
    <3>3. head[TreeOf[w]].base <= master
      BY <3>1, Places DEF RepositoryInv
    <3>4. head[TreeOf[w]].base \in Int /\ since[w] \in Nat /\ master \in Nat
      BY <3>1, Places DEF TypeOK
    <3> QED
      BY <3>2, <3>3, <3>4
  <2> QED
    BY <2>1, <2>2 DEF BuildsWhatWasAsked
<1> QED
  BY Invariant, <1>1, PTL

\* The evaluator compares the commit with the target branch alone, and git has
\* the commit (checkout.rs:112-131, 154-202).
THEOREM TargetInspected == Spec => []InspectsTheTarget
<1>1. ASSUME Inv
      PROVE  InspectsTheTarget
  <2>1. ASSUME NEW w \in Workers, pc[w] = "inspect"
        PROVE  /\ head[TreeOf[w]].merged = {}
               /\ head[TreeOf[w]].base >= IF gone THEN 0 ELSE since[w]
               /\ job[w] \in objects[TreeOf[w]]
    <3>1. WorkerInv(w) /\ TypeOK
      BY <1>1 DEF Inv
    <3>2. /\ head[TreeOf[w]].merged = {} /\ 0 <= head[TreeOf[w]].base
          /\ gone \/ since[w] <= head[TreeOf[w]].base
          /\ job[w] \in objects[TreeOf[w]]
      BY <2>1, <3>1 DEF WorkerInv, HeadInv, CommitInv, OnTarget
    <3>3. head[TreeOf[w]].base \in Int /\ since[w] \in Nat
      BY <3>1, Places DEF TypeOK
    <3> QED
      BY <3>2, <3>3
  <2> QED
    BY <2>1 DEF InspectsTheTarget
<1> QED
  BY Invariant, <1>1, PTL

\* A job is dropped as "Commit doesn't exist" only after a force-push
\* (checkout.rs:95-131).
THEOREM MissingExplained == Spec => []MissingIsForcePushed
<1>1. Inv => MissingIsForcePushed
  BY DEF Inv, WorkerInv, CommitInv, MissingIsForcePushed
<1> QED
  BY Invariant, <1>1, PTL

\* Git refuses to work only where a git command was killed, or where the reference
\* to check out does not exist: failed merges and panics are cleaned up by the next
\* job (clone.rs:50-153, checkout.rs:77-93, build.rs:299-309).
THEOREM RefusalExplained == Spec => []RefusalsExplained
<1>1. Inv => RefusalsExplained
  BY DEF Inv, RefusalInv
<1> QED
  BY Invariant, <1>1, PTL
=============================================================================
