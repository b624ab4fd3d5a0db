---------------------------- MODULE VendingMachine --------------------------
(***************************************************************************)
(* GithubAppVendingMachine of ofborg/src/config.rs: which installation of   *)
(* the GitHub app a worker speaks as, remembered for the life of its        *)
(* process, and the two workers that have one: the evaluator                *)
(* (tasks/evaluate.rs) and the poster (tasks/githubcommentposter.rs).       *)
(***************************************************************************)
EXTENDS Integers, Sequences

CONSTANTS
    Workers,
    Repos,
    Messages,       \* Messages[w]: the repositories of the messages for w, in order
    MaxInstalls,    \* bound: times the app is installed anew
    MaxRemovals,    \* bound: times it is removed
    MaxErrors,      \* bound: requests that fail for another reason
    MaxCrashes      \* bound: workers that die of another reason

NoInstall == 0      \* None; the installations are numbered from 1

VARIABLES
    install,        \* install[r]: the installation of the app for r, on GitHub
    queue,          \* queue[w]: the messages that wait for w
    at,             \* at[w]: where w is with the first of them
    id_cache,       \* id_cache[w]: what the process of w remembers of repositories
    client_cache,   \* client_cache[w]: the installations it has a client of
    lost,           \* lost[w]: messages that were acknowledged in vain
    excused,        \* excused[w]: of these, those GitHub had another reason to refuse
    ids,            \* the number of the newest installation
    removals, errors, crashes

workVars == <<queue, at, id_cache, client_cache>>
vars == <<install, workVars, lost, excused, ids, removals, errors, crashes>>

Nothing == <<>>     \* an empty cache
Repo(w) == Head(queue[w])
Id(w) == id_cache[w][Repo(w)]

Init ==
    /\ install \in [Repos -> {NoInstall, 1}]
    /\ queue = Messages
    /\ at = [w \in Workers |-> "idle"]
    /\ id_cache = [w \in Workers |-> Nothing]
    /\ client_cache = [w \in Workers |-> {}]
    /\ lost = [w \in Workers |-> 0]
    /\ excused = [w \in Workers |-> 0]
    /\ ids = 1
    /\ removals = 0
    /\ errors = 0
    /\ crashes = 0

-----------------------------------------------------------------------------

\* A message stays at the head of its queue until it is acknowledged.
Take(w) ==
    /\ at[w] = "idle" /\ queue[w] # <<>>
    /\ at' = [at EXCEPT ![w] = "asking"]
    /\ UNCHANGED <<install, queue, id_cache, client_cache, lost, excused, ids, removals, errors, crashes>>

Remember(w, id) ==
    id_cache' = [id_cache EXCEPT ![w] = [r \in DOMAIN @ \cup {Repo(w)} |->
                                            IF r \in DOMAIN @ THEN @[r] ELSE id]]

\* install_id_for_repo: GitHub is asked for a repository that is not in the cache.
InstallIdForRepo(w) ==
    /\ at[w] = "asking"
    /\ Remember(w, install[Repo(w)])
    /\ at' = [at EXCEPT ![w] = "answered"]
    /\ UNCHANGED <<install, queue, client_cache, lost, excused, ids, removals, errors, crashes>>

\* The lookup fails, which is remembered as a repository without the app.
LookupFails(w) ==
    /\ at[w] = "asking" /\ Repo(w) \notin DOMAIN id_cache[w] /\ errors < MaxErrors
    /\ errors' = errors + 1
    /\ Remember(w, NoInstall)
    /\ at' = [at EXCEPT ![w] = "answered"]
    /\ UNCHANGED <<install, queue, client_cache, lost, excused, ids, removals, crashes>>

\* The message is delivered again, to a new process that remembers nothing.
Restart(w) ==
    /\ at' = [at EXCEPT ![w] = "idle"]
    /\ id_cache' = [id_cache EXCEPT ![w] = Nothing]
    /\ client_cache' = [client_cache EXCEPT ![w] = {}]
    /\ UNCHANGED <<install, queue, lost, excused, ids, removals, errors>>

\* Mutant: without a client the message is acknowledged.
NoClient_Acks(w) ==
    /\ at[w] = "answered" /\ Id(w) = NoInstall
    /\ lost' = [lost EXCEPT ![w] = @ + 1]
    /\ queue' = [queue EXCEPT ![w] = Tail(@)]
    /\ at' = [at EXCEPT ![w] = "idle"]
    /\ UNCHANGED <<install, id_cache, client_cache, excused, ids, removals, errors, crashes>>

\* for_repo is None: expect() and unwrap() panic.
NoClient(w) ==
    /\ at[w] = "answered" /\ Id(w) = NoInstall
    /\ Restart(w)
    /\ UNCHANGED crashes

\* for_repo is a client, which may have been made for an earlier message.
ForRepo(w) ==
    /\ at[w] = "answered" /\ Id(w) # NoInstall
    /\ client_cache' = [client_cache EXCEPT ![w] = @ \cup {Id(w)}]
    /\ at' = [at EXCEPT ![w] = "requesting"]
    /\ UNCHANGED <<install, queue, id_cache, lost, excused, ids, removals, errors, crashes>>

Ack(w) ==
    /\ queue' = [queue EXCEPT ![w] = Tail(@)]
    /\ at' = [at EXCEPT ![w] = "idle"]
    /\ UNCHANGED <<install, id_cache, client_cache, ids, removals, crashes>>

Request(w) ==
    /\ at[w] = "requesting" /\ Id(w) = install[Repo(w)]
    /\ Ack(w)
    /\ UNCHANGED <<lost, excused, errors>>

\* The installation is one of the past: the poster logs it, the evaluator cannot
\* fetch the issue, and both acknowledge.
Refused(w) ==
    /\ at[w] = "requesting" /\ Id(w) # install[Repo(w)]
    /\ lost' = [lost EXCEPT ![w] = @ + 1]
    /\ Ack(w)
    /\ UNCHANGED <<excused, errors>>

RequestFails(w) ==
    /\ at[w] = "requesting" /\ errors < MaxErrors
    /\ errors' = errors + 1
    /\ lost' = [lost EXCEPT ![w] = @ + 1]
    /\ excused' = [excused EXCEPT ![w] = @ + 1]
    /\ Ack(w)

Crash(w) ==
    /\ crashes < MaxCrashes
    /\ crashes' = crashes + 1
    /\ Restart(w)

Step(w) == Take(w) \/ InstallIdForRepo(w) \/ NoClient(w) \/ ForRepo(w) \/ Request(w) \/ Refused(w)

-----------------------------------------------------------------------------
(* The owner of a repository, on GitHub.                                     *)

Install(r) ==
    /\ install[r] = NoInstall /\ ids <= MaxInstalls
    /\ ids' = ids + 1
    /\ install' = [install EXCEPT ![r] = ids + 1]
    /\ UNCHANGED <<workVars, lost, excused, removals, errors, crashes>>

Remove(r) ==
    /\ install[r] # NoInstall /\ removals < MaxRemovals
    /\ removals' = removals + 1
    /\ install' = [install EXCEPT ![r] = NoInstall]
    /\ UNCHANGED <<workVars, lost, excused, ids, errors, crashes>>

Next ==
    \/ \E w \in Workers : Step(w) \/ LookupFails(w) \/ RequestFails(w) \/ Crash(w)
    \/ \E r \in Repos : Install(r) \/ Remove(r)

\* Workers go on and are started again.
Spec == Init /\ [][Next]_vars /\ \A w \in Workers : WF_vars(Step(w))

-----------------------------------------------------------------------------

Known(w) == {id_cache[w][r] : r \in DOMAIN id_cache[w]} \ {NoInstall}

TypeInv ==
    /\ \A w \in Workers :
           /\ at[w] # "idle" => queue[w] # <<>>
           /\ at[w] \in {"answered", "requesting"} => Repo(w) \in DOMAIN id_cache[w]
           /\ at[w] = "requesting" => Id(w) \in client_cache[w]
           /\ client_cache[w] \subseteq Known(w)
           /\ excused[w] <= lost[w]
    /\ \A r \in Repos : install[r] <= ids

\* That a repository has no installation is remembered (config.rs:199-207), but
\* no later message is answered from it: the worker that learns it panics on it
\* at once (githubcommentposter.rs:81, evaluate.rs:121), and a new process asks
\* again.  So a failing lookup never outlives the message it was made for.
AbsenceIsForgotten ==
    \A w \in Workers : \A r \in DOMAIN id_cache[w] :
        id_cache[w][r] = NoInstall => at[w] = "answered" /\ r = Repo(w)

\* A message is acknowledged in vain only if GitHub failed or the app was
\* removed; a repository where it never was loses nothing, its messages wait
\* (githubcommentposter.rs:78-91, evaluate.rs:151-157).
LossNeedsRemoval ==
    \A w \in Workers : lost[w] > excused[w] => removals > 0

\* In the end each worker has nothing left to do or is held up by a repository
\* without the app: such a message is delivered for ever and those behind it
\* wait (githubcommentposter.rs:81, evaluate.rs:121), but no longer than until
\* the app is installed.
HeldUpByAbsenceOnly ==
    <>[](\A w \in Workers : queue[w] = <<>> \/ install[Repo(w)] = NoInstall)
=============================================================================
