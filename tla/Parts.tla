-------------------------------- MODULE Parts -------------------------------
(***************************************************************************)
(* Parts of the system that share no state: the tagger for rebuilds (module *)
(* TaggersUse), the writers of a log, the filter of pull_request events,    *)
(* the clients of the GitHub app, and the counters of statistics.           *)
(***************************************************************************)
EXTENDS TaggersUse, Sequences

CONSTANTS
    Texts, Blank, MaxLine,                                  \* LineWriterUse
    Spellings, lower, trusted_users, known_users, repos,    \* Acl
    Repository, Bases, MaxEvents, MaxFilterCrashes,         \* EvaluationFilter
    Clients, Repos, Deliveries,                             \* VendingMachine
    MaxInstalls, MaxRemovals, MaxErrors, MaxClientCrashes,
    Reporters, Scrapers, MaxJobs, MaxIncidents              \* Statistics

VARIABLES
    rows, writer, panicked, written, expected,              \* LineWriterUse
    pr, branch, happened, events, todo, jobs,               \* EvaluationFilter
    filterCrashes,
    install, deliveries, place, id_cache, client_cache,     \* VendingMachine
    lost, excused, ids, removals, errors, clientCrashes,
    stats, message, stage, counters, lock, phase, reached,  \* Statistics
    output, published, received, scrapes, odd, collectorCrashes

\* A fresh writer for each line, and one for all of them.
Fresh == INSTANCE LineWriterUse WITH
    Text <- Texts, Reopen <- TRUE, file <- rows, lines <- written
Single == INSTANCE LineWriterUse WITH
    Text <- Texts, Reopen <- FALSE, file <- rows, lines <- written

Filter == INSTANCE EvaluationFilter WITH
    MaxCrashes <- MaxFilterCrashes, crashes <- filterCrashes

Machine == INSTANCE VendingMachine WITH
    Workers <- Clients, Messages <- Deliveries, MaxCrashes <- MaxClientCrashes,
    queue <- deliveries, at <- place, crashes <- clientCrashes

Counters == INSTANCE Statistics WITH
    Evaluators <- Reporters,
    queue <- stats, at <- stage, sent <- published, jobs <- received, crashes <- collectorCrashes

ASSUME PartsAssumption ==
    /\ Blank \in Texts /\ MaxLine \in Nat
    /\ MaxEvents \in Nat \ {0} /\ MaxFilterCrashes \in Nat
    /\ Deliveries \in [Clients -> Seq(Repos)]
    /\ Counters!Free \notin Scrapers

-----------------------------------------------------------------------------

\* Whatever the order of the lines, through one writer or a fresh one for each,
\* the log is the lines written so far, each in its row: appending and rewriting
\* agree on what the file is (writetoline.rs:38-78).
LinesInPlace == Fresh!LinesInPlace /\ Single!LinesInPlace

\* The rows of a log are in their places (writetoline.rs:38-78); once its events
\* are handled an open pull request has been evaluated as it is
\* (evaluationfilter.rs:25-104); a worker neither answers from a failed lookup nor
\* loses a message to a repository that never had the app (config.rs:182-222);
\* a page of metrics shows the counters at one time, each event counted once
\* (statscollector.rs:31-67, build.rs:480-566).
ServicesRight ==
    /\ LinesInPlace
    /\ Filter!TypeInv /\ Filter!LastEvaluationIsCurrent
    /\ Machine!TypeInv /\ Machine!AbsenceIsForgotten /\ Machine!LossNeedsRemoval
    /\ Counters!PagesAreSnapshots /\ Counters!PagesAddUp /\ Counters!CountedOnce

\* Each evaluation is asked for once, but for a crash or a pull request that was
\* reopened (evaluationfilter.rs:58-76).
NoNeedlessEvaluation == Filter!NoNeedlessEvaluation
=============================================================================
