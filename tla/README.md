# A verification project for ofborg

TLA+ models of [ofborg](../src), the bot that evaluates and builds nixpkgs pull
requests: what TLC checks of them on small instances, and what TLAPS proves of
them for every value of their constants. Paths are relative to `src/ofborg/src`
where they do not start with another directory.

    tlc -config MCAsyncCmd.cfg MCAsyncCmd.tla       # one run; PROJECT.json lists all
    tlapm AsyncCmdProofs.tla                        # one module of proofs

## The system

ofborg is a set of processes around a RabbitMQ broker. A web hook receiver
(`php/web/index.php`) publishes GitHub events; two filters turn them into jobs;
an evaluator and the builders work on the jobs; a poster reports to GitHub; a
collector writes build logs to files that a log viewer serves.

    GitHub event ─► evaluation filter ─► evaluator (mass-rebuilder) ─┐
               └─► comment filter ───────────────────────► build jobs┴─► builders
                                                                          │   │
                             comment poster ◄── build-results ◄───────────┘   │
                             log collector  ◄── logs ◄────────────────────────┘

| component | state it keeps | operations | what is hard | what makes it correct |
|---|---|---|---|---|
| running a command, `asynccmd.rs` | five threads, two bounded channels, a map of handles | spawn, lines, wait | threads that block on full channels and on joins; streams that outlive the child | every line once and in order; the status after the output; no deadlock |
| line writer, `writetoline.rs` | a file, its lines in memory, the last line written | new, write_to_line | appends and rewrites chosen by `last_line`, slices by the buffer | the file is the lines, each in its row |
| log collector, `tasks/log_message_collector.rs` | LRU cache of line writers; files | start, line, finish of an attempt | evicted and reopened files, its own crashes, a queue that dies with it | files only grow, row by row; complete unless interrupted |
| build worker, `tasks/build.rs` + `notifyworker.rs` | one attempt: line counter, last ten lines; the job at the broker | nine ways to go on with a job | crashes between result and Ack, redelivery, order of messages | settled only when answered; no job lost; well-formed logs |
| working trees, `checkout.rs` + `clone.rs` | a shared bare clone, a tree per worker, lock files | clone, fetch, clean, checkout, fetch_pr, commit_exists, merge | locks per git command, leftovers, force pushes, killed commands | what is built is what was asked for |
| worker loop, `worker.rs` | none | decode, run, execute actions | a crash between two actions; a message that does not decode | every message settled once |
| comment filter, `tasks/githubcommentfilter.rs`, `acl.rs`, `commentparser.rs`, `systems.rs` | ACL lists | a comment to build jobs and queued checks | order of its publications, a pull request that changed meanwhile | only systems the user may build on; a check for every job |
| evaluation filter, `tasks/evaluationfilter.rs` | ACL | event to evaluation job | many kinds of events, of a closed pull request too | every change of code is evaluated, once |
| evaluator, `tasks/evaluate.rs`, `tasks/eval/*`, `commitstatus.rs` | commit statuses, labels and gists on GitHub | phases of an evaluation | early returns, crashes, stale reads of the issue, two evaluators of one head | a final status; builds scheduled only on success |
| taggers, `tagger.rs`, `tasks/eval/stdenvs.rs`, `maintainers.rs` | label sets | labels from what changed | read-then-write of labels on GitHub | labels that fit the head, whatever was there |
| output paths, `outpathdiff.rs` | two lists of all packages | parse, difference | lines that are cut off | what is rebuilt, by platform |
| poster, `tasks/githubcommentposter.rs` | check runs on GitHub | queued, result | results that overtake the queued check | each check ends with its result |
| messages, `message/*`, `ghevent/*` | none | the formats a reader tries, in order | formats that contain each other, senders of two versions | a message is taken for what it is |
| credentials, `config.rs` | caches of installation ids and GitHub clients | lookups | negative entries, entries that are out of date | a token for the right repository |
| statistics, `stats.rs`, `tasks/statscollector.rs`, `build.rs`, `bin/stats.rs` | a counter for each metric behind a mutex of its own | record, page | pages beside deliveries, a mutex each | a page is true at one time |
| exchanges and queues, `easyamqp.rs`, `bin/*`, `php/web/index.php` | declarations and bindings at the broker | declare, bind, publish | programs that start in any order; routing keys; a broker that is down | a queue holds what its reader reads |
| `nix.rs`, `nixenv.rs`, `nixstats.rs`, `evalchecker.rs`, scripts | none | command lines, I/O | – | – |

The hazards found in reading, each at its line with the properties that would
catch it, are listed in `PROJECT.json` (`hazards`).

## The modules

| module | models | how |
|---|---|---|
| `CommandRun` | the promise of `asynccmd.rs` | log of a child's two streams, status after the last line |
| `AsyncCmd` | `asynccmd.rs` and the loop of `tasks/build.rs:354-363` | one action per blocking step of each thread |
| `AsyncCmdProofs` | | inductive invariant, invariants, refinement |
| `LineWriter` | `writetoline.rs` | pure operators: file and writer after a call, and when it panics |
| `LineWriterUse` | how the tests of `writetoline.rs` use a writer | lines in any order, one writer or a fresh one for each |
| `LogFile` | the promise of the log collector | rows of a file, written by number |
| `LogCollector` | `tasks/log_message_collector.rs`, the queue of `bin/log-message-collector.rs`, the messages of `tasks/build.rs:133-258` | one action per kind of message, crash and restart |
| `LogCollectorProofs` | | what a write does to a file; inductive invariants, invariants, growth, refinement |
| `BuildRequests` | the promise of the build workers | requests answered at least once, settled once |
| `Builder` | `tasks/build.rs`, `notifyworker.rs`, the queue of `bin/builder.rs` | one action per way the consumer goes on; told actions travel on a wire the broker reads in order |
| `BuilderProofs` | | inductive invariants, logs and results, second answers, refinement |
| `Checkout` | `checkout.rs`, `clone.rs`, their callers in `tasks/build.rs:296-322` and `tasks/evaluate.rs:195-268` | lock, then one action per git command with its outcomes |
| `CheckoutProofs` | | inductive invariant, all invariants |
| `CommentParser` | `commentparser.rs` | the grammar as an ordered choice over words |
| `CommentParserUse` | a person who writes a line word by word | every line of up to `MaxWords` words |
| `Acl` | `acl.rs`, `systems.rs` | operators on spellings of names |
| `CommentFilter` | `tasks/githubcommentfilter.rs` | the list of actions of a comment |
| `Pipeline` | the comment filter, the builders and `tasks/githubcommentposter.rs`, each in the loop of `worker.rs` | take a delivery, then one action after the other, with crashes and panics between them |
| `PipelineProofs` | | inductive invariants: truth of the checks, where a job is, where it goes |
| `EvaluationFilter` | `tasks/evaluationfilter.rs`, `bin/evaluation-filter.rs` | author, event queue and filter |
| `CommitVerdict` | the promise of the evaluator about the commit status | pending, then one verdict |
| `Evaluation` | `tasks/evaluate.rs`, `tasks/eval/nixpkgs.rs`, `tasks/eval/generic.rs`, `commitstatus.rs` | one action per request to GitHub, in the order of the code |
| `EvaluationProofs` | | inductive invariant, invariants, action property, refinement |
| `Taggers` | `tagger.rs`, `tasks/eval/stdenvs.rs`, `maintainers.rs` | what each tagger adds and removes, as sets |
| `TaggersUse` | the rebuild tagger and what an evaluation tells it | counts and ranges |
| `OutPathDiff` | `outpathdiff.rs` | lists of lines as functions from package and architecture |
| `Labels` | `update_labels` of `tasks/evaluate.rs` and its callers in `tasks/eval/nixpkgs.rs` | read, add, remove one by one, beside other evaluators and people |
| `VendingMachine` | `config.rs:182-222` and the two workers that use it | caches for the life of a process, installations that come and go |
| `Statistics` | `stats.rs`, `tasks/statscollector.rs`, the collector generated by `build.rs`, `bin/stats.rs` | one action per mutex taken |
| `Parts` | | the rebuild tagger, the filter of events, the clients and the counters, side by side with their constants |
| `PartsProofs` | | inductive invariants of `Labels`, `LineWriterUse`, `EvaluationFilter`, `VendingMachine`, `Statistics`; lemmas about the taggers and the output paths |
| `Messages` | `message/*`, and the order of formats in `tasks/log_message_collector.rs:178-214` and `tasks/githubcommentposter.rs:25-56` | formats as functions from fields to types |
| `Topology` | `easyamqp.rs`, what each `bin/*` declares, `php/web/index.php` | declare, publish through bindings, crashes, a broker that is down for a while, a web hook that reaches none |
| `TopologyProofs` | | inductive invariant, the invariant, drops |

`Pipeline` composes the comment filter with the builders and the poster, `Labels`
the taggers with the output paths, `Topology` all programs with the broker.
`BuildRequests` stands for `Builder`, `LogFile` for `LogCollector`, `CommandRun`
for `AsyncCmd` and `CommitVerdict` for `Evaluation`.

`MC*` modules give the constants values. Where a component is to be seen in
several situations they give a set of them (`Days`, `Sites`); a variable that
does not change holds the one a behaviour is about. `Parts` has the components
that share no state with others, `MCParts` those and the algorithms that are
checked by themselves; in each behaviour one of them runs. Definitions named
`X_Something` after a comment "Mutant" are plausible bugs: replacing `X` by one
of them must make a property fail (`mutants` in `PROJECT.json`).

### State and code

*AsyncCmd.* `chan` and `monitor` are the two `sync_channel`s, `reader`,
`joiner` and `head` the program counters of the threads, `waiters` the head
waiter's map, `caller` the build worker. The child is free: it writes to either
stream as long as its pipe has room, closes a stream or exits whenever it
likes; a stream may outlive the child. A send blocks at the channel's bound.
The stream and position of a line travel with it as a ghost.

*LineWriter.* A file is the sequence of its rows; a row's text is opaque. The
panic of `writetoline.rs:64` (a slice that starts behind its end) is the
operator `Panics`. A row that holds a carriage return at its end or half a
line (a crash between the two writes of `writetoline.rs:73-74`) is not modelled.

*LogCollector.* `age` is the LRU order of the handles (capacity `MaxOpen`),
`writers` their contents, `log`, `metadata`, `result` the files. `Crash` drops
the queue, because it is exclusive and auto-delete, and the handles; a message
in hand is lost with the others. Metadata and result files are counted, not
read: the code appends to them.

*Builder.* `wire[b]` holds the actions a builder has told and the broker has not
seen. `tasks/build.rs` tells the result, the log's end and the Ack one after the
other; losing the connection drops any suffix of them. The outcome of the
checkout, the partition of the attributes and the exit code are free. `gone`,
any part of `StaleJobs` and the same throughout a behaviour, are the jobs whose
commit a builder may miss, then or at another attempt; the others must be
answered. A job that does not decode is not modelled (see the hazards).

*Checkout.* A call is `Lock` and then the git command, which gives the lock
back. Upstream moves at any time; a push may be forced. `Crash` stands for a
worker that dies between two commands and for a command that fails for the
network's sake; both end in a new process with the same job, since the tasks
unwrap the errors and the broker redelivers. A job may not name its target
branch: the evaluator then takes `master`, the builder `origin/master`
(`tasks/build.rs:299-302`), before which `checkout_origin_ref` puts `origin/`
once more, so that the reference never resolves. The target branch may be
deleted upstream; a tree that has it keeps it, since nothing is pruned. Whatever
git refuses is a panic, and the same job again. `KilledInGit` leaves what git
leaves when it cannot clean up: a partial directory, or `index.lock`. The
cache's refs are not used by the code and not modelled. Git itself is external;
its commands are modelled by what the code relies on.

*Pipeline.* `todo[w]` is what is left of the list of actions a worker made up
for its delivery; `unacked[w]` the delivery, which goes back to the head of its
queue when the worker dies (`basic_prefetch(1)` everywhere). Deciding and doing
are separate: the filter looks at the pull request once and publishes
afterwards. A builder is reduced to how a job can end: no answer
(`build.rs:100`), a failed merge, or a status. A check run is told from another
by its name and head, so posts of one name form a sequence of which GitHub shows
the last. A result has two lists of attributes, those that were attempted and
those that did not evaluate and were skipped; a build of the former alone may be
a success, and its check names both (`githubcommentposter.rs:124-173`). Every
delivery of a comment draws new Uuids: the number of the delivery and of the
instruction.

*CommentParser.* A line is a sequence of words. What a word consists of, and
the white space between words, is not told apart; that a name may be a mention
is.

*EvaluationFilter.* The environment is the author of one pull request. An event
carries the pull request of its time, as GitHub's do; pushes to a closed one
make no `synchronize` event.

*Evaluation.* `phase[e]` is the place in `tasks/evaluate.rs`, `check[e]` the
check that is run next; `Onward` are the places at which the code says "pending"
again, with another description; statuses are GitHub's, one for each context. A
request that fails is an `unwrap`, so a crash: the job comes again. `ready` is a
ghost: whether the issue was at some time since the delivery not work in
progress.

*Labels.* `update[e]` is an update that has read the issue and not written
yet. GitHub answers 404 to the removal of a label that is not there, and the
code unwraps it. What git and nix find in a head is `Content`. `disturbed` is a
ghost: since the evaluators at work began, people touched a label the taggers
know, or one of them began with another head. It falls when an evaluator begins
alone, so that later evaluations answer for what was left behind.

*VendingMachine.* `id_cache` and `client_cache` live as long as the process;
`install` is what GitHub knows. `lost` counts messages that were acknowledged
though GitHub refused, `excused` those of them GitHub refused for a reason other
than an installation that is gone.

*Statistics.* The guards of the generated code live to the end of the function
(they shadow each other), so a page takes the mutexes one after the other and
keeps them all. The time of an evaluation is a value nobody asks about.

*Topology.* What a program does with a message is one step here. A publication
to an exchange that is not declared closes the channel; every program but the
evaluator, whose statistics have a channel of their own, goes down on it.
Only the web hook marks its messages persistent. The broker may go down at any
moment and stay down: every program goes with it, queues and messages that are
not on its disk are gone, nothing can be started, and the web hook gives up
after 25 seconds with an error (`php/web/index.php:18-34`), which ends what there
is of that event. It waits for no confirmation of what it publishes. A
message in the wrong queue would be acknowledged unread by most readers
(`worker.rs:84-88`); the comment filter and the builder would panic on it.

## The runs

| run | instance | shows |
|---|---|---|
| `async_cmd` | two lines per stream, pipes and output channel of one line, two statuses | every line once and in order, the status behind the output, nothing waits for ever; `CommandRun` implemented |
| `line_writer_unordered` | lines 0..4, two texts | **violated**: one writer panics on the order 2, 0, 1 |
| `log_collector` | two attempts, three lines, a cache of one handle | files only grow, row by row, and are complete unless the collector was down; `LogFile` implemented |
| `builder` | two builders, a job without attributes and one whose commit is gone or, in other behaviours, is not; a snippet of two of three lines, one lost connection | logs well-formed, the snippet is the tail of the log, a second answer only after a lost connection, every job settled; `BuildRequests` implemented: once, and a job that is there only behind its answer |
| `checkout` | builder and evaluator on one machine; one tree and two pull requests; one tree and two troubles; a builder or an evaluator with a target branch that moves and is deleted, and jobs that do not name it | what is built is what was asked for, whatever was left in the tree; what git refuses comes of a killed command or of a reference that does not exist; no waiting for ever |
| `checkout_killed_clone` | builder and evaluator, one pull request | **violated**: a killed clone passes for a finished one |
| `comment_parser_unknown` | lines of up to six words | **violated**: an unknown command hides the next one |
| `pipeline` | five days: one attribute asked for twice, with a death or with a refusal of GitHub; two attributes at once, each of which may be skipped; a test and a build of a user under two spellings; comments in a fork and behind one that does not decode | checks say nothing that is not so, and a green one tells what was built from what was skipped; a check that stays queued has one of four reasons; jobs go to the right systems |
| `evaluation` | one evaluator and two jobs; two evaluators of one head; a repository without checks, three jobs | a verdict in the end, builds only of green heads that want them; `CommitVerdict` implemented by an evaluator that is alone |
| `labels` | one evaluator and three pushes of four heads; two evaluators of one head and a person; two evaluators of two heads at a time and three pushes | labels are those of the last head; a removal fails only on a race, and the evaluations end |
| `topology` | a comment's programs; a dotted repository with a broker that goes down; a pull request's programs with a death; the same with a broker that goes down; two pull requests with one that goes down before, between or after them | queues hold only what their readers read, and every event the web hook could hand over; what is dropped has a reason; all come up if the broker stays |
| `parts` | taggers: 14 counts of each platform; both writers: five lines in every order; comment lines of six words; every message of every version; five events of a pull request; two clients, three messages, the app installed twice; two pages beside deliveries and a crash | `CountsTellTheTruth`, `AlgorithmsRight`, `ServicesRight`, `NoNeedlessEvaluation`, `ServicesSettle` |

*Why the bounds are enough.* A channel of one line makes its readers block at
every line, and the proofs hold for every capacity. A cache of one handle evicts
at every change of attempt. Three lines with a snippet of two make lines leave
it. Three attempts of one job (one crash, two builders) contain every order of
result, Ack and redelivery. Where its commit is there, the job must be answered
before it is settled. Two pull requests of two commits give a tree something
wrong to keep from the job before: another pull request, an older commit, a
conflict. In `Pipeline` two jobs with the same name on one system are the least
for one to answer for the other's check, and one death falls between every two
actions. Two evaluations are the least for one to meet what another left, two
evaluators for statuses and labels to mix; with two checks there is one before
and one behind a failure. The counts of the taggers are those at the ends of
every range. Five events are a push while closed, with what is needed before and
after it. Two pages are the least to wait for each other. Programs of `Topology`
start in every order, so that every declaration is missing at some time; a
broker goes down between any two steps of a message's way, for any time.

*Fairness.* It is of the programs, never of people, GitHub, crashes or the
child of a command, and crashes are bounded, since one that dies for ever does
nothing. `AsyncCmd`: every thread runs again and again. `LogCollector`: the
collector handles messages; builders may stop, and it may stay down. `Builder`:
the broker reads, a live builder goes on (a build ends, `nix.rs:329` sets its
timeout), and strong fairness of delivery (the queue is first in, first out).
`Checkout`: a git command ends; strong fairness of getting a lock, which is
free for most of a job, while a command takes minutes at most. `Pipeline`,
`Evaluation`, `Labels`, `EvaluationFilter`, `VendingMachine`, `Statistics`: a
worker that has a delivery goes on with it, and one that is idle takes the next:
the loop of `worker.rs` has nothing else to do, and requests to GitHub return.
A thread that serves a page goes on when the mutex it needs is free.
`Topology`: a program that is down is started again (systemd), one that is up
handles what is in its queue, and GitHub calls the web hook for what has
happened. Nothing says that the broker comes back: `ComesUp` is conditional on
its staying up in the end.

Deadlock checking is off where the system may stop: the work is done, or the
programs are down. In `Checkout` it is on.

## What is proved

`AsyncCmdProofs`, for every channel capacity, pipe capacity and number of lines:
the inductive invariant `Inv` ties each thread's program counter to what is in
the channels. It is needed because `StatusAfterAllOutput` alone says nothing
while threads run: `Inv` says that a notice exists only behind its thread, that
the head waiter ends only when the map is empty, and that the readers are
finished when the caller waits. From it follow `TypeInv`,
`EveryLineOnceInOrder`, `NoticesAccounted`, `StatusAfterAllOutput`, and that
every step is a step of `CommandRun` or a stutter.

The first lemmas of `LogCollectorProofs` are about `write_to_line`: `WriteInPlace`
and `WriteBehindEnd` say, for every file and line, that a writer whose buffer is
its file does not panic and changes one row when it moves back or goes behind the
end. What it does in between is the finding.

`LogCollectorProofs`, for every set of attempts, number of lines and cache
capacity: `Inv` joins `HandlesMatchFiles` and `LinesMoveForward` (each needs
the other: a line belongs behind the end of its file only if files hold no more
than was published, and a handle agrees with its file only if lines move
forward). With `WriteBehindEnd` every `WriteLine` appends, from which
`LogsOnlyGrow` and the refinement of `LogFile` follow. `CompleteUnlessInterrupted`
speaks of logs whose result is recorded; `Whole` says what leads there: of an
attempt that was not interrupted every line printed is in the file or in the
queue, once and in order, its start in front of them and its result behind.

`BuilderProofs`, for every set of builders and jobs, length of log and snippet,
and number of lost connections. `Refinement`: the builders implement
`BuildRequests`. Where a job is (`Places`) says nothing of when it may be
acknowledged, so `Inv` also describes the wire (`WireInv`): an Ack is the last
action of its job, sent when the builder is through with it, and its result has
arrived or is on the wire in front of it, unless the job is one that gets no
answer. What a builder tells is one lemma (`TellInv`), which each of its actions
cites; losing a connection empties the wire and puts the job back. `LogsSound`,
`AnswersShowTheTail` and `SecondAnswer` need more: what the broker has of an
attempt and what is on the wire are together one log from its beginning, with
its result in front of its end. `StageInv` says so for the six stages of an
attempt (`Preparing`, `Talking`, `Finishing`, `LastWords`, `GivingUp`,
`Through`), `ResultInv` that a result holds the tail of the log it ends, and
`AttemptInv` that of two attempts of a job the first has died.

`CheckoutProofs`, for every set of workers with trees of their own, pull
requests, pushes, crashes and killed git commands: what a worker knows of its
tree by the call it is in (`JobInv`, `FetchedInv`, `HeadInv`, `CommitInv`), that
the owner of a lock is in a call on that repository (`LockInv`), that only kills
break one and no tree is ahead of the target branch (`RepositoryInv`), and why git
refused what it did (`RefusalInv`). That `TreeOf` is injective is what keeps the
others from taking it away (`OthersStay`); a push adds commits and a forced one
makes them unreachable, which leaves what was fetched (`UpstreamStep`). All four
invariants of the run follow: `BuildsWhatWasAsked`, `InspectsTheTarget`,
`MissingIsForcePushed`, `RefusalsExplained`.

`EvaluationProofs`, for every finite set of evaluators, number of checks and
jobs, systems to build on and every change of people: `Inv` says what the
evaluators at work still owe. A status that is pending has somebody who judges
(`PendingInv`), the builds of a green head are published, in an answer, or yet
to be asked for (`BuildInv`, with what an answer holds in `AnswerInv`), what is
asked for was wanted when the issue was read (`ReadyInv`), and jobs are counted
(`CountInv`: without it a job with nobody at work would not mean a delivery to
come). From it follow `HeadSettled` and the action property `BuildsAreWanted`.
`AloneInv` adds, for an evaluator that is alone, that what it has done shows on
GitHub; with it each step is one of `CommitVerdict` or a stutter. Two evaluators
of one head do not refine it: one starts over what the other has judged.

`PipelineProofs`, for any comments, users, builders online, number of crashes
and of refusals: `ChecksAreTrue`, `StuckChecksExplained` and `RightSystems`. A
check is true when it is posted because what is on its way is true: `Inv` says
of each queue what may be in it (`Proper`: jobs that were sent to this system,
announcements of such jobs, results there were), and of each worker that what it
has yet to do is sound (`TruePlans`): an announcement speaks of jobs that were
sent or that the same worker publishes in front of it, a result of a builder
that attempted some attributes and skipped the others, and the Ack is the last
action. Truth only grows (`TruthStays`), so that a plan stays sound while others
move, and a step has to show only that what it changes is true (`StepInv`). That
the filter's answer is such a plan rests on what a comment is read as
(`ParseType`) and on the order of its publications (`JobBlock`, `BlocksJoin`).
Both the parser and the concatenation of the answers are recursive functions;
their existence and the type of their values are proved from the least position
at which they would fail (`Least`), which stands in for induction.

Why a check stays queued needs more: `Followed` says of every job that was sent
where it is, in the queue of its builder, in its hands with the result yet to
be published, as a result in the queue of the poster or in its hands with the
check yet to be posted, or why its check may stay (`Over`). A death takes it a
step back, never off this way, and what is over stays over (`OverStays`); at
rest only the queues of systems without a builder are left. `Complete` says that
the filter alone plans jobs, for the right systems, and that until something
dies each is sent to all of them or still planned. `ResponseParts` proves that
an answer is of this kind for every comment, `AllowedSystems` that the two lists
of the ACL say what the README of the repository does.

`TopologyProofs`, for any programs, events and crashes, and a broker that goes
down at any time: what the broker has is what programs declare (`Standing`), and
no program is up while it is not (`Connected`). Declarations agree with each
other (`OrderlySetups`), those of a program that ever ran stay but for its
exclusive queue, and that queue is there only while its program runs. On this
rests that what is published reaches a queue whose reader reads it (`SentWhere`,
`BindingWhere` for the exchanges, `EventKey` for the words of a key), and that
an event is in a queue that outlives the broker, or dealt with, or one of those
the web hook lost (`Remembered`). `QueuesInOrder` follows. `DropsExplained` goes
the other way: by `Reached`, whoever has declared can be reached, so that what
goes to no queue had no reader yet, or one that does not listen, or a key no
binding matches (`EventExcused`, `HeardExcused`). The web hook loses an event
only while the broker is down, since what it declares never disagrees with what
others have (`HookAgrees`, `RejectedExcused`).

`PartsProofs` is about what shares no state with others.

*Labels*, for any evaluators, heads, lists of nix-env, people and crashes. That
labels are those of the last evaluation (`LabelsTheorem`) is a matter of what an
evaluator has dealt with when it gets to a place: `Seen(place)` are the labels
decided by then, and `Shown` says that the issue has them as its head wants
them, but for what is left of the update in hand (`OwnUpdate`), as long as
nothing was disturbed. Evaluators of one head ask for the same, so that the
order of their requests does not matter; this is why `disturbed` is about other
heads and about people, and why the invariant has to speak of all evaluators at
work at once. A removal is refused only if the label was taken away after the
issue was read (`OnlyRacesTheorem`, the safety part of `EvaluationsSettle`), and
no step of an evaluator takes off a label no tagger knows or puts on that of
maintainers without the reason for it (`ReasonTheorem`).

Both rest on the taggers and on `OutPathDiff`. `CountsTheorem` and
`OneRangeTheorem`: for every finite set of rebuilt attributes the labels put on
are those whose ranges contain the counts of their platform, all others are
removed, and there is one besides "501+". `RebuiltCount`: as many attributes are
counted as there are new lines of the platform. `ParseLines` is a recursive
function; that it is the map the lines describe is proved from the least line
at which it would not be. The assumptions: nix-env lists an attribute once
(`ContentAssumption`), and the labels that the configuration has for paths are
none of those other taggers know (`TagPathsAssumption`).

*LineWriterUse*, for any texts, number of lines and order of them. A fresh
writer takes the length of the file for the line it wrote last, so that it
rewrites what lies in the file and otherwise appends the padding and the line
(`FreshTheorem`). One writer for all remembers the file too; that it never
appends where a row already is follows from the last row being a written one, so
that a new line which neither rewrites nor panics lies behind it
(`SingleTheorem`). It may panic: see the findings.

*EvaluationFilter*, for any bases, spellings and number of events
(`FilterTheorem`): of the events that wait, those that will bring a job
(`Asking`) decide. If there are any, the last of them is of the pull request as
it is, and otherwise the last job is (`CurrentIsAsked`). `AsksAnew` adds, until
the filter dies, that two jobs in a row differ (`NoNeedlessTheorem`).

*VendingMachine*, for any workers, repositories and messages (`MachineTheorem`):
a worker that remembers a repository as one without the app is at the message
it asked for (`ClientRight`), and what is remembered otherwise holds until the
app is removed somewhere (`MemoryHolds`), so that GitHub refuses for no other
reason.

*Statistics*, for any evaluators, threads and crashes (`CountersTheorem`). A
thread holds exactly the mutexes of the metrics it has written out, and these
have not changed since (`PageHolds`). That no event is counted twice, and none
is forgotten without a crash, needs the values the counters have yet to take:
`Counting` says that there is for each number of messages still to be counted a
table of what the counters will be then, each the one before and one message,
none above what was published. A message that is taken stays pending until it
is acknowledged, and a crash starts the tables anew with all that is pending.
What was published tells where an evaluator is (`PhaseTells`); therefore every
table adds up, and so does each page.

`ServicesTheorem` joins the last four as `ServicesRight`, the invariant of the run
`parts`, in which each of them runs by itself.

The assumptions are the named ASSUMEs of the modules; TLC evaluates them in the
runs. Only model-checked:

* liveness (`CommandCompletes`, `FinishIsRecorded`, `JobsSettled`,
  `JobsGetVerdicts`, `CommentsHandledInOrder`, `EvaluationsEnd`,
  `EvaluationsSettle`, `ComesUp`, `ServicesSettle`), since it needs fairness;
* `AlgorithmsRight`: the grammar of comments (but for the types of what is read),
  which would need induction over its words, and the formats of messages. That a
  fresh writer never panics, which is part of it, is proved (`FreshTheorem`);
* the findings below, which are counterexamples.

## Findings

* `line_writer_unordered`: `write_to_line` decides between append and rewrite by
  `last_line`, not by the length of the buffer (`writetoline.rs:48`). After
  lines 2 and 0, line 1 panics. The tests write lines in any order but never
  forward again into the middle. The collector does not meet it as long as
  builders number their lines upwards (`LinesMoveForward`).
* `checkout_killed_clone`: `clone.rs:53` takes any directory for a finished
  clone. After a kill in the middle of the first clone, every job of the
  machine fails in the fetch that follows and is redelivered, for ever.
* `comment_parser_unknown`: the alternative for what is not understood
  (`commentparser.rs:42`) takes the mention of the next command with it, and the
  whole line then yields nothing, though the comment at line 39 says that
  unknown commands are ignored.

Met on the way, and part of the models rather than runs of their own:

* A check stays queued for good when its result overtakes it
  (`githubcommentfilter.rs:131` publishes the job first), when the commit is
  gone or does not merge, or when GitHub refuses the result
  (`StuckChecksExplained` names the reasons).
* Tests are also sent to aarch64-linux (`systems.rs:23`), which `README.md:53`
  of the repository does not say.
* A status can stay pending after a crash, when the pull request was closed
  before the redelivery (`NothingLeftPending`).
* Builders of all jobs bind their queue to the exchange `build-jobs`, to which
  nobody publishes (`bin/builder.rs:84`): such a builder has nothing to do.
* A builder's job without a target branch is one for `origin/origin/master`
  (`tasks/build.rs:299-302`): it panics and is delivered again for ever, as a job
  for a branch that was deleted is where the tree is cloned afterwards
  (`RefusalsExplained` names both).
* An event that GitHub sends while the broker is down is lost: the web hook ends
  with an error (`php/web/index.php:18-34`), and nobody asks GitHub again
  (`DropsExplained`).
* Where no log collector is deployed nobody declares the exchange of the logs,
  and every builder goes down on its first job, for ever; so it is with the
  exchange of the results where there is no poster (`ComesUp` leaves those
  deployments out).
* The timer of `EvaluationDuration` is started after the work it is meant to
  time (`tasks/evaluate.rs:225`).

## Not modelled, and why

* `nix.rs`, `nixenv.rs`, `evalchecker.rs`, `files.rs`: command lines and their
  output. What they return is a free outcome in `Builder`, `Evaluation` and
  `Labels`.
* `nixstats.rs`: parsing of the numbers nix prints, and a table of them.
* Torn writes: a line of a log and its newline are two writes
  (`writetoline.rs:73-74`); a row in `LineWriter` has no halves.
* The validation of paths in the log collector: routing keys and attempts are
  opaque.
* Text: summaries of checks, gists, commit descriptions, log output.
* `php/`: the signature check of the web hook and the log viewer, outside the
  Rust program. What the web hook declares and publishes, and the event it
  loses where it reaches no broker, is in `Topology`.
* The development drivers (`bin/build-faker.rs`, `bin/simple-build.rs` and the
  like), `locks.rs` where no task uses it, `asynccmd.rs`'s errors of channels
  whose other end cannot be gone.

Worth doing next: rows with halves in `LineWriter`, and a proof that the grammar of
comments reads the commands of a line in their order.
