------------------------------ MODULE MCParts -------------------------------
(***************************************************************************)
(* The parts that TLC checks by themselves: in each behaviour one of them   *)
(* runs and the others stay as they start.  For the taggers, every count at *)
(* a bound of a range, with some attributes of a platform that is not       *)
(* counted; for the two writers of a log, the lines in every order.         *)
(***************************************************************************)
EXTENDS Parts

VARIABLES
    part,                                                   \* the one that runs
    line,                                                   \* CommentParserUse
    sent, wire, read, stored, count                         \* Messages

PartNames == {"taggers", "fresh writers", "one writer", "comment parser", "messages",
              "evaluation filter", "vending machine", "statistics"}

Parser == INSTANCE CommentParserUse WITH Names <- {"hello"}, MaxWords <- 6
Wire == INSTANCE Messages WITH Said <- {"", "something"}, MaxMessages <- 1

MCSpellings == {"nixos/nixpkgs", "NixOS/nixpkgs", "grahamc"}
MCLower == [s \in MCSpellings |-> IF s = "NixOS/nixpkgs" THEN "nixos/nixpkgs" ELSE s]

\* The repositories alternate for one worker; the other has one message.
MCDeliveries == [w \in Clients |-> IF w = "poster" THEN <<"r1", "r2", "r1">> ELSE <<"r1">>]

writerVars == <<rows, writer, panicked, written, expected>>
wireVars == <<sent, wire, read, stored, count>>
filterVars == <<pr, branch, happened, events, todo, jobs, filterCrashes>>
machineVars == <<install, deliveries, place, id_cache, client_cache, lost, excused, ids, removals,
                 errors, clientCrashes>>
countersVars == <<stats, message, stage, counters, lock, phase, reached, output, published,
                  received, scrapes, odd, collectorCrashes>>
partVars == <<part, taggerVars, writerVars, line, wireVars, filterVars, machineVars, countersVars>>

Bounds == {0, 1, 10, 11, 100, 101, 500, 501, 1000, 1001, 2500, 2501, 5000, 5001}

Attributes(arch, n) == {[package |-> i, architecture |-> arch] : i \in 1..n}

\* Darwin at each bound beside no rebuilds, as many or 501 on Linux, and the
\* other way around.
MCMerges ==
    {Attributes("x86_64-darwin", c[1]) \cup Attributes("x86_64-linux", c[2])
         \cup Attributes("aarch64-linux", 3) :
             c \in {c \in Bounds \X Bounds : c[1] = c[2] \/ {c[1], c[2]} \cap {0, 501} # {}}}

-----------------------------------------------------------------------------

PartsInit ==
    /\ part \in PartNames
    /\ TaggerInit
    /\ Fresh!Init /\ Parser!Init /\ Wire!Init
    /\ Filter!Init /\ (part # "evaluation filter" => pr.base = "master")
    /\ Machine!Init /\ (part # "vending machine" => \A r \in Repos : install[r] = 0)
    /\ Counters!Init

Runs(name) == part = name /\ UNCHANGED part

Tag ==
    TaggerNext /\ UNCHANGED <<writerVars, line, wireVars, filterVars, machineVars, countersVars>>
WriteLog(write) ==
    write /\ UNCHANGED <<taggerVars, line, wireVars, filterVars, machineVars, countersVars>>
Comment ==
    Parser!Next /\ UNCHANGED <<taggerVars, writerVars, wireVars, filterVars, machineVars, countersVars>>
Exchange ==
    Wire!Next /\ UNCHANGED <<taggerVars, writerVars, line, filterVars, machineVars, countersVars>>
FilterEvents(filter) ==
    filter /\ UNCHANGED <<taggerVars, writerVars, line, wireVars, machineVars, countersVars>>
Speak(speak) ==
    speak /\ UNCHANGED <<taggerVars, writerVars, line, wireVars, filterVars, countersVars>>
CountEvents(collect) ==
    collect /\ UNCHANGED <<taggerVars, writerVars, line, wireVars, filterVars, machineVars>>

PartsNext ==
    \/ Runs("taggers") /\ Tag
    \/ Runs("fresh writers") /\ WriteLog(Fresh!Next)
    \/ Runs("one writer") /\ WriteLog(Single!Next)
    \/ Runs("comment parser") /\ Comment
    \/ Runs("messages") /\ Exchange
    \/ Runs("evaluation filter") /\ FilterEvents(Filter!Next)
    \/ Runs("vending machine") /\ Speak(Machine!Next)
    \/ Runs("statistics") /\ CountEvents(Counters!Next)

\* The fairness of EvaluationFilter, VendingMachine and Statistics.
PartsSpec ==
    /\ PartsInit /\ [][PartsNext]_partVars
    /\ WF_partVars(Runs("evaluation filter") /\ FilterEvents(Filter!Filter))
    /\ \A w \in Clients : WF_partVars(Runs("vending machine") /\ Speak(Machine!Step(w)))
    /\ WF_partVars(Runs("statistics") /\ CountEvents(Counters!Collect))
    /\ \A s \in Scrapers : WF_partVars(Runs("statistics") /\ CountEvents(Counters!Scrape(s)))

-----------------------------------------------------------------------------

\* A fresh writer takes the lines in any order (writetoline.rs:30-78); a line of a
\* comment is read as the commands in it, or not at all (commentparser.rs:19-61); every message is taken for what it is and
\* nothing of it is lost, by readers that try one format after the other
\* (log_message_collector.rs:178-214, githubcommentposter.rs:25-56,
\* message/buildresult.rs:54-152).
AlgorithmsRight ==
    /\ part = "fresh writers" => Fresh!AnyOrderAccepted
    /\ Parser!CommandsReadInOrder /\ Parser!AllOrNothing
    /\ Wire!ReadAsSent /\ Wire!StatusAsMeant /\ Wire!NothingLostInStore

\* Every event of a pull request is handled; a worker has nothing left to do or
\* waits for a repository without the app (githubcommentposter.rs:81,
\* evaluate.rs:121); every statistic is counted and every page served, though
\* deliveries and pages wait for mutexes of each other (build.rs:480-566).
ServicesSettle ==
    /\ <>[](part = "evaluation filter" => events = <<>>)
    /\ <>[](\A w \in Clients :
            part = "vending machine" => deliveries[w] = <<>> \/ install[Head(deliveries[w])] = 0)
    /\ <>[](stats = <<>> /\ stage = "idle" /\ \A s \in Scrapers : reached[s] = 0)
=============================================================================
