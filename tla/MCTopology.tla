----------------------------- MODULE MCTopology -----------------------------
(* The programs a comment passes through and those a pull request passes     *)
(* through, with a death or a broker that goes down.                         *)
EXTENDS Topology

CONSTANTS linux, darwin

Regular(s) == [role |-> "builder", system |-> s, all |-> FALSE]
Greedy(s) == [role |-> "builder", system |-> s, all |-> TRUE]
Building == {Single(r) : r \in {"comment-filter", "poster", "collector"}}
Evaluating == {Single(r) : r \in {"evaluation-filter", "evaluator", "stats", "poster"}}

Pkgs == <<"nixos/nixpkgs">>
Homepage == <<"nixos/nixos", "org">>
Event(kind, repo, asks) == [kind |-> kind, repo |-> repo, asks |-> asks]

MCSites ==
  {\* A build asked for in a comment, on a system that has a builder and one
   \* that has none.
   [systems |-> {linux, darwin}, programs |-> Building \cup {Regular(linux)},
    events |-> <<Event("issue_comment", Pkgs, "build")>>,
    crashes |-> 0, restarts |-> 0],
   \* A repository with a dot in its name, a broker that goes down, and a
   \* builder of all jobs.
   [systems |-> {linux}, programs |-> Building \cup {Regular(linux), Greedy(linux)},
    events |-> <<Event("issue_comment", Homepage, "build")>>,
    crashes |-> 0, restarts |-> 1],
   \* A pull request, and a comment on it that nobody hears, without a collector.
   [systems |-> {linux}, programs |-> Evaluating \cup {Regular(linux)},
    events |-> <<Event("pull_request", Pkgs, "eval"), Event("issue_comment", Pkgs, "eval")>>,
    crashes |-> 1, restarts |-> 0],
   \* A broker that goes down at any point of a pull request's way.
   [systems |-> {linux}, programs |-> {Single("evaluation-filter"), Single("poster"), Regular(linux)}
                                        \cup {Single("evaluator"), Single("collector")},
    events |-> <<Event("pull_request", Pkgs, "eval")>>,
    crashes |-> 0, restarts |-> 1],
   \* One that goes down before, between or after two pull requests.
   [systems |-> {}, programs |-> {Single(r) : r \in {"evaluation-filter", "evaluator", "poster", "collector"}},
    events |-> <<Event("pull_request", Pkgs, "eval"), Event("pull_request", Pkgs, "eval")>>,
    crashes |-> 0, restarts |-> 1]}
=============================================================================
