---------------------------- MODULE MCEvaluation ----------------------------
(* One evaluator with two checks, two with the same head, and a repository   *)
(* that has no checks.                                                       *)
EXTENDS Evaluation

CONSTANTS e1, e2

MCBuildArchs == <<"x86_64-linux", "aarch64-linux">>

MCSites ==
    {[team |-> {e1}, nixpkgs |-> TRUE, named |-> TRUE, jobs |-> 2, changes |-> 2, crashes |-> 1],
     [team |-> {e1, e2}, nixpkgs |-> TRUE, named |-> FALSE, jobs |-> 2, changes |-> 1, crashes |-> 1],
     [team |-> {e1}, nixpkgs |-> FALSE, named |-> TRUE, jobs |-> 3, changes |-> 2, crashes |-> 2]}
=============================================================================
