----------------------------- MODULE MCCheckout -----------------------------
(* A builder and an evaluator on one machine share the cache; or the         *)
(* evaluator is alone, and its tree sees jobs for two pull requests that are *)
(* pushed to; or the target branch moves and is deleted, and jobs do not     *)
(* name it.                                                                  *)
EXTENDS Checkout

CONSTANTS builder, evaluator, builderTree, evaluatorTree, p1, p2

MCEvaluators == {evaluator}
MCTreeOf == [w \in Workers |-> IF w = evaluator THEN evaluatorTree ELSE builderTree]

Both == [workers |-> {builder, evaluator}, prs |-> {p1}, master |-> 0, pushes |-> 1,
         deletes |-> FALSE, names |-> {TRUE}, trouble |-> 2]
TwoPrs == [workers |-> {evaluator}, prs |-> {p1, p2}, master |-> 1, pushes |-> 2,
           deletes |-> FALSE, names |-> {TRUE}, trouble |-> 1]
OnePr == [workers |-> {evaluator}, prs |-> {p1}, master |-> 1, pushes |-> 2,
          deletes |-> FALSE, names |-> {TRUE}, trouble |-> 2]
Target(w) == [workers |-> {w}, prs |-> {p1}, master |-> 1, pushes |-> 1,
              deletes |-> TRUE, names |-> BOOLEAN, trouble |-> 1]
MCSites == {Both, TwoPrs, OnePr, Target(builder), Target(evaluator)}
JustBoth == {Both}
=============================================================================
