--------------------------- MODULE CommitVerdict ---------------------------
(***************************************************************************)
(* What the evaluator promises about the commit status of a pull request's  *)
(* head: it turns pending when an evaluation begins, and then gets one      *)
(* verdict, which stands until the next evaluation begins.  Success means   *)
(* that every check of that evaluation has succeeded.  The module           *)
(* Evaluation is shown to implement this specification.                     *)
(***************************************************************************)
CONSTANT Checks     \* the checks of an evaluation

VARIABLES
    verdict,    \* the commit status
    passed      \* the checks that show success

Init == verdict = "none" /\ passed \in SUBSET Checks

Begin == verdict' = "pending" /\ UNCHANGED passed

Check(c) ==
    /\ verdict = "pending"
    /\ passed' \in {passed \cup {c}, passed \ {c}}
    /\ UNCHANGED verdict

Succeed ==
    /\ verdict = "pending"
    /\ passed = Checks
    /\ verdict' = "success"
    /\ UNCHANGED passed

Reject ==
    /\ verdict = "pending"
    /\ verdict' \in {"failure", "error"}
    /\ UNCHANGED passed

Next == Begin \/ (\E c \in Checks : Check(c)) \/ Succeed \/ Reject

Spec == Init /\ [][Next]_<<verdict, passed>>
=============================================================================
