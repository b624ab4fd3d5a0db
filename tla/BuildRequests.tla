--------------------------- MODULE BuildRequests ---------------------------
(***************************************************************************)
(* What the build workers promise to whoever asks for builds: a request is  *)
(* settled once, at its end; until then it is answered at least once,       *)
(* unless it is one that gets no answer, and afterwards it is never touched *)
(* again.  The module Builder is shown to implement this specification.     *)
(***************************************************************************)
CONSTANT Jobs   \* the build requests

VARIABLES
    answered,   \* the requests that have been answered
    settled,    \* the requests that are done with
    silent      \* those that may be settled without an answer: the same at all times

Init == answered = {} /\ settled = {} /\ silent \subseteq Jobs

\* An answer may come again: a worker that dies has it answered by another.
Answer(j) ==
    /\ j \notin settled
    /\ answered' = answered \cup {j}
    /\ UNCHANGED <<settled, silent>>

Settle(j) ==
    /\ j \notin settled
    /\ j \in answered \cup silent
    /\ settled' = settled \cup {j}
    /\ UNCHANGED <<answered, silent>>

Next == \E j \in Jobs : Answer(j) \/ Settle(j)

Spec == Init /\ [][Next]_<<answered, settled, silent>>
=============================================================================
