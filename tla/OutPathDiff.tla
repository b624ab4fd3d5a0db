----------------------------- MODULE OutPathDiff ----------------------------
(***************************************************************************)
(* ofborg/src/outpathdiff.rs: what nix-env lists before and after a merge,  *)
(* and how the two lists differ.                                            *)
(*                                                                          *)
(* A line is a sequence of words, and a word a sequence of names; the first *)
(* word is an attribute path, of which the last name is the architecture.   *)
(***************************************************************************)
EXTENDS Naturals, Sequences, SequencesExt

PackageArch(word) == [package |-> Front(word), architecture |-> Last(word)]

WellFormed(words) == Len(words) = 2 /\ Len(words[1]) >= 2

\* Of two lines for one key the later one stays.
Insert(map, key, path) ==
    [k \in DOMAIN map \cup {key} |-> IF k = key THEN path ELSE map[k]]

ParseLines(lines) ==
    LET map[n \in 0..Len(lines)] ==
            IF n = 0 THEN <<>>
            ELSE IF WellFormed(lines[n])
                 THEN Insert(map[n - 1], PackageArch(lines[n][1]), lines[n][2])
                 ELSE map[n - 1]
    IN  map[Len(lines)]

Removed(orig, cur) == DOMAIN orig \ DOMAIN cur
Added(orig, cur) == DOMAIN cur \ DOMAIN orig

\* A key the original list does not have differs: Some # None.
CalculateRebuild(orig, cur) ==
    {key \in DOMAIN cur : key \in DOMAIN orig => cur[key] # orig[key]}
=============================================================================
