------------------------------ MODULE Taggers -------------------------------
(***************************************************************************)
(* ofborg/src/tagger.rs, with Stdenvs::changed of tasks/eval/stdenvs.rs and *)
(* ImpactedMaintainers::maintainers_by_package of maintainers.rs: which     *)
(* labels an evaluation wants on a pull request, and which it wants gone.   *)
(*                                                                          *)
(* A label is a pair of its name and, for the counts, the range behind it.  *)
(* Each tagger yields what tags_to_add and tags_to_remove answer once it    *)
(* has seen what changed.                                                   *)
(***************************************************************************)
EXTENDS Integers, FiniteSets

Tags(add, remove) == [add |-> add, remove |-> remove]
Plain(name) == <<name, "">>

-----------------------------------------------------------------------------
(* StdenvTagger                                                              *)

StdenvSystems == {"x86_64-linux", "x86_64-darwin"}

StdenvLabel == [system \in StdenvSystems |->
    Plain(IF system = "x86_64-linux" THEN "10.rebuild-linux-stdenv"
                                     ELSE "10.rebuild-darwin-stdenv")]

StdenvPossible == {StdenvLabel[s] : s \in StdenvSystems}

\* A stdenv that cannot be evaluated is None: broken before and after is no change.
StdenvsChanged(before, after) == {s \in StdenvSystems : before[s] # after[s]}

\* Mutant: a stdenv that is the same again keeps its label.
StdenvTags_Sticky(before, after) ==
    Tags({StdenvLabel[s] : s \in StdenvsChanged(before, after)}, {})

StdenvTags(before, after) ==
    LET selected == {StdenvLabel[s] : s \in StdenvsChanged(before, after)}
    IN  Tags(selected, StdenvPossible \ selected)

-----------------------------------------------------------------------------
(* PkgsAddedRemovedTagger                                                    *)

NewPackage == Plain("8.has: package (new)")
CleanUp == Plain("8.has: clean-up")

\* "The cleanup tag is too vague to automatically remove."
PkgsAddedRemovedTags(removed, added) ==
    Tags((IF removed # {} THEN {CleanUp} ELSE {}) \cup
         (IF added # {} THEN {NewPackage} ELSE {}), {})

-----------------------------------------------------------------------------
(* RebuildTagger                                                             *)

Ranges == {"0", "1-10", "11-100", "101-500", "501+",
           "501-1000", "1001-2500", "2501-5000", "5001+"}

RebuildTopics == {"10.rebuild-darwin", "10.rebuild-linux"}

RebuildPossible == RebuildTopics \X Ranges

\* Mutant: the last bound is off by one.
Bucket_Off(count) ==
    CASE count > 5000 -> {"501+", "5001+"}
      [] count > 2500 /\ count <= 5000 -> {"501+", "2501-5000"}
      [] count > 1000 /\ count <= 2500 -> {"501+", "1001-2500"}
      [] count > 501 /\ count <= 1000 -> {"501+", "501-1000"}
      [] count > 100 /\ count <= 501 -> {"101-500"}
      [] count > 10 /\ count <= 100 -> {"11-100"}
      [] count > 0 /\ count <= 10 -> {"1-10"}
      [] OTHER -> {"0"}

Bucket(count) ==
    IF count > 5000 THEN {"501+", "5001+"}
    ELSE IF count > 2500 THEN {"501+", "2501-5000"}
    ELSE IF count > 1000 THEN {"501+", "1001-2500"}
    ELSE IF count > 500 THEN {"501+", "501-1000"}
    ELSE IF count > 100 THEN {"101-500"}
    ELSE IF count > 10 THEN {"11-100"}
    ELSE IF count > 0 THEN {"1-10"}
    ELSE {"0"}

\* What the name of a range says: the reference the buckets are compared with.
InRange(range, n) ==
    \/ range = "0" /\ n = 0
    \/ range = "1-10" /\ n \in 1..10
    \/ range = "11-100" /\ n \in 11..100
    \/ range = "101-500" /\ n \in 101..500
    \/ range = "501+" /\ n >= 501
    \/ range = "501-1000" /\ n \in 501..1000
    \/ range = "1001-2500" /\ n \in 1001..2500
    \/ range = "2501-5000" /\ n \in 2501..5000
    \/ range = "5001+" /\ n >= 5001

\* Only the two x86_64 platforms are counted.
RebuildTags(attrs) ==
    LET count(arch) == Cardinality({a \in attrs : a.architecture = arch})
        selected == ({"10.rebuild-darwin"} \X Bucket(count("x86_64-darwin"))) \cup
                    ({"10.rebuild-linux"} \X Bucket(count("x86_64-linux")))
    IN  Tags(selected, RebuildPossible \ selected)

-----------------------------------------------------------------------------
(* PathsTagger                                                               *)

\* criteria[tag] are the paths in which one of the strings configured for tag occurs.
PathsTags(criteria, paths) ==
    LET selected == {tag \in DOMAIN criteria : paths \cap criteria[tag] # {}}
    IN  Tags({Plain(t) : t \in selected}, {Plain(t) : t \in DOMAIN criteria \ selected})

-----------------------------------------------------------------------------
(* MaintainerPRTagger                                                        *)

ByMaintainer == Plain("11.by: package-maintainer")

\* impact[m] are the packages of the maintainer m.
MaintainersByPackage(impact) ==
    [p \in UNION {impact[m] : m \in DOMAIN impact} |-> {m \in DOMAIN impact : p \in impact[m]}]

\* Mutant: one package is enough.
MaintainerTags_Any(submitter, bypkg) ==
    Tags(IF \E p \in DOMAIN bypkg : submitter \in bypkg[p] THEN {ByMaintainer} ELSE {}, {})

MaintainerTags(submitter, bypkg) ==
    Tags(IF /\ DOMAIN bypkg # {}
            /\ \A p \in DOMAIN bypkg : submitter \in bypkg[p]
         THEN {ByMaintainer} ELSE {}, {})
=============================================================================
