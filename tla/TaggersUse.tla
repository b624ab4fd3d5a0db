----------------------------- MODULE TaggersUse -----------------------------
(***************************************************************************)
(* The RebuildTagger of an evaluation is told which attributes a pull       *)
(* request rebuilds (NixpkgsStrategy::update_rebuild_labels).               *)
(***************************************************************************)
EXTENDS Taggers

CONSTANT Merges     \* the sets of attributes a pull request may rebuild

ASSUME MergesAssumption == \A attrs \in Merges : IsFiniteSet(attrs)

VARIABLES attrs, tags

\* A tagger that has been told of no attributes.
TaggerInit == attrs = {} /\ tags = RebuildTags({})

ParseAttrs(rebuilt) ==
    /\ attrs = {}
    /\ attrs' = rebuilt
    /\ tags' = RebuildTags(rebuilt)

TaggerNext == \E rebuilt \in Merges : ParseAttrs(rebuilt)

taggerVars == <<attrs, tags>>
TaggerSpec == TaggerInit /\ [][TaggerNext]_taggerVars

-----------------------------------------------------------------------------

Rebuilds(arch) == Cardinality({a \in attrs : a.architecture = arch})
Total == [topic \in RebuildTopics |->
    Rebuilds(IF topic = "10.rebuild-linux" THEN "x86_64-linux" ELSE "x86_64-darwin")]

\* For every number of rebuilds the labels put on are those whose names tell the
\* truth, and all others go (tagger.rs:151-230; the tests, 382-824, try nine
\* counts): "501+" beside a finer range above 500, and one range below.
CountsTellTheTruth ==
    /\ tags.add = {l \in RebuildPossible : InRange(l[2], Total[l[1]])}
    /\ tags.remove = RebuildPossible \ tags.add

\* A pull request has one range for each platform that is not "501+".
OneRangeEach ==
    \A topic \in RebuildTopics :
        \E range \in Ranges \ {"501+"} :
            {l \in tags.add : l[1] = topic /\ l[2] # "501+"} = {<<topic, range>>}
=============================================================================
