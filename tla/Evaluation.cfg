SPECIFICATION Spec
CONSTANTS
    e1 = e1
    e2 = e2
    Evaluators = {e1, e2}
    NChecks = 2
    BuildArchs <- MCBuildArchs
    Sites <- MCSites
INVARIANTS
    HeadSettled
PROPERTIES
    BuildsAreWanted
    EvaluationsEnd
    RefinesCommitVerdict
\* The evaluators stop when no job is left.
CHECK_DEADLOCK FALSE
