SPECIFICATION Spec
CONSTANTS
    e1 = e1
    e2 = e2
    Evaluators = {e1, e2}
    Heads = {"same", "mass", "new", "clash"}
    Content <- MCContent
    TagPaths <- MCTagPaths
    Submitter = "alice"
    ReviewLimit = 2
    InitialLabels <- MCInitialLabels
    Sites <- MCSites
INVARIANTS
    LabelsOfLastEvaluation
PROPERTIES
    LabelsWithReason
    EvaluationsSettle
\* All has been pushed and evaluated.
CHECK_DEADLOCK FALSE
