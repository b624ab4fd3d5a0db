SPECIFICATION Spec
CONSTANTS
    builder = builder
    evaluator = evaluator
    builderTree = builderTree
    evaluatorTree = evaluatorTree
    p1 = p1
    p2 = p2
    Workers = {builder, evaluator}
    Evaluators <- MCEvaluators
    Trees = {builderTree, evaluatorTree}
    TreeOf <- MCTreeOf
    Cache = cache
    Nobody = nobody
    Prs = {p1, p2}
    MaxMaster = 1
    MaxPushes = 2
    Sites <- MCSites
INVARIANTS
    BuildsWhatWasAsked
    InspectsTheTarget
    MissingIsForcePushed
    RefusalsExplained
PROPERTIES
    JobsGetVerdicts
