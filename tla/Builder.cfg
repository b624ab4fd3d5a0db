SPECIFICATION Spec
CONSTANTS
    Builders = {b1, b2}
    Jobs = {empty, job}
    EmptyJobs = {empty}
    StaleJobs = {job}
    NoJob = none
    ExitCodes <- MCExitCodes
    NoCode <- MCNoCode
    SNIPPET = 2
    MaxLines = 3
    MaxCrashes = 1
INVARIANTS
    ResultsShowTheTail
    LogsWellFormed
    SecondAnswerOnlyAfterCrash
PROPERTIES
    JobsSettled
    RefinesBuildRequests
\* The builders stop when every job is settled.
CHECK_DEADLOCK FALSE
