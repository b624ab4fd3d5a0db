SPECIFICATION Spec
CONSTANTS
    Blank = 0
    Text = {0, 1, 2, 3}
    Attempts = {a1, a2}
    MaxLines = 3
    MaxOpen = 1
INVARIANTS
    HandlesMatchFiles
    LinesMoveForward
    CompleteUnlessInterrupted
PROPERTIES
    LogsOnlyGrow
    FinishIsRecorded
    RefinesLogFile
\* Builders finish and the collector may stay down.
CHECK_DEADLOCK FALSE
