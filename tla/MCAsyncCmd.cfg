SPECIFICATION Spec
CONSTANTS
    Statuses <- MCStatuses
    NoStatus <- MCNoStatus
    OUT_CHANNEL_BUFFER_SIZE = 1
    WAITER_CHANNEL_BUFFER_SIZE = 2
    PipeCapacity = 1
    MaxLines = 2
INVARIANTS
    EveryLineOnceInOrder
    NoticesAccounted
    StatusAfterAllOutput
PROPERTIES
    CommandCompletes
    RefinesCommandRun
\* The threads stop when the command is done.
CHECK_DEADLOCK FALSE
