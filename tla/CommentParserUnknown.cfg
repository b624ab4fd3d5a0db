SPECIFICATION Spec
CONSTANTS
    Names = {"hello"}
    MaxWords = 6
INVARIANT UnknownCommandsIgnored
\* The line is full.
CHECK_DEADLOCK FALSE
