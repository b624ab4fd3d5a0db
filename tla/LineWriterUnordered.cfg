SPECIFICATION Spec
CONSTANTS
    Blank = ""
    Text = {"", "x"}
    MaxLine = 4
    Reopen = FALSE
INVARIANT AnyOrderAccepted
\* The driver stops when every line is written.
CHECK_DEADLOCK FALSE
