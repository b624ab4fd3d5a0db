----------------------------- MODULE MCAsyncCmd -----------------------------
(* Two lines per stream, a channel and a pipe of one line each, so that the *)
(* readers and the child block at every line.                               *)
EXTENDS AsyncCmd

MCStatuses == {0, 100}
MCNoStatus == -1
=============================================================================
