----------------------------- MODULE MCBuilder -----------------------------
(* A job without attributes, and one whose commit is gone or not: then it    *)
(* must be answered.  Of a log of three lines a snippet of two loses one.    *)
EXTENDS Builder

MCNoCode == -1
MCExitCodes == {0, MCNoCode}
=============================================================================
