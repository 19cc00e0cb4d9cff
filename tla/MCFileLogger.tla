---------------------------- MODULE MCFileLogger ----------------------------
EXTENDS FileLogger

CONSTANTS short, long

MCLength == (short :> 1) @@ (long :> 3)
=============================================================================
