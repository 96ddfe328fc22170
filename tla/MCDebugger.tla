------------------------------ MODULE MCDebugger ------------------------------
(* Instances of Debugger for TLC: two lines with breakpoints, one  *)
(* of them in a library that is not loaded.                                 *)
EXTENDS Debugger

CONSTANTS l1, l2

=============================================================================
