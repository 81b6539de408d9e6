--------------------------- MODULE MCFunctionSink ---------------------------
(* FunctionSink for TLC: the jump distances include negative ones, which   *)
(* a .cfg file cannot write as literals.                                   *)
EXTENDS FunctionSink

(* A distance that needs 4 bytes and is negative, a short backward one    *)
(* and a short forward one.                                                *)
MCJumpVals == {-300, -2, 100}
=============================================================================
