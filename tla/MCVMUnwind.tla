---------------------------- MODULE MCVMUnwind ----------------------------
(***************************************************************************)
(* VMUnwind for TLC: three frames and two nested run() invocations are     *)
(* enough for a native to be called under a try statement, to call back,   *)
(* and for the callback to call, to try and to fault in turn.  Closures    *)
(* are interchangeable and only invariants are checked.                    *)
(***************************************************************************)
EXTENDS VMUnwind, TLC

Symmetry == Permutations(Closures)
============================================================================
