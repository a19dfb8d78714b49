------------------------------ MODULE MCAsync ------------------------------
(***************************************************************************)
(* Async for TLC: a main script, one async task, one worker that keeps the *)
(* program alive or one daemon, and one timer, so that a future can be     *)
(* settled by each of them while either VM waits for it.                   *)
(***************************************************************************)
EXTENDS Async
============================================================================
