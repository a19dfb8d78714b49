---------------------------- MODULE MCSafepoint ----------------------------
(***************************************************************************)
(* Safepoint for TLC: the main thread and two workers, so that one thread  *)
(* can collect, one be parked and one start, exit or request a collection  *)
(* of its own at the same time.                                            *)
(***************************************************************************)
EXTENDS Safepoint
============================================================================
