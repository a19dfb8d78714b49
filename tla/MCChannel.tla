----------------------------- MODULE MCChannel -----------------------------
(***************************************************************************)
(* Channel for TLC: three threads, so that two receivers can sleep while a *)
(* third sends twice or closes; two values, so that their order shows.     *)
(***************************************************************************)
EXTENDS Channel
============================================================================
