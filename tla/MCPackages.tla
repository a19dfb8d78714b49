----------------------------- MODULE MCPackages -----------------------------
(***************************************************************************)
(* A registry of two packages: app needs core, and comes without a         *)
(* checksum.                                                               *)
(***************************************************************************)
EXTENDS Packages, TLC

MCDepends == "core" :> {} @@ "app" :> {"core"}
=============================================================================
