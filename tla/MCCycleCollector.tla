-------------------------- MODULE MCCycleCollector --------------------------
(***************************************************************************)
(* CycleCollector for TLC: two containers, two closures and one upvalue    *)
(* cell are the smallest heap with a cycle through containers, a cycle     *)
(* through a closure, and an upvalue shared by two closures.  No object,   *)
(* slot or field is treated differently from another of its kind, and only *)
(* invariants are checked, so the reduction by symmetry is sound.          *)
(***************************************************************************)
EXTENDS CycleCollector, TLC

Symmetry ==
    Permutations(Containers) \cup Permutations(Closures)
        \cup Permutations(Slots) \cup Permutations(Fields)
============================================================================
