------------------------------- MODULE MCCore -------------------------------
(* Bounded instances of Core: one EVSE, one tag, two goroutines. *)
EXTENDS Core, TLC

MCFoldOne == "ab" :> "ab"
WorkerSymmetry == Permutations(Workers)
=============================================================================
