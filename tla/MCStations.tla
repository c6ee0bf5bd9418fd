----------------------------- MODULE MCStations -----------------------------
(* Bounded instances of Stations: connector 1 is configured, 2 is not. *)
EXTENDS Stations, TLC

ConnSymmetry == Permutations(Conns)
=============================================================================
