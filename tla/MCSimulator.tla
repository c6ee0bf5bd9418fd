---------------------------- MODULE MCSimulator ----------------------------
(* A small simulated station. *)
EXTENDS Simulator
=============================================================================
