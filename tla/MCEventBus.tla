----------------------------- MODULE MCEventBus -----------------------------
(* Two publishers and two subscribers whose channels hold one event. *)
EXTENDS EventBus
=============================================================================
