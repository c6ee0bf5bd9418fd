----------------------------- MODULE MCCommands -----------------------------
(***************************************************************************)
(* One one-shot command against one daemon and one station.  Commands meet *)
(* only in core (Control models that), so one is enough here.              *)
(***************************************************************************)
EXTENDS Commands
=============================================================================
