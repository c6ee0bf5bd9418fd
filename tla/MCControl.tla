------------------------------ MODULE MCControl ------------------------------
(* Bounded instances of Control. *)
EXTENDS Control, TLC

MCFoldTwo == "ab" :> "ab" @@ "cd" :> "cd"
MCFoldOne == "ab" :> "ab"
=============================================================================
