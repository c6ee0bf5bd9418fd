--------------------------- MODULE MCControlSocket ---------------------------
(* Processes of one state file that start, stop and die again and again; one  *)
(* inode more than processes, so that one is always free.  Both are           *)
(* interchangeable: no definition tells them apart, and the one CHOOSE, of a  *)
(* process that holds the lock, has one to choose from.                       *)
EXTENDS ControlSocket, TLC

Interchangeable == Permutations(Procs) \cup Permutations(Inodes)
=============================================================================
