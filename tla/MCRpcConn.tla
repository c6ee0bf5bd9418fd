----------------------------- MODULE MCRpcConn -----------------------------
(* Two calls on a connection whose channels hold one frame each. *)
EXTENDS RpcConn
=============================================================================
