----------------------------- MODULE MCRpcClient -----------------------------
(* RpcClient with two clients, one of which is called back, and one thread. *)
EXTENDS RpcClient
CONSTANTS c1, c2, t1
=============================================================================
