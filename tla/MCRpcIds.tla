------------------------------ MODULE MCRpcIds ------------------------------
(* Model-checking instance of RpcIds: two processes, two servers and two *)
(* channels, so that one process's RpcSetup can be overtaken by whole    *)
(* calls of the other on its own channel; rpcID up to 4 allows three     *)
(* completed setups after a stale load.                                   *)
EXTENDS RpcIds, TLC

CONSTANTS p1, p2, sa, sb

MCProcs == {p1, p2}
MCServers == {sa, sb}
MCNumChannels == 2
MCMaxID == 4
=============================================================================
