----------------------------- MODULE MCRpcNegAck -----------------------------
(* Model-checking instance of RpcNegAck: two processes, two servers, two  *)
(* channels and one slot of serverAllocState.  A negative ack from one    *)
(* server while the other holds the last channel of the table reaches    *)
(* the congested scan with a free channel of the server before it.       *)
EXTENDS RpcNegAck

CONSTANTS p1, p2, sa, sb

MCProcs == {p1, p2}
MCServers == {sa, sb}
MCNumChannels == 2
MCTableSize == 1
=============================================================================
