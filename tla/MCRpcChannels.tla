---------------------------- MODULE MCRpcChannels ----------------------------
(* Model-checking instance of RpcChannels: three processes, two servers  *)
(* and two channels, so that processes wait for channels, channels are   *)
(* reused for the same server and taken over for another.                *)
EXTENDS RpcChannels, TLC

CONSTANTS p1, p2, p3, sa, sb

MCProcs == {p1, p2, p3}
MCServers == {sa, sb}
MCNumChannels == 2

\* Processes and servers are only compared for equality.
Symmetry == Permutations(MCProcs) \cup Permutations(MCServers)
=============================================================================
