----------------------------- MODULE MCRecovery -----------------------------
(* Model-checking instance of Recovery with its ping daemon: one peer,    *)
(* one server process, one waiting process, boot time stamps 1..3 and    *)
(* one client-state bit.                                                   *)
EXTENDS RecovPing

CONSTANTS h1, s1, w1, b1, ptr

MCHosts == {h1}
MCServers == {s1}
MCWaiters == {w1}
MCBits == {b1}
MCMaxBoot == 3

\* Bound on crash-call-back tasks scheduled at once for a peer.
MaxCrashTasks == 2

StateConstraint == \A h \in Hosts : host[h].crash <= MaxCrashTasks
=============================================================================
