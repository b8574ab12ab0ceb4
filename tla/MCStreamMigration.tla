-------------------------- MODULE MCStreamMigration --------------------------
(* Three processes sharing a writable stream opened on h1, three client     *)
(* hosts, three migrations: enough for two processes to move to one       *)
(* target at once and for one of them to move on while the other's       *)
(* FS_MIGRATE request is still on its way to the I/O server, or for a     *)
(* process to move to a host and back, or to each of the other hosts.    *)
EXTENDS StreamMigration, TLC

CONSTANTS h1, h2, h3, p1, p2, p3

MCHosts == {h1, h2, h3}
MCProcs == {p1, p2, p3}

\* h1 is Home; h2 and h3 are interchangeable.
Symmetry == Permutations({h2, h3})

\* The bound on the number of migrations started.
MaxMoves == 3

MovesBound == moves <= MaxMoves
=============================================================================
