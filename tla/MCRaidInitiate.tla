--------------------------- MODULE MCRaidInitiate ---------------------------
(***************************************************************************)
(* Three data columns and a parity column, two sectors per stripe unit,   *)
(* two stripes (sectors 0..11).  The request shapes are chosen so that    *)
(* each write path of InitiateStripeWrite is taken:                        *)
(*   <<1, 2>>  one sector: read-modify-write restricted to one sector;     *)
(*   <<1, 3>>  two units, partly: read-modify-write over whole units, and  *)
(*             the split write when one of them fails;                     *)
(*   <<1, 4>>  three sectors: reconstruct write, and the split write when  *)
(*             the partial rest of unit 0 fails;                           *)
(*   <<5, 7>>  across the stripe boundary: two stripe I/Os.                *)
(***************************************************************************)
EXTENDS RaidInitiate

CONSTANTS c1

MCClients == {c1}
MCShapes == {<<1, 2>>, <<1, 3>>, <<1, 4>>, <<5, 7>>}
MCPatterns == {[k \in 0..1 |-> 1 - k]}

\* Requests per client and I/O errors per behaviour.
MaxReqs == 2
MCMaxFaults == 1

ReqBound == \A cl \in Clients : nreq[cl] <= MaxReqs

=============================================================================
