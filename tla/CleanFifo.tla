------------------------------ MODULE CleanFifo ------------------------------
(***************************************************************************)
(* What the clean-segment list of the LFS segment usage array promises    *)
(* the segment writer (spec.md section 4.4): the clean segments form a    *)
(* queue without repetitions.  A segment the cleaner empties joins the    *)
(* back, the writer takes the front, a checkpoint saves the queue and a   *)
(* crash brings back the saved one.  Nothing leaves the middle.           *)
(*                                                                         *)
(* LfsSegUsage implements this module under the mapping CF given there:   *)
(* q is the walk of the in-memory clean list from its head and saved the  *)
(* walk of the list in the last checkpoint.                               *)
(***************************************************************************)
EXTENDS Sequences

LOCAL INSTANCE SequencesExt

CONSTANT Items      \* the segment numbers

VARIABLES
    q,              \* the clean segments, oldest first
    saved           \* the queue as of the last checkpoint

qvars == <<q, saved>>

Init ==
    /\ IsInjective(q)
    /\ saved = q

\* A segment that was not clean becomes clean.
Put(s) ==
    /\ s \notin ToSet(q)
    /\ q' = Append(q, s)
    /\ UNCHANGED saved

\* The writer takes the oldest clean segment.
Take ==
    /\ q # <<>>
    /\ q' = Tail(q)
    /\ UNCHANGED saved

Save ==
    /\ saved' = q
    /\ UNCHANGED q

Restore ==
    /\ q' = saved
    /\ UNCHANGED saved

Next ==
    \/ \E s \in Items : Put(s)
    \/ Take
    \/ Save
    \/ Restore

Spec == Init /\ [][Next]_qvars

=============================================================================
