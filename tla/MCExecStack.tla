----------------------------- MODULE MCExecStack -----------------------------
(* Exec calls with up to two arguments and one environment string of up   *)
(* to two characters, NIL arrays, a.out files and interpreter files with  *)
(* and without an interpreter argument, on the sun4 build.               *)
EXTENDS ExecStack

CONSTANTS NIL

MCCalls == [args : {NIL} \cup SeqOf(0..2, 2), envs : {NIL} \cup SeqOf(0..2, 1),
            extra : 0..2, shellArg : 1..2, fileName : 1..2]

\* Values the uninitialized realLength may hold.
MCGarbage == 0..8
=============================================================================
