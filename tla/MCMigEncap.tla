------------------------------ MODULE MCMigEncap ------------------------------
(* File states with up to two groups, up to three stream slots (empty or *)
(* holding one of two streams, each with one of two flag bytes) and a cwd *)
(* prefix of up to three characters, with 4-byte ints and alignment: the  *)
(* flag bytes and the cwd name are padded by 0 to 3 bytes.               *)
EXTENDS MigEncap

CONSTANTS fr, fw, ch, e1, e2
=============================================================================
