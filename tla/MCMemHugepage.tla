---------------------------- MODULE MCMemHugepage ----------------------------
(* Model-checking instance of MemHugepage: the constants live in the cfgs. *)
EXTENDS MemHugepage, TLC

CONSTANTS t1, t2

MCThreads == {t1, t2}
=============================================================================
