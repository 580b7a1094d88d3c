---------------------------- MODULE MCReplicaIO ----------------------------
(***************************************************************************)
(* Model-checking instance of ReplicaIO: a sector of two units so that    *)
(* both fast paths occur, chunks of four units; the rest is in the cfg.   *)
(***************************************************************************)
EXTENDS ReplicaIO, TLC

CONSTANTS c1, c2

=============================================================================
