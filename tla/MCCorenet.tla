------------------------------ MODULE MCCorenet ------------------------------
(* Model-checking instance of Corenet: the constants live in the cfgs. *)
EXTENDS Corenet, TLC

CONSTANTS pc1, pf

\* a connector of this cluster and a foreign peer, on worker hashes 1 and 2
MCUuid == (pc1 :> "cluster") @@ (pf :> "foreign")
MCHash == (pc1 :> 1) @@ (pf :> 2)
=============================================================================
