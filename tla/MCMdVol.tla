------------------------------- MODULE MCMdVol -------------------------------
(* Model-checking instance of MdVol: two metadata servers issuing calls for *)
(* one name, two storage hosts; the registry views, the placement sizes    *)
(* and the bounds are set here and in the cfgs.                            *)
EXTENDS MdVol, TLC

CONSTANTS p1, p2, h1, h2

\* no storage host registered
MCNone == [hosts |-> <<>>, online |-> (h1 :> {} @@ h2 :> {})]
\* both hosts up, each with one disk online
MCBoth == [hosts |-> <<h1, h2>>, online |-> (h1 :> {1} @@ h2 :> {1})]
\* h2 registered, but none of its disks passes the online check
MCHalf == [hosts |-> <<h1, h2>>, online |-> (h1 :> {1} @@ h2 :> {})]
\* the one registered host is down
MCDown == [hosts |-> <<h1>>, online |-> (h1 :> {} @@ h2 :> {})]

MCViews == {MCNone, MCBoth, MCHalf}
MCDownViews == {MCBoth, MCDown}
=============================================================================
