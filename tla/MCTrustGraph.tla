---------------------------- MODULE MCTrustGraph ----------------------------
(***************************************************************************)
(* All subscribe graphs of at most MaxEdges events among Keys.             *)
(***************************************************************************)
EXTENDS TrustGraph, FiniteSetsExt

CONSTANTS MaxEdges, k0, k1, k2, k3

MCGraphs == UNION {kSubset(n, Keys \X Keys) : n \in 0..MaxEdges}
=============================================================================
