----------------------------- MODULE MCDownload -----------------------------
(***************************************************************************)
(* Instances of Download for TLC: two contents of two and one chunks, an   *)
(* honest host of both, an honest host of one whose connections break, and *)
(* a host that lies.                                                       *)
(***************************************************************************)
EXTENDS Download

CONSTANTS j1, j2, j3, both, single, liar, big, small

MCArchive == (both :> {big, small}) @@ (single :> {big}) @@ (liar :> {})
MCNChunks == (big :> 2) @@ (small :> 1)

\* One job per kind of source, each with a path of its own.
OfJob(x1, x2, x3) == [j \in Jobs |-> IF j = j1 THEN x1 ELSE IF j = j2 THEN x2 ELSE x3]
EachTarget == OfJob(both, liar, single)
EachWanted == OfJob(small, big, big)
EachPath   == OfJob(1, 2, 3)
=============================================================================
