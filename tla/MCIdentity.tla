----------------------------- MODULE MCIdentity -----------------------------
(***************************************************************************)
(* Calls c1 to c4, which may be taken in any order.                        *)
(***************************************************************************)
EXTENDS Identity, TLC

CONSTANTS c1, c2, c3, c4

Symmetry == Permutations(Calls)
=============================================================================
