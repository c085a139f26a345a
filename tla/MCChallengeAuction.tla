------------------------- MODULE MCChallengeAuction -------------------------
(***************************************************************************)
(* The peers of main(): a full holder, a holder of some chunks, one that   *)
(* has all and cheats, and one that has nothing but can relay two of them. *)
(***************************************************************************)
EXTENDS ChallengeAuction, TLC

CONSTANTS alice, carol, mallory, reyna

MCOrder == <<alice, carol, mallory, reyna>>
MCHolds == alice :> {1, 2, 3} @@ carol :> {1, 3} @@ mallory :> {1, 2, 3} @@ reyna :> {}
MCSource == alice :> {} @@ carol :> {} @@ mallory :> {} @@ reyna :> {1, 2}
MCPriceRange == alice :> {2, 4} @@ carol :> {1, 2} @@ mallory :> {1, 3} @@ reyna :> {0}
=============================================================================
