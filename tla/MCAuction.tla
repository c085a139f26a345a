------------------------------ MODULE MCAuction ------------------------------
(***************************************************************************)
(* Instances of Auction for TLC: a steady host of the whole content, one   *)
(* that may go away, and one that holds half of it, asks for nothing and   *)
(* may answer anything.                                                    *)
(***************************************************************************)
EXTENDS Auction, TLC

CONSTANTS steady, shaky, half

MCHolds == (steady :> {1, 2}) @@ (shaky :> {1, 2}) @@ (half :> {1})
MCOffers == {-1, 3}
MCPrice == (steady :> 2) @@ (shaky :> 1) @@ (half :> 0)
\* The two that hold everything are vouched for alike, or the costly one more.
MCVouch == (steady :> 1) @@ (shaky :> 1) @@ (half :> 0)
=============================================================================
