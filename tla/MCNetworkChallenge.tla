------------------------- MODULE MCNetworkChallenge -------------------------
(* Two verifiers, a relay, its holder and a baseline holder.  All runs end, *)
(* so the end of a run is a deadlock to TLC and is not checked.             *)
EXTENDS NetworkChallenge
CONSTANTS v1, v2, h1, h2, r

Two == {v1, v2}
TwoHolders == {h1, h2}
=============================================================================
