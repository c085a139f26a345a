---------------------------- MODULE MCReputation ----------------------------
(***************************************************************************)
(* Instances of Reputation for TLC: two trusted signers and a stranger     *)
(* vouch for one peer, and two jobs.                                       *)
(***************************************************************************)
EXTENDS Reputation, TLC

CONSTANTS peer, alice, carol, mallory,
          good, stale, fake, forged

\* good: alice, dated a half-life ahead; stale: carol two half-lives ago, with a mixed record;
\* fake: of a signer nobody trusts; forged: tampered with.
MCSignerOf == (good :> alice) @@ (stale :> carol) @@ (fake :> mallory) @@ (forged :> alice)
MCPeerOf   == [v \in Vouches |-> peer]
MCPasses   == (good :> 8) @@ (stale :> 1) @@ (fake :> 8) @@ (forged :> 800)
MCFails    == (good :> 0) @@ (stale :> 1) @@ (fake :> 0) @@ (forged :> 0)
\* The first job's relays have everything, the second's nothing.
MCArrives  == [j \in Jobs |-> IF j = 1 THEN Vouches ELSE {}]
MCAge      == [v \in Vouches |-> IF v = stale THEN 2 ELSE IF v = good THEN -1 ELSE 0]
MCTrust    == (alice :> 2) @@ (carol :> 2) @@ (mallory :> 0)

\* Revocations by the signer and by a stranger.
MCRevocations == {[by |-> s, of |-> v] : s \in {alice, mallory}, v \in {good, stale}}
MCOutcomes    == {<<1, 0>>}
=============================================================================
