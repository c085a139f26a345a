------------------------------ MODULE MCGossip ------------------------------
(***************************************************************************)
(* Two honest relays and a lying one.  dan's like is posted twice to the   *)
(* first, a subscription to dan and a publication to the second, and a     *)
(* forged like is rejected.  A later like of dan's, a                      *)
(* stranger's like and a publication of a content with the same prefix are *)
(* rightly signed, but only the liar has them; and so is a publication     *)
(* without a content hash.                                                 *)
(***************************************************************************)
EXTENDS Gossip

CONSTANTS p1, p2, p3, p4, p5, r1, r2, liar,
          like, again, stranger, sub, pub, alike, forged, bare, dan, eve, me, a, b

MCEventOf == p1 :> like @@ p2 :> like @@ p3 :> sub @@ p4 :> pub @@ p5 :> forged
MCRelayOf == p1 :> r1 @@ p2 :> r1 @@ p3 :> r2 @@ p4 :> r2 @@ p5 :> r1
What(type, signer, target) == [type |-> type, signer |-> signer, target |-> target]
MCPayload ==
  like :> What("like", dan, a) @@ again :> What("like", dan, a)
  @@ stranger :> What("like", eve, a) @@ forged :> What("like", dan, b)
  @@ sub :> What("subscribe", me, dan)
  @@ pub :> What("publish", dan, a) @@ alike :> What("publish", eve, b)
  @@ bare :> What("publish", eve, None)
MCBegins == 1 :> {a, b} @@ 2 :> {a}
MCLies == {<<>>, <<bare, like>>, <<again, forged, again, stranger, alike>>}
MCOrder == <<r1, liar, r2>>
=============================================================================
