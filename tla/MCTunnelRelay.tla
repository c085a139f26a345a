---------------------------- MODULE MCTunnelRelay ----------------------------
(***************************************************************************)
(* Instances of TunnelRelay for TLC.                                       *)
(***************************************************************************)
EXTENDS TunnelRelay

CONSTANTS h1, h2, d1, d2, t1, t2

\* Two hosts of the same content (or one host restarted) and its downloads.
SameToken == [h \in Hosts |-> t1]
WantSame  == [d \in Downloads |-> t1]

\* The second download wants content that nobody hosts.
WantEach == [d \in Downloads |-> IF d = d1 THEN t1 ELSE t2]
=============================================================================
