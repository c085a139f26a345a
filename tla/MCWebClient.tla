---------------------------- MODULE MCWebClient ----------------------------
(* A job, its player and a host of one page, two requests of a kind under  *)
(* way; the player asks for all, for a part, past the end, or for the end. *)
EXTENDS WebClient
CONSTANTS j1, h1, s1

MCJobs == {j1}
MCHosts == {h1}
MCStreams == {s1}
MCJobOf == [s \in Streams |-> j1]
MCAsks ==
  {Whole, [from |-> 1, to |-> 1], [from |-> 2, to |-> 5], [from |-> Blank, to |-> 1]}
MCSlots == {1, 2}
=============================================================================
