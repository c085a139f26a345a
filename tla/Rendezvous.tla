------------------------------ MODULE Rendezvous ------------------------------
(***************************************************************************)
(* What the tunnel relay promises, without threads, sockets or queues: a   *)
(* downloader is put through, at most once, to one host that joined under  *)
(* the token it asked for, and from then on that host alone answers its    *)
(* commands, one reply per command and in order (the module docstring of   *)
(* src/tunnel_relay.py; HostConnection of src/node.py).                    *)
(***************************************************************************)
EXTENDS Integers

CONSTANTS Hosts, Downloads, Tokens, HostToken, WantedToken, MaxRequests, None

VARIABLES
  line,    \* the downloader's end of its stream
  peer,    \* the host it has been put through to, or None
  joined,  \* hosts that ever registered
  asked,   \* commands the downloader sent
  got      \* replies it received

vars == <<line, peer, joined, asked, got>>

Init ==
  /\ line = [d \in Downloads |-> "none"]
  /\ peer = [d \in Downloads |-> None]
  /\ joined = {}
  /\ asked = [d \in Downloads |-> 0]
  /\ got = [d \in Downloads |-> 0]

Join(h) ==
  /\ h \notin joined
  /\ joined' = joined \cup {h}
  /\ UNCHANGED <<line, peer, asked, got>>

Call(d) ==
  /\ line[d] = "none"
  /\ line' = [line EXCEPT ![d] = "open"]
  /\ UNCHANGED <<peer, joined, asked, got>>

\* The downloader may already have left: the relay cannot know.
PutThrough(d, h) ==
  /\ line[d] # "none"
  /\ peer[d] = None
  /\ h \in joined
  /\ HostToken[h] = WantedToken[d]
  /\ peer' = [peer EXCEPT ![d] = h]
  /\ UNCHANGED <<line, joined, asked, got>>

Ask(d) ==
  /\ line[d] = "open"
  /\ asked[d] = got[d]
  /\ asked[d] < MaxRequests
  /\ asked' = [asked EXCEPT ![d] = @ + 1]
  /\ UNCHANGED <<line, peer, joined, got>>

Answer(d) ==
  /\ line[d] = "open"
  /\ peer[d] # None
  /\ got[d] < asked[d]
  /\ got' = [got EXCEPT ![d] = @ + 1]
  /\ UNCHANGED <<line, peer, joined, asked>>

HangUp(d) ==
  /\ line[d] = "open"
  /\ line' = [line EXCEPT ![d] = "closed"]
  /\ UNCHANGED <<peer, joined, asked, got>>

Next ==
  \/ \E h \in Hosts : Join(h)
  \/ \E d \in Downloads :
       Call(d) \/ Ask(d) \/ Answer(d) \/ HangUp(d) \/ (\E h \in Hosts : PutThrough(d, h))

Spec == Init /\ [][Next]_vars
=============================================================================
