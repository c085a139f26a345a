-------------------------------- MODULE Gossip --------------------------------
(***************************************************************************)
(* src/discovery_relay.py, with a thread per request, and the clients that *)
(* post to it and read it: post_event and fetch_verified of src/node.py,   *)
(* client_view and rank_content of src/poc_discovery.py.                   *)
(*                                                                         *)
(* An event is named after its id, the hash of its payload: two likes by   *)
(* one signer at different times are two events.  The filter of            *)
(* GET /events?type= is left out: a reader picks the types it wants later. *)
(***************************************************************************)
EXTENDS Integers, SequencesExt, FiniteSetsExt

CONSTANTS
  Relays, Lying,  \* relays, and those that return what they like
  Lies,       \* what they return: sequences of events, in which any may miss, recur or be forged
  Events, Genuine,  \* events, and those that are rightly signed
  Payload,    \* [Events -> [type, signer, target]], with no target (None) in an odd one
  Me,         \* the reader
  Begins,     \* [what a user may type -> the contents whose hash it begins]
  Posts,      \* POST requests
  EventOf, RelayOf,  \* [Posts -> Events], [Posts -> Relays]
  Order,      \* relay_urls of the reader
  MaxCrashes, \* bound on relay crashes
  None

ASSUME EventsAssumption == IsFiniteSet(Events) /\ Genuine \subseteq Events /\ DOMAIN Payload = Events
ASSUME PostsAssumption == EventOf \in [Posts -> Events] /\ RelayOf \in [Posts -> Relays]
ASSUME RelaysAssumption == Lying \subseteq Relays /\ Lies \subseteq Seq(Events)
                             /\ Order \in Seq(Relays) /\ MaxCrashes \in Nat

VARIABLES
  post,     \* where each request's handler thread is
  events,   \* _events of each relay
  up,       \* relays that run
  crashes,  \* crashes so far
  toAsk,    \* relays the reader has yet to hear from
  conn,     \* its connection to the first of them
  seen,     \* seen: how often each event is in what the reader has merged
  failed,   \* the reader's last round ended in an exception
  owed      \* events the reader is bound to see (for the properties)

relays == <<post, events, up, crashes>>
reader == <<toAsk, conn, seen, failed, owed>>
vars == <<relays, reader>>

PostStates == {"new", "scan", "append", "reply", "ok", "rejected", "unreachable", "cut", "gone"}

TypeOK ==
  /\ post \in [Posts -> PostStates]
  /\ events \in [Relays -> Seq(Events)]
  /\ up \in SUBSET Relays
  /\ crashes \in 0..MaxCrashes
  /\ toAsk \in Seq(Relays)
  /\ conn \in {"no", "open", "cut"} /\ (toAsk = <<>> => conn = "no")
  /\ seen \in [Events -> Nat]
  /\ failed \in BOOLEAN
  /\ owed \in SUBSET Events

Nothing == [e \in Events |-> 0]
InView(view) == {e \in Events : view[e] > 0}

Init ==
  /\ post = [p \in Posts |-> "new"]
  /\ events = [r \in Relays |-> <<>>]
  /\ up = Relays
  /\ crashes = 0
  /\ toAsk = <<>> /\ conn = "no" /\ seen = Nothing /\ failed = FALSE
  /\ owed = {}

\* Events that relay r has answered ok for and is there to keep.
Accepted(r) == {EventOf[p] : p \in {q \in Posts : post[q] = "ok" /\ RelayOf[q] = r}}
Keeps(r) == IF r \in up \ Lying THEN Accepted(r) ELSE {}

Step(p, from, to) == post[p] = from /\ post' = [post EXCEPT ![p] = to]

(***************************************************************************)
(* do_POST, from verify_attestation to the answer.                         *)
(***************************************************************************)
Receive(p) ==
  /\ RelayOf[p] \in up
  /\ Step(p, "new", IF EventOf[p] \in Genuine THEN "scan" ELSE "rejected")
  /\ UNCHANGED <<events, up, crashes, reader>>

Scan(p) ==
  /\ Step(p, "scan", IF Contains(events[RelayOf[p]], EventOf[p]) THEN "reply" ELSE "append")
  /\ UNCHANGED <<events, up, crashes, reader>>

\* Mutant of Stored: a relay that keeps the newest event only.
Newest(r, e) == <<e>>
Stored(r, e) == Append(events[r], e)

\* Another request of the same event may have come in between: the event is
\* then there twice.
Store(p) ==
  /\ Step(p, "append", "reply")
  /\ events' = [events EXCEPT ![RelayOf[p]] = Stored(RelayOf[p], EventOf[p])]
  /\ UNCHANGED <<up, crashes, reader>>

Reply(p) ==
  /\ Step(p, "reply", "ok")
  /\ UNCHANGED <<events, up, crashes, reader>>

\* post_event reports that the relay does not answer, and the caller goes on.
PostUnreachable(p) ==
  /\ RelayOf[p] \notin up
  /\ Step(p, "new", "unreachable")
  /\ UNCHANGED <<events, up, crashes, reader>>

\* Events live in memory and requests on the way are cut: urlopen raises
\* RemoteDisconnected, which is no URLError.  The reader is still bound to
\* see what it has, and what the relays it has yet to hear from keep.
Crash(r) ==
  /\ r \in up /\ crashes < MaxCrashes
  /\ up' = up \ {r}
  /\ crashes' = crashes + 1
  /\ events' = [events EXCEPT ![r] = <<>>]
  /\ post' = [p \in Posts |->
       IF RelayOf[p] # r THEN post[p]
       ELSE IF post[p] = "ok" THEN "gone"
       ELSE IF post[p] \in {"scan", "append", "reply"} THEN "cut" ELSE post[p]]
  /\ conn' = IF conn = "open" /\ Head(toAsk) = r THEN "cut" ELSE conn
  /\ owed' = {e \in owed : e \in InView(seen) \/ \E q \in Range(toAsk) \ {r} : e \in Keeps(q)}
  /\ UNCHANGED <<toAsk, seen, failed>>

Restart(r) ==
  /\ r \notin up
  /\ up' = up \cup {r}
  /\ UNCHANGED <<post, events, crashes, reader>>

(***************************************************************************)
(* The reader: fetch_verified, one relay after the other, merged by id.    *)
(***************************************************************************)
Start ==
  /\ toAsk = <<>>
  /\ toAsk' = Order /\ seen' = Nothing /\ failed' = FALSE
  /\ owed' = UNION {Keeps(r) : r \in Range(Order)}
  /\ UNCHANGED <<conn, relays>>

Connect ==
  /\ toAsk # <<>> /\ conn = "no" /\ Head(toAsk) \in up
  /\ conn' = "open"
  /\ UNCHANGED <<toAsk, seen, failed, owed, relays>>

\* Mutant of Skip: a relay that is down ends the round.
GiveUp == <<>>
Skip == Tail(toAsk)

\* fetch_events returns None, and the relay is skipped.
Unreachable ==
  /\ toAsk # <<>> /\ conn = "no" /\ Head(toAsk) \notin up
  /\ toAsk' = Skip
  /\ UNCHANGED <<conn, seen, failed, owed, relays>>

\* What GET /events may return; a lying relay leaves out, repeats, invents.
Answers(r) ==
  IF r \in Lying THEN Lies ELSE {events[r]}

\* Mutant of Merge: events are collected, not merged by id.
MergeAll(answer) ==
  [e \in Events |-> IF e \in Genuine
                    THEN seen[e] + Cardinality({i \in DOMAIN answer : answer[i] = e}) ELSE seen[e]]
\* verify_attestation, then seen[id] = event.
Merge(answer) ==
  [e \in Events |-> IF e \in Genuine /\ Contains(answer, e) THEN 1 ELSE seen[e]]

Answer ==
  /\ conn = "open" /\ conn' = "no"
  /\ \E answer \in Answers(Head(toAsk)) : seen' = Merge(answer)
  /\ toAsk' = Tail(toAsk)
  /\ UNCHANGED <<failed, owed, relays>>

\* An exception leaves the loop over the relays and ends the round:
RoundEnds ==
  /\ conn' = "no" /\ toAsk' = <<>> /\ failed' = TRUE /\ owed' = {}
  /\ UNCHANGED <<seen, relays>>
\* RemoteDisconnected out of fetch_events,
Cut == conn = "cut" /\ RoundEnds
\* or what a lying relay answers is no JSON, or an event in it has no payload.
Unreadable == conn = "open" /\ Head(toAsk) \in Lying /\ RoundEnds

Next ==
  \/ \E p \in Posts : Receive(p) \/ Scan(p) \/ Store(p) \/ Reply(p) \/ PostUnreachable(p)
  \/ \E r \in Relays : Crash(r) \/ Restart(r)
  \/ Start \/ Connect \/ Unreachable \/ Answer \/ Cut \/ Unreadable
Spec == Init /\ [][Next]_vars

(***************************************************************************)
(* What a reader makes of a view.                                          *)
(***************************************************************************)
\* A view is a set of events; a rank also depends on how often each is there.
Of(type, e) == Payload[e].type = type

\* A relay checks the signature only: an event may lack the content hash that
\* readers take from it, and KeyError then ends what they do with the view.
Readable(view, types) == \A e \in view : Payload[e].type \in types => Payload[e].target # None
Publications == {"publish"}
Ranked       == {"publish", "like"}

\* trust_graph_from_subscribes: 1.0 for whom the reader subscribes to.
Trusted(view) ==
  {Payload[e].target : e \in {f \in view : Of("subscribe", f) /\ Payload[f].signer = Me}}

\* rank_content: the trust-weighted sum of the likes of a content, if any.
Liking(view, content) ==
  LET trusted == Trusted(view)
  IN  {e \in view : /\ Of("like", e) /\ Payload[e].target = content
                    /\ Payload[e].signer \in trusted}
Likes(counts, content) ==
  LET view == InView(counts) IN
  UNION {{e} \X (1..counts[e]) : e \in {f \in Liking(view, content) : Readable(view, Ranked)}}
Rank(counts, content) == Cardinality(Likes(counts, content))

\* discover_hosts_for: announcements of any content the prefix begins, or
\* none at all.
HostsFor(view, prefix) ==
  {e \in view : /\ Of("publish", e) /\ Payload[e].target \in Begins[prefix]
                /\ Readable(view, Publications)}

(***************************************************************************)
(* Properties.                                                             *)
(***************************************************************************)

\* do_POST: a relay that has answered ok for an event has it until it
\* crashes, however many requests come in at once.
AcceptedIsKept == \A r \in up : Accepted(r) \subseteq Range(events[r])

\* fetch_verified: a round that ends without an exception has every event
\* that an honest relay kept from its start to its answer, or a second one
\* when the first crashed: lying and dead relays cannot hide what another has.
OwedIsSeen == owed \subseteq InView(seen) \cup UNION {Keeps(r) : r \in Range(toAsk)}

\* rank_content, discover_hosts_for: after a round without an exception, lies
\* and repetitions of relays neither hide a host nor raise a rank.  Between
\* what the reader is bound to see and what was rightly signed by anyone,
\* each like by someone the reader subscribes to counts once, strangers'
\* likes count nothing, and a prefix finds the hosts of all its contents,
\* unless an event without a content hash is in the view.
ViewIsBounded ==
  LET view == InView(seen) IN
  toAsk = <<>> /\ ~failed =>
    /\ \A c \in UNION Range(Begins) :
         /\ Readable(view, Ranked) => Cardinality(Liking(owed, c)) <= Rank(seen, c)
         /\ Rank(seen, c) <= Cardinality(Liking(Genuine, c))
    /\ \A x \in DOMAIN Begins :
         /\ Readable(view, Publications) => HostsFor(owed, x) \subseteq HostsFor(view, x)
         /\ HostsFor(view, x) \subseteq Genuine

(***************************************************************************)
(* The strengthening that the proofs use.                                  *)
(***************************************************************************)

\* A request gets past verification with a rightly signed event and runs on a
\* relay that is up; from its append on the relay has the event.
PostInv ==
  \A p \in Posts :
    /\ post[p] \in {"scan", "append", "reply", "ok"} => EventOf[p] \in Genuine /\ RelayOf[p] \in up
    /\ post[p] \in {"reply", "ok"} => Contains(events[RelayOf[p]], EventOf[p])

\* The reader's connection is to a relay that is up, and what it has merged is
\* rightly signed and there once.
ReaderInv ==
  /\ conn = "open" => Head(toAsk) \in up
  /\ \A e \in Events : seen[e] \in {0, 1} /\ (seen[e] = 1 => e \in Genuine)
  /\ OwedIsSeen

GossipInv == TypeOK /\ PostInv /\ ReaderInv

(***************************************************************************)
(* What a comment says and the code does not do.                           *)
(***************************************************************************)

\* fetch_events: "relay unreachable -- a real client just skips it, doesn't
\* fail".
DeadRelayIsSkipped == ~failed
=============================================================================
