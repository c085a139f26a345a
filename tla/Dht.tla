-------------------------------- MODULE Dht --------------------------------
(***************************************************************************)
(* src/dht.py: DHTNode, whose loop runs in a thread of its own, and        *)
(* announcements of one content hash as coroutines on those loops.  The    *)
(* kademlia package is external: listen fails when its port is in use, get *)
(* returns the value stored under a key, set replaces it or, when no       *)
(* neighbour is known, does nothing, and each takes any time.  Who calls   *)
(* is Shell's subject.                                                     *)
(***************************************************************************)
EXTENDS Integers, SequencesExt, FiniteSets

CONSTANTS
  Nodes,      \* DHTNode objects, all for one port
  Announces,  \* calls of announce
  HostOf,     \* [Announces -> Hosts], host_addr
  Title,      \* [Announces -> Titles]
  Nobody

ASSUME NodesAssumption == Nobody \notin Nodes

Entries == [host : {HostOf[a] : a \in Announces}, title : {Title[a] : a \in Announces}]
\* How often each entry is in the list under the key, whose order is nobody's matter.
Lists   == [Entries -> Nat]

VARIABLES
  node,    \* where each node's thread is
  ready,   \* nodes whose _ready is set
  error,   \* nodes whose _error is set
  bound,   \* the node that holds the port, or Nobody
  stored,  \* the list stored under the key
  got,     \* what each announcement read
  co,      \* where each coroutine is
  asof,    \* announcements that had set when each one read (for the properties)
  sets     \* announcements in the order they set (for the properties)

threads == <<node, ready, error, bound>>
lists == <<stored, got, co, asof, sets>>
dht == <<threads, lists>>

DhtTypeOK ==
  /\ node \in [Nodes -> {"new", "listen", "bootstrap", "caught", "told", "ended", "ready", "running"}]
  /\ ready \in SUBSET Nodes /\ error \in SUBSET Nodes /\ bound \in Nodes \cup {Nobody}
  /\ stored \in Lists /\ got \in [Announces -> Lists]
  /\ co \in [Announces -> {"new", "get", "set", "end"}]
  /\ asof \in [Announces -> SUBSET Announces] /\ sets \in Seq(Announces)

DhtInit ==
  /\ node = [n \in Nodes |-> "new"] /\ ready = {} /\ error = {} /\ bound = Nobody
  /\ stored = [e \in Entries |-> 0] /\ got = [a \in Announces |-> stored]
  /\ co = [a \in Announces |-> "new"]
  /\ asof = [a \in Announces |-> {}] /\ sets = <<>>

Turns(n, from, to) == node[n] = from /\ node' = [node EXCEPT ![n] = to]

\* start's thread, up to listen.
StartThread(n) == Turns(n, "new", "listen") /\ UNCHANGED <<ready, error, bound, lists>>

\* listen, which raises when the port is in use, by another program or by a node
\* that nobody waits for any more.
Listen(n) ==
  /\ \/ bound = Nobody /\ Turns(n, "listen", "bootstrap") /\ bound' = n
     \/ Turns(n, "listen", "caught") /\ UNCHANGED bound
  /\ UNCHANGED <<ready, error, lists>>
\* bootstrap raises: the port stays bound, and nothing reads from it.
BootstrapRaises(n) == Turns(n, "bootstrap", "caught") /\ UNCHANGED <<ready, error, bound, lists>>
\* _setup has returned, and _ready is set.
Bootstrapped(n) ==
  /\ Turns(n, "bootstrap", "ready") /\ ready' = ready \cup {n}
  /\ UNCHANGED <<error, bound, lists>>
RunForever(n) == Turns(n, "ready", "running") /\ UNCHANGED <<ready, error, bound, lists>>

\* Mutant of Tells: the event is set before there is an error to find.
TellsEarly(n) ==
  \/ Turns(n, "caught", "told") /\ ready' = ready \cup {n} /\ UNCHANGED <<error, bound, lists>>
  \/ Turns(n, "told", "ended") /\ error' = error \cup {n} /\ UNCHANGED <<ready, bound, lists>>
\* _run's handler: first _error, then _ready.
Tells(n) ==
  \/ Turns(n, "caught", "told") /\ error' = error \cup {n} /\ UNCHANGED <<ready, bound, lists>>
  \/ Turns(n, "told", "ended") /\ ready' = ready \cup {n} /\ UNCHANGED <<error, bound, lists>>

Thread(n) == Listen(n) \/ BootstrapRaises(n) \/ Bootstrapped(n) \/ RunForever(n) \/ Tells(n)

\* run_coroutine_threadsafe.
Schedule(a) ==
  /\ co[a] = "new" /\ co' = [co EXCEPT ![a] = "get"]
  /\ UNCHANGED <<threads, stored, got, asof, sets>>

Get(a) ==
  /\ co[a] = "get" /\ co' = [co EXCEPT ![a] = "set"]
  /\ got' = [got EXCEPT ![a] = stored]
  /\ asof' = [asof EXCEPT ![a] = Range(sets)]
  /\ UNCHANGED <<threads, stored, sets>>

Entry(a) == [host |-> HostOf[a], title |-> Title[a]]
\* Mutant of Merged: a blind set.
Blind(a) == [e \in Entries |-> IF e = Entry(a) THEN 1 ELSE 0]
\* The announcer's entry takes the place of older ones of its own.
Merged(a) ==
  [e \in Entries |-> IF e.host # HostOf[a] THEN got[a][e] ELSE IF e = Entry(a) THEN 1 ELSE 0]

\* Whether set did anything is not looked at.
Set(a) ==
  /\ co[a] = "set" /\ co' = [co EXCEPT ![a] = "end"]
  /\ \/ stored' = Merged(a) /\ sets' = Append(sets, a)
     \/ UNCHANGED <<stored, sets>>
  /\ UNCHANGED <<threads, got, asof>>

-----------------------------------------------------------------------------
(* Properties *)

\* Of a's host, the list has a's entry, once, and no other.
ListsOnly(list, a) ==
  \A e \in Entries : e.host = HostOf[a] => list[e] = IF e = Entry(a) THEN 1 ELSE 0

\* The place of a in the order of the sets.
Place(a) == CHOOSE i \in 1..Len(sets) : sets[i] = a

\* An announcement b of another host overlaps a: it set later than a and had
\* read before a set.
Overtook(b, a) == Place(b) > Place(a) /\ a \notin asof[b]

\* Of the announcements in done, a is the last of its host.
LatestOf(a, done) == \A b \in done : HostOf[b] = HostOf[a] => Place(b) <= Place(a)

\* The last of each host in done is listed, unless it was overtaken in done.
OnlyRacesDropFrom(done, list) ==
  \A a \in done :
    LatestOf(a, done) => \/ ListsOnly(list, a)
                        \/ \E b \in done : HostOf[b] # HostOf[a] /\ Overtook(b, a)

\* _announce: a host's last announcement that was stored is listed, once and
\* in place of its older ones, unless an announcement of another host read
\* before it set and set after it: nothing but such a race drops or revives a
\* listing, a call that timed out and goes on included.
OnlyRacesDrop == OnlyRacesDropFrom(Range(sets), stored)

\* What a node's two flags that start looks at say of the thread, and who holds the port.
ThreadInv ==
  \A n \in Nodes :
    /\ n \in error <=> node[n] \in {"told", "ended"}
    /\ n \in ready <=> node[n] \in {"ended", "ready", "running"}
    /\ node[n] \in {"bootstrap", "ready", "running"} => bound = n

\* The strengthening that the proof uses: what an announcement has read, and
\* is going to set again, was as good as what is stored, and each sets once.
DhtInv ==
  /\ OnlyRacesDrop
  /\ \A a \in Announces :
       co[a] = "set" => asof[a] \subseteq Range(sets) /\ OnlyRacesDropFrom(asof[a], got[a])
  /\ \A a \in Range(sets) : co[a] = "end"
  /\ \A i, k \in DOMAIN sets : sets[i] = sets[k] => i = k
=============================================================================
