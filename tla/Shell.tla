-------------------------------- MODULE Shell --------------------------------
(***************************************************************************)
(* A session of src/shell.py over the parts it drives: one command at a    *)
(* time in the foreground, which onecmd outlives whatever it raises, and   *)
(* background threads for what a command leaves running: a host's server   *)
(* (Hosting), a DHT node and the coroutines on its loop (Dht).  Other      *)
(* processes go on beside it: the hosts of the command line and of the web *)
(* UI, and peers that announce.  Commands that only call into a relay or   *)
(* hand their work to a thread are one command here, "call".               *)
(***************************************************************************)
EXTENDS Hosting, Dht

CONSTANTS
  Hosted,  \* the hosts of Jobs that this session starts
  Mine,    \* the announcements it makes
  Scripts  \* what may be asked for in one behaviour: hosts, nodes, announcements,
           \* and "ott" for additions to the archive

ASSUME SessionAssumption ==
  /\ Hosted \subseteq Jobs \ Web /\ Mine \subseteq Announces
  /\ None \notin Nodes
  /\ Scripts \subseteq SUBSET (Jobs \cup Nodes \cup Announces \cup {"ott"})

VARIABLES
  fg,      \* the command in the foreground, "prompt", or "over"
  active,  \* self.dht_node, or None
  script   \* what the user of this session and the others are going to ask for

vars == <<hosting, dht, fg, active, script>>

TypeOK ==
  /\ HostingTypeOK /\ DhtTypeOK
  /\ fg \in {"prompt", "call", "lookup", "over"} \cup Hosted \cup Nodes \cup Mine
  /\ active \in Nodes \cup {None} /\ script \in Scripts

Init == HostingInit /\ DhtInit /\ fg = "prompt" /\ active = None /\ script \in Scripts

Alive == fg # "over"
Begins(command) == fg = "prompt" /\ fg' = command
\* onecmd: the command returned, or what it raised was caught and printed.
Returns == fg' = "prompt"

-----------------------------------------------------------------------------
(* host *)

DoHost(j) == j \in script /\ pc[j] = "new" /\ Begins(j) /\ UNCHANGED <<hosting, dht, active, script>>

\* Up to the thread of the server; sys.exit and exceptions come to onecmd.
HostForeground(j) ==
  /\ fg = j /\ (Prepare(j) \/ Publish(j) \/ PublishRaises(j) \/ Published(j))
  /\ IF pc'[j] \in {"load", "failed"} THEN Returns ELSE UNCHANGED fg
  /\ UNCHANGED <<dht, active, script>>

\* _bg catches what run_host_server raises.
HostThread(j) == Alive /\ (Load(j) \/ Bind(j)) /\ UNCHANGED <<dht, fg, active, script>>

-----------------------------------------------------------------------------
(* dht *)

DoDhtStart(n) == n \in script /\ StartThread(n) /\ Begins(n) /\ UNCHANGED <<hosting, active, script>>
DhtThread(n) == Alive /\ Thread(n) /\ UNCHANGED <<hosting, fg, active, script>>

\* _ready.wait and the look at _error, which nobody sets once _ready is set.
\* 15 s may be over without either, but the node's thread goes on.
DhtStarted(n) ==
  /\ fg = n /\ Returns
  /\ active' = IF n \in ready \ error THEN n ELSE active
  /\ UNCHANGED <<hosting, dht, script>>

DoDhtAnnounce(a) ==
  /\ a \in script /\ active # None /\ Schedule(a) /\ Begins(a) /\ UNCHANGED <<hosting, active, script>>

\* result(timeout=15) comes back, with the coroutine or by raising.
DhtAnnounced(a) == fg = a /\ Returns /\ UNCHANGED <<hosting, dht, active, script>>

\* The loop of the active node runs the coroutine, also when nobody waits for
\* it any more; a peer's process has its own.
Coroutine(a) ==
  /\ a \in Mine => Alive /\ active # None /\ node[active] = "running"
  /\ Get(a) \/ Set(a)
  /\ UNCHANGED <<hosting, fg, active, script>>

DoDhtLookup == active # None /\ Begins("lookup") /\ UNCHANGED <<hosting, dht, active, script>>

-----------------------------------------------------------------------------
(* The other commands, and the other processes *)

DoCall == Begins("call") /\ UNCHANGED <<hosting, dht, active, script>>
Called == fg \in {"call", "lookup"} /\ Returns /\ UNCHANGED <<hosting, dht, active, script>>

DoQuit == Begins("over") /\ UNCHANGED <<hosting, dht, active, script>>
\* Ctrl-C: nothing below main catches it, and the session ends.
Interrupt == Alive /\ fg' = "over" /\ UNCHANGED <<hosting, dht, active, script>>

OtherHost(j) ==
  /\ j \in script \ Hosted
  /\ Prepare(j) \/ Publish(j) \/ PublishRaises(j) \/ Published(j) \/ Load(j) \/ Bind(j)
  /\ UNCHANGED <<dht, fg, active, script>>
Archive == "ott" \in script /\ Add /\ UNCHANGED <<dht, fg, active, script>>
PeerAnnounces(a) == a \in script \ Mine /\ Schedule(a) /\ UNCHANGED <<hosting, fg, active, script>>

Next ==
  \/ \E j \in Hosted : DoHost(j) \/ HostForeground(j) \/ HostThread(j)
  \/ \E n \in Nodes : DoDhtStart(n) \/ DhtThread(n) \/ DhtStarted(n)
  \/ \E a \in Mine : DoDhtAnnounce(a) \/ DhtAnnounced(a)
  \/ DoDhtLookup \/ DoCall \/ Called \/ DoQuit \/ Interrupt
  \/ \E j \in Jobs : OtherHost(j)
  \/ Archive
  \/ \E a \in Announces : Coroutine(a) \/ PeerAnnounces(a)

Spec == Init /\ [][Next]_vars

-----------------------------------------------------------------------------
(* Properties *)

\* do_dht and DHTNode.start, which see of the node's thread only its two flags:
\* the node that announcements and lookups go to holds the port, and its loop
\* runs or is about to, whatever starts timed out, failed to listen or to
\* bootstrap before or after, and however late a node that timed out comes up.
ActiveIsReady == active # None => bound = active /\ node[active] \in {"ready", "running"}

\* The strengthening that the proofs use.
ShellInv == TypeOK /\ HostingInv /\ DhtInv /\ ThreadInv /\ ActiveIsReady
=============================================================================
