# Verification of dura

TLA+ modules that model dura's program logic, TLC runs that check them, and
TLAPS proofs of their safety properties. All paths are relative to the repository
(`src/` is its root); line numbers are of the commit that is modelled.

    tlc -config MCGossip_readers.cfg MCGossip     # one run
    tlapm TunnelRelayProofs.tla                   # one proof module

`PROJECT.json` lists the components, every run with its properties, the source
lines each definition stands for (`map`), the hazards of the code, the
theorems, and for every property a mutant: a plausible bug written as an
alternative of one definition that makes the property fail.

## 1. The system

dura is a censorship-resistant video node. An archive (made by the external
tool `ott`) holds videos as lists of chunks; a content's hash is the Merkle
root of its chunk hashes. Hosts serve chunks over a line protocol, publish
signed events about what they host, and downloaders find them, challenge them,
choose by reputation and price, optionally pay over Lightning, download with
verification and record the outcome.

| Component | State | Operations | Talks to |
|---|---|---|---|
| Tunnel relay, `tunnel_relay.py` | `_registrations`, `_pending_streams`, a thread per socket | REGISTER, CONNECT, DATA, `pipe` | hosts behind NAT (control loop, dial-back), downloaders |
| Host session, `node.py` `serve_session`, `run_host_server`, `run_host_tunnel` | the selected file of a session | SELECT, LEAVES, INFO, PRICE, CHALLENGE, FETCH | one downloader per connection |
| Download, `node.py` `download` | socket, output file | SELECT, INFO, LEAVES, n x FETCH, size check | host session, directly or through the relay |
| Auction of a download, `node.py` `download_with_auction`, `select_host`, `lightning_settle.py` | candidates, quotes, payment, store | discover, audition, choose, pay, download, record, publish | all of the above, gossip, store, LND containers |
| Trust graph, `node.py` `build_trust_graph` | frontier, seen, trust | one breadth-first search | subscribe events from gossip |
| Reputation store, `poc_reputation.py` | one JSON file, loaded whole into each store | `record_direct`, `add_attestation`, `add_revocation`, `trust_score`, `save` | every download job of the user |
| Identity, `node.py` `load_or_create_identity` | `~/.dura_identity.key` | read, create, add armor | every command |
| Discovery relays, `discovery_relay.py` | `_events`, a thread per request | POST /event, GET /events | publishers, readers (`fetch_verified`, `client_view`) |
| DHT, `dht.py` | a list of hosts per content in the swarm | announce (get, merge, set), lookup | the kademlia package (external) |
| Shell, `shell.py` | the foreground command, the active DHT node, background threads | one method per command, `onecmd` around them | everything below it |
| Hosting commands, `dura.py`, `shell.py`, `web_ui.py` | threads | read manifest and leaves, announce, serve | archive, relays, host session |
| Web UI, `web_ui.py` | `_jobs`, `_hosts`, in memory | start a download or host, report, stream a file | the page, everything above |
| Web page, `web/app.js` | rows, timers, tables | submit, poll, refresh | the web UI |
| Challenge demo, `poc_challenge_auction.py` | peers, strikes | challenge round, nonce round | lightning_settle |
| Network challenge demo, `poc_network_challenge.py` | processes, sockets | holder, relay, verifier | each other |

What makes it hard: a thread per connection in the relay, discovery relay and
web UI; connections that break at any moment; handlers whose return closes a
socket under another thread; files rewritten in place by several processes;
read-modify-write over a network without a lock; candidates that lie, go away
or answer garbage in the middle of a protocol; payments whose outcome a timeout
hides; answers that arrive out of order. The `hazards` of `PROJECT.json` list
these at their lines.

What makes each component correct:

* *Tunnel*: a downloader is only put through to a live host of the content it
  asked for; no stream is closed while bytes are under way, no registration and
  no pairing outlives its owner, every handler returns.
* *Download*: what is on disk is at any time a verified beginning of one
  content, complete when `download` returns, and of the content asked for.
* *Auction*: only a host that passed is chosen, the best of them; payment,
  download, record and attestation happen in that order and never one without
  the earlier; a good candidate that was asked is never passed over.
* *Trust*: weight is decay to the shortest distance from one's own subscribes;
  identities nobody trusted vouches for weigh nothing.
* *Reputation*: saved outcomes stay, scores are means and move for a reason.
* *Identity*: calls that neither overlap nor are killed agree on one key, and
  nothing changes a good key file.
* *Gossip*: an accepted event is kept and seen by every reader whom an honest
  relay holding it answers; ranks and hosts rest on what was rightly signed.
* *DHT*: a host is listed once, and only overlapping announces drop each other.
* *Hosting*: what is announced is served.
* *Shell*: one command at a time, and a DHT node is taken for running only if
  it is.
* *Web UI and page*: jobs end, streams send what they promised, the page comes
  to show how things are.
* *Demos*: who passes holds the chunk; servers without timeouts still serve
  everybody.

## 2. Modules

`X.tla` is the specification, `MCX.tla` gives TLC its instance, `MCX_run.cfg`
its constants and properties. Theorems are in `XProofs.tla`, those about the
client's own data (TrustGraph, Identity, Reputation) in `TrustProofs.tla` and
those about the two demos in `DemoProofs.tla`.

**TunnelRelay** (`tunnel_relay.py`, with `run_host_tunnel`, `serve_session` and
the tunneled `HostConnection` of `node.py`). One program counter per relay
handler (`regPc`, `conPc`, `datPc`, `pipeUp`, `pipeDown`), per host loop, per
session and per client; a step is what a thread does between two points where
another can be seen: a `with _lock` block, a blocking `recv` or `wait`, a
`sendall`. "Handler returned" and "socketserver closed its socket" are one
fact. Bytes in flight are four queues per stream. A session may end by an exception
of its own (`SessionEnds`), with what it has sent arriving or, by a reset,
lost. `Rendezvous` is what the
relay promises: a host joins, a call is put through to a host of its content,
and then they talk until somebody hangs up. TunnelRelay implements it under a
refinement mapping (`ImplementsRendezvous`).

**Download** (`download`, `serve_session`). Jobs write into one file system:
`dir` maps a path to a file and `data` a file to blocks, so that two jobs with
one path meet as they do on disk. One exchange is one step of the job, since
the protocol is request and response and nobody else touches the connection.
An honest host answers as `serve_session` does, any other what it likes. The
disk may refuse to open or write a path of `Troubled`.

**Auction** (`download_with_auction`, `select_host`, `settle`). One client,
several runs, program counter by stage; candidates are auditioned in order;
`inflight` holds payments whose `lncli` call timed out and which may `Land`
later. A run may be killed at every step, end `misled` by a relay's answer that
cannot be read, or `aborted` by an exception. A liar names any price of
`Offers`, negative ones included, and may complete a download of a content that
it made up, which nothing compares with the one asked for.

**TrustGraph** (`build_trust_graph`). A search step per key, in any order
within a hop, over any graph of subscribes.

**Reputation** (`ReputationStore`). `file` is the JSON file, `store[j]` the
copy a job has in memory, `saving` the time between truncation and the end of
the write. Scores are fractions. Ages are in half-lives, up to `Oldest` of them,
or up to `Ahead` below zero for a timestamp that is in the future, so that a
weight, `0.5 ** age` in the code, is a power of two in units of the oldest one's
weight (`Doubled`). `Sums` is `trust_score`'s loop, one value of its
`num` and `den` per iteration: a recursive function over the sequence of
attestations, in the order and with the repetitions in which they are stored.

**Identity** (`load_or_create_identity`). Calls with steps read, open (which
empties), write, read back; the file's text as absent, empty, raw, armored or
mixed (a shorter armor written over a longer one).

**Gossip** (`discovery_relay.py`, `post_event`, `fetch_verified`,
`client_view`, `rank_content`, `trust_graph_from_subscribes`,
`discover_hosts_for`). A thread per POST, whose scan and append are
two steps, as nothing locks `_events`; what the reader has
seen is how often it has merged each event, which is what ranks are made of; relays crash and
restart empty, one of them lies or answers what cannot be read, which ends a
round (`Unreadable`); a reader goes through its relays, and `Rank` and
`HostsFor` are what it makes of what it saw, if every event in it has the
content hash it looks for (`Readable`).

**Hosting** (`cmd_host`, `do_host`, `_run_host_job`, `run_host_server`). A job
prepares, publishes one by one, loads again and binds; `ott` may add an entry
in between.

**Dht** (`dht.py`). Nodes whose thread listens, bootstraps and sets `_ready`
and, in its handler, `_error` before it: `start` in Shell looks at these two
flags and at nothing else. A bootstrap that raises leaves the port `bound`.
Announcements
as coroutines of two steps, `Get` and `Set`, on the list under one key, kept as how often each entry is in
it (its order is never looked at). A node
and a coroutine go on when whoever waited for them has given up.

**Shell** (`shell.py`, `dura.py`'s `main`). Extends Hosting and Dht: `fg` is the
command in the foreground, which takes the steps of those modules, and threads
in the background take them as well. Other processes' hosts and announcements
run beside it. It is the module that the Hosting and Dht properties are checked
on.

**WebUi** (`_handle_download`, `_run_download_job`, `_handle_host`,
`_run_host_job`, `_handle_stream`). Jobs, hosts and streams, files as a number
of blocks, range arithmetic as in the code; a job may fail at any stage, also
while it records a download that is complete; a restart forgets jobs and hosts,
and another job of the same path empties the file.

**WebClient** (`web/app.js`). Extends WebUi, so that the page polls the jobs of
that module, plays their files and lists its hosts. Requests in slots: sent,
answered (with what the server said at that moment), handled; timers fire
regardless.

**ChallengeAuction** (`poc_challenge_auction.py`). Rounds over peers in list
order, one step per challenge; the chunk, a cheat's answer, bids and latencies
are choices from the sets the source draws them from. A settlement may raise
what nobody catches, which ends the demo (`SettleRaises`).

**NetworkChallenge** (`poc_network_challenge.py`). A backlog per server, one
connection served at a time, the relay's own call in the middle of serving;
processes end by being stopped or by an uncaught exception, and their callers
see the end of the stream or a reset.

Variables marked "for the properties" in a module record history and are never
read by a guard.

Composition: TunnelRelay contains relay, host and client sides of a stream;
WebClient contains WebUi; Shell contains Hosting and Dht. The others meet at
interfaces named in the module headers: Auction takes from Download only that it
may fail and from Reputation only a score, WebUi's jobs end as Download's do,
and Hosting's posts arrive or not, as in Gossip.

## 3. Runs

Every run is a `.cfg` of an MC module; `tlc -config X.cfg M` repeats it. States
are distinct states.

| Run | Instance | States | What it shows |
|---|---|---|---|
| `tunnel_relay` | two hosts of one content, a download of it with two commands, a download of content nobody hosts | 769,986 | No interleaving of handler threads, hosts and downloaders that come, go and break closes a socket under a pipe (`NoEarlyClose`), ends a direction nobody left (`StreamsEndAtTheirEnds`), swallows a command with a handshake line (`NothingSwallowed`), leaves a stream id or registration behind (`PendingOwned`, `RegistrationIsLive`), removes another host's entry (`OnlyOwnEntryRemoved`) or connects a downloader to the wrong host (`RightHost`). Every step is one of `Rendezvous` or a stutter (`ImplementsRendezvous`). |
| `tunnel_fair` | two hosts of one content, one download | 67,298 | With fair threads, CONNECT returns (`ConnectReturns`), DATA returns if CONNECT was still waiting (`MetDataReturns`), and a host that is gone is eventually never handed out again (`GoneHostForgotten`). |
| `download_sources` | three jobs: an honest host of two contents, a lying host, a tunneled host that breaks; a path the disk may refuse; contents of one and two chunks | 14,000 | What is on disk is a verified beginning of the committed content (`OnlyVerifiedBytes`), complete when `download` returns and, from an honest host, what was asked for (`DoneIsComplete`); an honest steady host suffices if the disk takes the file (`HonestCompletes`). |
| `trust_graph` | four keys, every graph of up to five subscribes, two hops, every order within a hop | 32,485 | Trust is that of the shortest chain within the limit; a ring nobody outside it subscribes to gets none. |
| `reputation_scores` | two jobs on one file; vouches of a trusted signer that is dated ahead, of one whose vouch is two half-lives old, of a stranger, and one tampered with, of which a store takes three, repeats included; revocations by the signer and by a stranger | 426,572 | Scores are means of what counts, however often it was pulled (`ScoreIsAMean`), and move only for a reason (`ScoreMovesForAReason`); outcomes are lost and the file is unreadable only where a save meets another job or a death (`OnlyRacesLoseHistory`). |
| `auction_runs` | three auctions; a steady, a fleeting and a half-empty host; one of two chunks sampled; a liar that names its price; payments that settle late | 253,493 | The best host that passed wins (`WinnerIsBest`), a steady honest one whose turn came is never passed over, nor is an auction refused when there is one (`GoodHostsAreHeard`); nobody is paid for an auction it did not win, nothing is attested that was not recorded nor recorded that was not downloaded (`AuctionInv`). |
| `gossip_readers` | five posts of four events, two honest relays, one that lies, with a publication that has no content hash, or cannot be read; one crash | 662,548 | A relay keeps what it said ok for (`AcceptedIsKept`); a reader whose round ends by itself sees all it could (`OwedIsSeen`), and its ranks and hosts lie between that and what was rightly signed (`ViewIsBounded`). |
| `identity_calls` | four calls, an old file or none, one kill, calls may overlap; symmetric | 6,835 | Calls without accidents agree on one key; once a good key is in the file and nobody is about to write, nothing changes it. |
| `challenge_rounds` | a full holder, a partial one, a cheat that holds all, a relaying peer that holds nothing; three chunks, three rounds of each kind; a settlement may end the demo | 1,367 | A winner holds the chunk and sent it right (`WinnerHolds`); no honest full holder ever has a strike, a peer without chunks has one per round and never wins (`GateIsFair`); in nonce rounds those that pass are those that hold the chunk (`PassersHold`). |
| `page_page` | one job of two chunks, its player asking for all, a part, past the end, or from an open start, one host, two requests of each kind under way, and a server restart or another job of the file | 569,009 | A row's final state is the job's and a done row's file is complete (`RowTellsTheTruth`); it sends all it promises, and what was asked for if the range has a start (`PlayedIsAsked`), each but for another job of the file; rows settle (`RowSettles`), the hosts table catches up whatever the order of the answers (`TableCatchesUp`). |
| `shell_session` | a session with one host, two DHT nodes on one port and two announcements; a web UI's host and one of a single file on one port; two announcing peers; `ott` adds two entries; in three scripts | 499,574 | A host that is up serves what it announced, and what was announced has its chunk data (`AnnouncedIsServed`); the active DHT node holds its port and its loop runs, whatever `start` timed out on before (`ActiveIsReady`); only an overlapping announcement drops or revives a listing (`OnlyRacesDrop`). |
| `network_verifiers` | two verifiers, the relay, its holder and a baseline, one sample, one server stopped | 73,116 | A verifier that waits is at exactly one place in the queue or hands of the server it called, and every verifier ends. |

Why these bounds are enough. The hazards of the relay are between one host's
and one download's threads, between two hosts of one token, and between a
pairing and a timeout: all of them are there with two hosts and one paired
download, and two commands are needed to tell a swallowed command from a
missing one. Two downloads in one host's control queue are left to the proofs,
which hold for any number of both. Two chunks tell the first from the last, a
sampled chunk from one that is not and a file's beginning from a file. Four
keys and two hops have a chain too long, two chains of different length, a
cycle and a ring of sybils. Two requests of a kind are what it takes to
answer out of order; one crash, one kill and one restart each separate what is
before from what is after. The shell's scripts split a session by what is
asked for: all hosts with `ott`, all DHT nodes and announcements, and one of
each together; hosts and announcements share no state but the prompt, so the
third has what the others leave out. Three rounds give a peer a strike before, at
and after a win. A restart and another job of the same file do not occur in one
behaviour of `page_page`: each is a cause of its own in the properties. Three auctions let a payment of the first settle in
the third. `CHECK_DEADLOCK FALSE` stands only where the system really may come
to rest: connections closed, jobs over, the search at its end.

Bounds that are constants: `MaxRequests` (commands per download),
`MaxEdges`, `MaxVouches` (attestations in a store), `Oldest` and
`Ahead` (half-lives), `Offers` (a liar's prices), `MaxRuns`, `MaxCrashes`,
`MaxKills`, `MaxRounds`, `MaxChunks` (of a content), `Scripts`, `CanFail` (one mishap of the web UI), `Slots`
(requests of a kind at once), `NSamples`.

`mutants` in `PROJECT.json`: each property fails when one definition is replaced
by the mutant that stands, with a comment, above it in its module. Every module
also has a type invariant, `TypeOK` where its name is not `SearchTypeOK`,
`KeyTypeOK` or `RoundsTypeOK`. It is proved for every component; the runs do
not list it.

## 4. Fairness

Only liveness uses it (`FairSpec`), and it is always weak.

* *TunnelRelay*: each handler thread, pipe, session and host loop, and
  `ClientLeave`. Threads are preemptively scheduled; a `wait(15)` ends by its
  timeout and a client's `request` by its ten seconds. Nothing makes a host
  start, leave or lose its connection.
* *Download*: each job's thread. `HonestCompletes` needs it of a job with an
  honest, steady host, which answers every line or hangs up. It is assumed of
  the others too, but nothing is claimed of them.
* *WebClient*: a job's steps end, timers fire, requests are answered and answers
  handled. Nobody has to submit, play or restart anything. The first is an
  assumption about the peers of a job: `recv_line`'s and `urlopen`'s timeouts
  hold for one `recv` each, so a host or relay that sends a byte now and then
  and never ends its line keeps a job, and its row, running. Peers that answer,
  hang up or fall silent do not.
* *Shell*: none. For the same reason nothing promises that a command returns.
* *NetworkChallenge*: the steps of servers, the relay and verifiers. Stopping a
  server is never owed.

## 5. What is proved

Proofs are for every value of the constants that satisfies the modules'
assumptions: functions have their domains, markers such as `None` are not
members of the sets they stand beside, and a content's chunks, the events and
the archive are finite. TLC evaluates them in the runs above. Every inductive
invariant named here was an invariant of the run's instance before it was
proved. Theorems speak of `Spec`, without fairness.

| Component | Properties proved for every instance | Left to TLC |
|---|---|---|
| TunnelRelay | all safety properties, and the refinement of Rendezvous | liveness |
| Download | `OnlyVerifiedBytes`, `DoneIsComplete` | `HonestCompletes` |
| Auction | all | |
| TrustGraph | all | |
| Reputation | all | |
| Identity | all | |
| Gossip | all | |
| Shell, Hosting, Dht | all | |
| WebClient, WebUi | `RowTellsTheTruth`, `PlayedIsAsked` | `RowSettles`, `TableCatchesUp` |
| ChallengeAuction | all | |
| NetworkChallenge | `WaitingIsQueued` | `EveryRunEnds` |

**TunnelRelayProofs.** `TypeCorrect` has one lemma per group of actions. The
safety properties are not inductive: that a pipe's sockets are open depends on
DATA having stored its socket before `ready`, on CONNECT setting `done` only
after both pipes ended, on a stream id being redeemed only once, and on a
NEWSTREAM line for it being in one control queue at most once. `RelayInv` says
this by the CONNECT handler's place (`ConnectInv`), the DATA handler's
(`DataInv`) and the queue (`QueueInv`), next to `RegistrationIsLive` and
`PendingOwned`. It is preserved one handler at a time (`RegisterInv`,
`ConnectHandlerInv`, `DataHandlerInv`, `PipeInv`, `HostInv`, `EndsInv`), and
from it follow `NothingLingers`, `NoLeakedStream`, `PipesOutliveNobody`,
`NoCrossedLines` and, as an action property, `RegistrationsKept`.

`StreamInv` is about the four queues of a stream. `PairInv` ties the two
handlers and the session to each other (a session and its DATA handler begin
together, both directions of a pipe start together, a redeemed stream id is
never dialled again); `StreamsEndAtTheirEnds` is a part of it; and `ReplyInv` says that
there is one place `at` of five where the outstanding command or its reply is,
and for each queue, from the places of the threads at its two ends alone,
exactly what it holds: the message if it is there, the end of the stream if its
writer is gone, nothing else (`UpFlows`, `DownFlows`). That exactness is
what makes it inductive: it excludes a second message, one behind the end of
the stream, and one in a queue nobody will read. There is a lemma for each
thing that moves a message (`AskReply`, `UpReply`, `ServeReply`, `DownReply`,
`ReadReply`) or ends a stream (`LeaveReply`, `EndReply`, `ExitReply`), and
frame lemmas for steps elsewhere. `EndsAreTheirs` and `CommandsArrive` follow.

`RelayImplementsRendezvous` maps registrations, calls and talks to those of
`Rendezvous`: `AbstractInit` and, for each of the relay's actions,
`AbstractStep` as the abstract step it is or a stutter. It rests on `RelayInv`,
since a call is put through only to a host that is still there.

**DownloadProofs.** `DownloadInv` is what a job knows at each stage whatever
other jobs do (`Progress`), that files lie where their creator put them
(`InPlace`), and that the file of a job nobody else's path equals holds the
blocks fetched so far (`Undisturbed`). `VerifiedBytesOnly` and
`CompleteWhenDone` have the hypothesis `OwnPaths`, that no two jobs write to one
path: with a shared path both fail, as the second `open(out_path, 'wb')`
(`node.py:470`) empties the first job's file; the run's instance has a path for
each.

**AuctionProofs.** `AuctionInv` adds to `PaidForWins` and `AttestedIsRecorded`
what the stage of a run owes: a run about to pay has a win nobody was paid for.
A payment whose call timed out moves from the run to `inflight`, and `Land`
moves it to `paid`, so the sum never passes the wins. `NoPaymentWithoutWin` and
`NoAttestationWithoutRecord` follow. `RankingInv` is for the choice: whoever
passed holds as many chunks as are sampled (a sample of all chunks leaves none
out, `SampleIsFull`), a steady honest host that was auditioned has passed
(`GoodHostsProve`), and the winner stays the best of those that passed until the
run is over, also when recording the outcome raises its own score
(`OtherRanking`). `BestHostWins` and
`NoGoodHostPassedOver` follow: whether an auction is won, refused or ends in the
middle, no steady honest host whose turn came is passed over.

**TrustProofs** is about what one client trusts and keeps. For the trust graph,
`SearchInv` relates what is seen, the frontier and the hop that reached a key:
what has been reached in an earlier hop has all its subscribes in a frontier or
beyond. `TrustHasWalk` gives a walk of exactly the hop's length to every trusted
key, `WalkIsFollowed` that no shorter walk was missed, and `LeastNatural` (from
the well-foundedness of the naturals) the shortest one: `TrustIsShortestPath`.
`NoSybilTrust` is by the first edge into the ring.

For the key file, `IdentityInv` is `KeyTypeOK`, `KeyInHand` (what a call has
read or made, by its stage) and `CalmFile` (what the file holds as long as calls
neither overlapped nor were killed). `KeyIsStable` follows, and `GoodFileStays`
for any number of calls with any accidents.

For the reputation file, `StoreInv` says that without a race there is one save
at a time, that while it lasts the file is empty and every other open copy is
out of date, and that the file and every copy that is not out of date hold all
that was ever saved: a copy that is out of date cannot be saved without a race,
so nothing is overwritten by less. `HistoryIsKept` follows.

For scores, `ScoresAreMeans` rests on an invariant of the loop: if every record
that counts is above some fraction, then after each iteration `num` is above
that fraction of `den` (`SumsAbove`, with `WeightedStep` as the arithmetic). A
score below all records would be below itself, and with both signs turned one
above all records too (`ScoreBetween`). `ScoresMoveForAReason` compares two runs of the loop: over
the same attestations with the same ones counting (`SameScore`), and over one
more that does not count (`SumsSkip`); hence whatever else `AddAttestation` and
`AddRevocation` do leaves the score alone. Both go along the iterations,
for a sequence of any length. Since no induction theorem can be instantiated,
a step by step argument is made first-order: `UpTo` takes the least natural
number that is not in a set which has 0 and with each number the next, and
`Iterated` obtains the recursive function of a loop from its equation, as the
function whose graph the approximations agree on.

**GossipProofs.** `PostInv` follows a POST: past verification its event is
rightly signed and its relay up, from the append on the relay has it, and a
crash takes the request with it. `ReaderInv` counts each event at most once and
only rightly signed ones, and keeps the reader's debt: what it is bound to see
is in its view or kept by a relay it has still to ask. `AcceptedStays`,
`NothingOwedIsLost`; `RanksAndHostsAreBounded` from those, since views only grow
(`ViewsGrow`) and a rank over a view without repetitions is the number of likes
in it (`RankCountsLikes`).

**ShellProofs.** `HostingInv`: what a host has found has its chunk data and a
line in the manifest, which only grows, and what it serves is that or what has
replaced it. `DhtInv`: what an announcement has read, and is about to write
back, is as good a list as the stored one was at that moment (`asof`), and each
announcement sets once. `ThreadInv`: what `_ready` and `_error` say of the
thread (an error is there before the event that lets `start` look for it, and
both stay), and that whoever is past `listen` holds the port. That is why
`start`, which returns without an exception only on `_ready` without `_error`,
leaves an active node whose loop runs. `ShellInv` puts these together with the
types. `AnnouncementsAreServed`, `RacesAloneDrop`, `ActiveNodeRuns`.

**WebClientProofs.** `ServerInv` says how far a job's thread can have got by its
status and that a job whose file was checked has it whole until another opens it;
`PageInv` that every answer under way that says how a job ended, however old,
and every row that does, agree with the job, since an ending is final.
`RowsAreTrue` follows. `RangeIsAsked` is the arithmetic of ranges: the first and
last block that `_handle_stream` computes bound exactly the blocks asked for,
and there is none when it refuses, for a range with a start or none at all.
With it each step of a stream keeps `PlayedIsAsked` (`PlaysWhatIsAsked`): unless
another job has opened the file, all blocks promised are sent, also of a range
without a start, of which nothing more is claimed.

**DemoProofs.** `RoundsInv` keeps a challenge round's books: `RoundInv` and
`GateInv` have the verdicts of exactly the peers asked so far, and as survivors
those of them that answered with the chunk; `NonceInv` judges a timed answer by
its latency, for which the bound lies between what is local and what is relayed
(`LatencyAssumption`, as the source's figures do); `WinnerInv` has the winner
among the survivors, at the lowest bid; `StrikesInv` counts strikes against the
rounds that have asked a peer (`RoundsOf`), which is what makes the count
inductive in the middle of a round. `WinnersHold`, `TheGateIsFair` and
`OnlyHoldersPass` follow.

`NetworkInv` says of each server that it has no connections unless it runs and
each caller at most once (`QueueInv`), of each verifier that it is at the server
it called exactly while it waits for an answer (`CallInv`), and of the relay's
own call the same towards its holder, except for what a relay that has ended
left behind (`RelayInv`). There is a lemma per action of a server (accept,
answer, stop), the verifier and the relay; `CallersAreQueued` follows.

Only model-checked: liveness, the seven temporal properties that are checked
under `FairSpec` (the third column of the table), since neither fairness nor `ENABLED` can be reasoned
about with the provers at hand.

## 6. Known divergences

While the modules were written, these statements of the repository turned out
not to hold of the code. The first table's are stated as a definition in the
module, each of which fails when it is made an invariant (`DataReturns`: a
property) of a run of that module. No run is kept for them.

| Definition | What the repository says | What the code does |
|---|---|---|
| `TunnelRelay!DataReturns` | DATA blocks "until the CONNECT side has fully finished" (`tunnel_relay.py:161`) | If `ready.wait(15)` ends between DATA's pop and its `ready.set()`, CONNECT returns without `done.set()` and DATA waits for ever. |
| `TunnelRelay!FoundWhileRegistered` | a persistent control connection, found under its token (`tunnel_relay.py:18`) | A second host of the token that registers and leaves makes the first, still connected one unreachable. |
| `TunnelRelay!LoopOutlivesDialBack` | control "stays open for the lifetime of hosting" (`node.py:300`) | One dial-back that cannot connect ends the loop. |
| `Download!DoneIsWanted` | leaves are checked so that a host cannot serve something else (`node.py:462`) | Commitment is the host's own INFO; it is not compared with the hash asked for. |
| `Auction!GarbledIsSkipped` | survivors are ranked (`node.py:599`) | An answer that is not JSON raises out of `select_host` for all candidates. |
| `Auction!FailureCounts` | pass or fail is recorded (`README.md:391`) | A failed download ends the process before `record_direct`. |
| `Gossip!DeadRelayIsSkipped` | an unreachable relay is skipped (`poc_discovery.py:57`) | A relay that closes after the request raises an exception nobody catches, which ends the round; so does an answer that is not JSON or an event without a payload (`Unreadable`). |
| `Identity!OneKey` | "a stable pubkey across runs" (`node.py:66`) | Two overlapping first calls return two keys. |
| `Identity!OldKeyLoads` | key bytes are "untouched" (`node.py:78`) | A kill during the migration empties the file. |
| `NetworkChallenge!ReportRestsOnAnswers` | a relay's times are of two real hops (`poc_network_challenge.py:12`) | `collect_samples` drops `ok`, so a challenge nobody answered counts. |

These are in the models as behaviour, and a passing property names them as the
exception where it stops:

| Where | What the repository says | What the code does |
|---|---|---|
| Reputation, `race` in `OnlyRacesLoseHistory` | the outcome is kept for the next auction (`README.md:391`) | Of two jobs on one file the last to save drops the other's record. |
| the same, after a kill | the same | `save` truncates in place; a kill leaves an empty file that nobody can load. |
| Reputation, `ScoreIsAMean` | weight falls with age (`poc_reputation.py:189`) | The same vouch is appended again at every download and weighs more each time; the score stays within what was vouched. |
| WebUi, `shared` in `PlayedIsAsked` | serves an already downloaded file (`web_ui.py:298`) | A second job with the same `out_path` truncates it under the stream. |
| WebUi, `PlayedIsAsked` for ranges with a start | "real HTTP range support" (`web_ui.py:298`) | `bytes=-n` is answered with the first n+1 bytes. |
| Hosting, `Load` after `Published` | "fail fast, before announcing anything" (`web_ui.py:126`) | Only what is to be announced is checked; an entry without chunk data that `ott` adds meanwhile, or that the web UI does not announce, makes the host fail afterwards. |
| Hosting, `Find` for `Web` | the same as the shell's host (`README.md:643`) | The web UI announces one entry and serves all. |
| WebUi, `Fails` after `Check` | serves an "already-downloaded job's file" (`web_ui.py:298`) | When saving or posting the outcome raises (`node.py:717`), a complete download has the status error and is not served; its file stays. |
| Gossip, `Readable` in `ViewIsBounded` | "every host that published a matching content_hash" (`node.py:555`) | A rightly signed publish without `content_hash`, which relays accept, raises `KeyError` and hides all hosts. |
| ChallengeAuction, `SettleRaises` | "settlement FAILED" is printed (`poc_challenge_auction.py:120`) | Only for a `SettlementError`; a call that takes 30 s or a missing docker ends the demo. |
| ChallengeAuction, `GateIsFair`, which says nothing of partial holders | carol sits out rounds "without being flagged dishonest" (`poc_challenge_auction.py:217`) | She gets a strike for each (line 91). |
| Dht, `Overtook` in `OnlyRacesDrop` | "not race-free" (`dht.py:30`) | As it says; a call that timed out still sets what it read, also over the same host's later retry. |

Left out of the models: the page's progress bar, which a late answer sets back
from the 100% of `web/app.js:262`; `rank_content`'s result, whose keys are
titles, so that two contents of one title share an entry
(`poc_discovery.py:104`). One signer's likes of one content at different times
are different events and each add his weight (`poc_discovery.py:101`).

The passing properties are stated so as to be true of this code, and say where
they stop: `MetDataReturns` asks that CONNECT was still waiting, `OwedIsSeen`
that the round ended without an exception, `StableKey` that calls were calm.

## 7. Not modelled

* The kademlia network below `dht.py`: one value per key, which `get` reads and
  `set` replaces or does not, at any time; replicas that disagree, `stop`, which
  nothing calls, and `run_dht_node`, which only starts one node.
* `sha256`, Merkle roots, PGP and Lightning are ideal: a hash names one block, a
  rightly signed event is in `Genuine`, `lncli` pays, fails or times out.
* TLS, heartbeats that only keep a connection busy, the 15 s and 10 s
  themselves (a timeout may come whenever something is awaited). A control
  connection that is dead without either side being told is one that has not
  broken yet. How `LineReader` cuts segments into lines: a control connection
  is a queue of whole lines.
* Floats: scores are exact, so what `0.5 ** age` does to an age of thousands of
  half-lives, zero or an overflow, is not seen. A content has at least one chunk.
* `shell.py`'s parsing and completion, argument parsing in `dura.py`, QR codes,
  static files, captured output of jobs, the page's layout and progress bar: no
  state that another component reads.
* The statistics that `poc_network_challenge.py` computes from its samples, and
  the narrations of the demos' `main`.
* `viz_challenge_separation.py`, `poc_real_archive_challenge.py`: linear
  scripts; build and deployment files.

## 8. Plan

The order is that of importance: first the relay, where threads share sockets;
then what decides over money and trust (Download, Auction, TrustGraph,
Reputation, Identity); then what carries announcements (Gossip, Hosting, Dht);
then the front ends, with what they drive composed under them (Shell, WebClient),
and the demos (NetworkChallenge, ChallengeAuction). All of that exists, and all
safety properties are proved. What could be added:

1. **Auction with Gossip and Download**: candidates from a reader's round over
   relays, and the outcome from Download's jobs instead of a choice.
2. **Replicas in Dht**: several values per key that disagree, as the kademlia
   network may hold, instead of one.
3. **Two chained relays** in NetworkChallenge, which the code allows by its
   configuration.
