-------------------------------- MODULE Auction --------------------------------
(***************************************************************************)
(* download_with_auction and select_host of src/node.py with settle of     *)
(* src/lightning_settle.py: one client that runs the auction for a content *)
(* again and again.  Candidates are auditioned one after the other; each   *)
(* audition is request and response on one connection, and one step here.  *)
(*                                                                         *)
(* What reputation makes of vouches is the business of Reputation, what a  *)
(* download does to the disk that of Download.                             *)
(***************************************************************************)
EXTENDS Integers, FiniteSetsExt

CONSTANTS
  Hosts,      \* hosts that may have published the content
  Chunks,     \* chunks of the content
  Holds,      \* [Hosts -> SUBSET Chunks], what a host can serve
  Unsteady,   \* hosts that may be away, or go away, at any moment
  Liars,      \* hosts that answer what they like; they serve only what they hold
  Price,      \* [Hosts -> Int], the --price each was started with
  Offers,     \* prices a liar may name instead
  Vouch,      \* [Hosts -> 0..TopScore], score from others' vouches
  TopScore,   \* the score of a host with own, good experience
  K,          \* k, chunks sampled
  Lightning,  \* use_lightning
  MaxRuns,    \* bound on the auctions run
  None

ASSUME HostsAssumption == /\ IsFiniteSet(Chunks)
                          /\ Holds \in [Hosts -> SUBSET Chunks]
                          /\ Unsteady \subseteq Hosts /\ Liars \subseteq Hosts
                          /\ \A h \in Hosts \ Liars : Holds[h] = Chunks
                          /\ Price \in [Hosts -> Int] /\ Offers \subseteq Int
                          /\ Vouch \in [Hosts -> 0..TopScore]
ASSUME ParametersAssumption == /\ TopScore \in Nat /\ K \in Nat /\ MaxRuns \in Nat
                               /\ Lightning \in BOOLEAN
                               /\ None \notin Hosts \cup Int

VARIABLES
  pc,        \* where the run is, or how it ended
  candidates, \* candidates, the hosts found
  todo,      \* candidates still to audition
  quotes,    \* `scored`: the price of each host that passed
  winner,    \* winner
  direct,    \* hosts with an outcome in the reputation file
  attested,  \* hosts the client has published an attestation for
  inflight,  \* payments whose lncli call timed out and may still settle
  paid,      \* payments settled
  runs,      \* auctions started
  wins, served, failures  \* history: auctions won, downloads finished, downloads failed

vars == <<pc, candidates, todo, quotes, winner, direct, attested, inflight, paid, runs, wins, served,
          failures>>
history == <<wins, served, failures>>

Ended == {"idle", "done", "refused", "misled", "aborted", "failed", "killed"}

TypeOK ==
  /\ pc \in Ended \cup {"audition", "pay", "download", "record", "publish"}
  /\ candidates \in SUBSET Hosts /\ todo \in SUBSET candidates
  /\ quotes \in [Hosts -> Int \cup {None}]
  /\ winner \in Hosts \cup {None}
  /\ direct \in SUBSET Hosts /\ attested \in SUBSET Hosts
  /\ inflight \in [Hosts -> Nat] /\ paid \in [Hosts -> Nat]
  /\ runs \in 0..MaxRuns
  /\ wins \in [Hosts -> Nat] /\ failures \in [Hosts -> Nat]
  /\ served \in SUBSET Hosts

Zeros == [h \in Hosts |-> 0]
Init ==
  /\ pc = "idle" /\ candidates = {} /\ todo = {} /\ winner = None
  /\ quotes = [h \in Hosts |-> None]
  /\ direct = {} /\ attested = {}
  /\ inflight = Zeros /\ paid = Zeros
  /\ runs = 0
  /\ wins = Zeros /\ served = {} /\ failures = Zeros

Count(f, h) == [f EXCEPT ![h] = @ + 1]
Shaky == Unsteady \cup Liars

\* discover_hosts_for: whoever's publish event some reachable relay returned.
\* A relay whose answer cannot be read, then or when subscribes and vouches are
\* fetched, ends the run.
Discover ==
  /\ pc \in Ended /\ runs < MaxRuns
  /\ runs' = runs + 1
  /\ \E found \in SUBSET Hosts :
       /\ candidates' = found /\ todo' = found
       /\ pc' \in {"misled", IF found = {} THEN "refused" ELSE "audition"}
  /\ quotes' = [h \in Hosts |-> None]
  /\ winner' = None
  /\ UNCHANGED <<direct, attested, inflight, paid, history>>

\* The host cannot be reached or is lost to an OSError, rejects SELECT, or
\* does not serve what it published.
AuditionSkipped(h) ==
  /\ pc = "audition" /\ h \in todo
  /\ h \in Shaky
  /\ todo' = todo \ {h}
  /\ UNCHANGED <<pc, candidates, quotes, winner, direct, attested, inflight, paid, runs, history>>

\* LEAVES or INFO is answered by something that is not JSON, which includes
\* the empty line of a connection that was closed: json.loads raises what
\* select_host does not catch.
AuditionGarbled(h) ==
  /\ pc = "audition" /\ h \in todo
  /\ h \in Shaky
  /\ pc' = "aborted"
  /\ UNCHANGED <<candidates, todo, quotes, winner, direct, attested, inflight, paid, runs, history>>

Sample == kSubset(Min({K, Cardinality(Chunks)}), Chunks)

\* Mutant of Proves: the comparison is the wrong way round.
Refutes(h, sample) == ~(sample \subseteq Holds[h])
Proves(h, sample) == sample \subseteq Holds[h]

\* What get_price may return: the host's price, 0 for one that does not say,
\* any integer for one that lies.
Quotes(h) ==
  {Price[h]} \cup (IF h \in Shaky THEN {0} ELSE {}) \cup (IF h \in Liars THEN Offers ELSE {})

\* sample_challenge: K random chunks, each checked against its leaf; then the price.
AuditionChallenged(h) ==
  /\ pc = "audition" /\ h \in todo
  /\ \E s \in Sample :
       IF Proves(h, s)
       THEN \E price \in Quotes(h) : quotes' = [quotes EXCEPT ![h] = price]
       ELSE UNCHANGED quotes
  /\ todo' = todo \ {h}
  /\ UNCHANGED <<pc, candidates, winner, direct, attested, inflight, paid, runs, history>>

Passed == {h \in Hosts : quotes[h] # None}
Score(h) == IF h \in direct THEN TopScore ELSE Vouch[h]

\* Mutant of Better: price before reputation.
BetterCheaper(g, h) ==
  quotes[g] < quotes[h] \/ (quotes[g] = quotes[h] /\ Score(g) > Score(h))
\* The sort key (-reputation, price).
Better(g, h) ==
  Score(g) > Score(h) \/ (Score(g) = Score(h) /\ quotes[g] < quotes[h])

Select ==
  /\ pc = "audition" /\ todo = {}
  /\ \/ Passed = {} /\ pc' = "refused" /\ UNCHANGED <<winner, wins>>
     \/ \E h \in Passed :
          /\ ~\E g \in Passed : Better(g, h)
          /\ winner' = h /\ wins' = Count(wins, h)
          /\ pc' = IF quotes[h] > 0 /\ Lightning THEN "pay" ELSE "download"
  /\ UNCHANGED <<candidates, todo, quotes, direct, attested, inflight, paid, runs, served, failures>>

\* settle: the invoice is paid and the preimage fits it.
Settle ==
  /\ pc = "pay"
  /\ paid' = Count(paid, winner)
  /\ pc' = "download"
  /\ UNCHANGED <<candidates, todo, quotes, winner, direct, attested, inflight, runs, history>>
\* No invoice, no route, lncli missing: nothing is paid.
SettleFails ==
  /\ pc = "pay"
  /\ pc' = "aborted"
  /\ UNCHANGED <<candidates, todo, quotes, winner, direct, attested, inflight, paid, runs, history>>
\* Mutant of AfterTimeout: settle is tried once more.
Retried == "pay"
AfterTimeout == "aborted"
\* payinvoice takes more than 30 seconds: the call is given up, the payment is not.
SettleTimesOut ==
  /\ pc = "pay"
  /\ inflight' = Count(inflight, winner)
  /\ pc' = AfterTimeout
  /\ UNCHANGED <<candidates, todo, quotes, winner, direct, attested, paid, runs, history>>
Land(h) ==
  /\ inflight[h] > 0
  /\ inflight' = [inflight EXCEPT ![h] = @ - 1]
  /\ paid' \in {paid, Count(paid, h)}
  /\ UNCHANGED <<pc, candidates, todo, quotes, winner, direct, attested, runs, history>>

\* A liar needs only the blocks of the content that it names in INFO now, which
\* nothing compares with the one asked for.
DownloadCompletes ==
  /\ pc = "download"
  /\ Holds[winner] = Chunks \/ winner \in Liars
  /\ served' = served \cup {winner}
  /\ pc' = "record"
  /\ UNCHANGED <<candidates, todo, quotes, winner, direct, attested, inflight, paid, runs, wins, failures>>
\* The host is lost or lies, or the client cannot write the file.
DownloadFails ==
  /\ pc = "download"
  /\ failures' = Count(failures, winner)
  /\ pc' = "failed"
  /\ UNCHANGED <<candidates, todo, quotes, winner, direct, attested, inflight, paid, runs, wins, served>>

\* record_direct and save.
RecordOutcome ==
  /\ pc = "record"
  /\ direct' = direct \cup {winner}
  /\ pc' = "publish"
  /\ UNCHANGED <<candidates, todo, quotes, winner, attested, inflight, paid, runs, history>>
\* An unreachable relay is reported and does not undo the download.
Publish ==
  /\ pc = "publish"
  /\ attested' \in {attested, attested \cup {winner}}
  /\ pc' = "done"
  /\ UNCHANGED <<candidates, todo, quotes, winner, direct, inflight, paid, runs, history>>

\* The process is interrupted.
Crash ==
  /\ pc \notin Ended
  /\ pc' = "killed"
  /\ inflight' = IF pc = "pay" THEN Count(inflight, winner) ELSE inflight
  /\ UNCHANGED <<candidates, todo, quotes, winner, direct, attested, paid, runs, history>>

Run ==
  \/ \E h \in Hosts : AuditionSkipped(h) \/ AuditionGarbled(h) \/ AuditionChallenged(h)
  \/ Select \/ Settle \/ SettleFails \/ SettleTimesOut
  \/ DownloadCompletes \/ DownloadFails \/ RecordOutcome \/ Publish
Next == Run \/ Discover \/ Crash \/ \E h \in Hosts : Land(h)
Spec == Init /\ [][Next]_vars

(***************************************************************************)
(* Properties.                                                             *)
(***************************************************************************)

\* "Gate on real possession, then rank survivors": whoever wins held at
\* least as many chunks as were sampled, no host that passed has a better
\* reputation, and none with the same reputation is cheaper.
Won == pc \in {"pay", "download", "record", "publish", "done", "failed"}
WinnerIsBest ==
  Won => /\ Cardinality(Holds[winner]) >= Min({K, Cardinality(Chunks)})
         /\ \A h \in Passed :
              /\ Score(h) <= Score(winner)
              /\ Score(h) = Score(winner) => quotes[winner] <= quotes[h]

\* "refusing to download from an unverified source": no steady and honest host
\* that was found is passed over.  A winner is no worse than any of them, an
\* auction is refused only when there is none, and one that ends in the middle
\* of the auditions, which a single garbled answer can do, has heard all of
\* those whose turn had come and stopped at one that is neither steady nor honest.
GoodHostsAreHeard ==
  LET Good == candidates \ Shaky IN
  /\ Won => \A h \in Good : quotes[h] = Price[h] /\ ~Better(h, winner)
  /\ pc = "refused" => Good = {}
  /\ pc = "aborted" /\ winner = None => todo \cap Shaky # {} /\ Good \ todo \subseteq Passed

\* A host is paid at most once for each auction it won, however late a
\* payment settles and whatever was interrupted; and only if it asks for money.
PaidForWins ==
  \A h \in Hosts : /\ paid[h] + inflight[h] <= wins[h]
                   /\ paid[h] + inflight[h] > 0 => Lightning /\ \E q \in Quotes(h) : q > 0

\* What the client tells others it has recorded itself, and it records only
\* what it downloaded: "publish it so others can benefit" never runs ahead.
AttestedIsRecorded == attested \subseteq direct /\ direct \subseteq served

(***************************************************************************)
(* The strengthening that the proofs use.                                  *)
(***************************************************************************)

\* A run that is about to pay has a win that is not paid for, and a price;
\* a run past its download has been served, and past its record has saved it.
AuctionInv ==
  /\ TypeOK
  /\ PaidForWins
  /\ AttestedIsRecorded
  /\ \A h \in Hosts : quotes[h] # None => quotes[h] \in Quotes(h)
  /\ pc \in {"pay", "download", "record", "publish"} => winner \in Hosts
  /\ pc = "pay" => /\ paid[winner] + inflight[winner] < wins[winner]
                   /\ Lightning /\ \E q \in Quotes(winner) : q > 0
  /\ pc = "record" => winner \in served
  /\ pc = "publish" => winner \in direct

\* Whoever passed holds as much as was sampled, a good host once auditioned
\* has passed, and the choice made among the hosts that passed stands until
\* the next auction: what is recorded in between is the winner's own success.
RankingInv ==
  /\ \A h \in Passed : Cardinality(Holds[h]) >= Min({K, Cardinality(Chunks)})
  /\ \A h \in candidates \ (todo \cup Shaky) : quotes[h] = Price[h]
  /\ Won => winner \in Passed /\ todo = {}
  /\ WinnerIsBest
  /\ GoodHostsAreHeard

(***************************************************************************)
(* What the documentation says and the code does not do.                   *)
(***************************************************************************)

\* "Gate on real possession, then rank survivors": one candidate that does
\* not survive does not end the auction for the others.
GarbledIsSkipped == pc = "aborted" /\ winner = None => candidates \subseteq Shaky

\* "the outcome (pass/fail, latency) gets written [...] so the next auction
\* for this host starts from real history": a host whose download failed does
\* not win again over one that passed, never failed and is vouched for as well.
FailureCounts ==
  Won /\ pc # "failed" /\ failures[winner] > 0 /\ winner \notin served =>
    ~\E h \in Passed : failures[h] = 0 /\ Vouch[h] >= Vouch[winner]
=============================================================================
