-------------------------- MODULE ChallengeAuction --------------------------
(***************************************************************************)
(* src/poc_challenge_auction.py: an auction by price alone, rounds in      *)
(* which only peers that pass a challenge for a random chunk may bid, and  *)
(* rounds in which the answer to a nonce also has to be in time.  A chunk  *)
(* is true or corrupted, hashes are ideal, random draws are choices.       *)
(***************************************************************************)
EXTENDS Integers, SequencesExt

CONSTANTS
  Order,         \* the peers, in the order of the list
  Chunks,
  Holds,         \* [peer -> SUBSET Chunks], its chunks
  Cheats,        \* peers with a cheat_rate
  PriceRange,    \* [peer -> set of bids]
  Source,        \* [peer -> SUBSET Chunks], its relay_source
  LocalLatency, RelayLatency,  \* LOCAL_LATENCY_MS, RELAY_LATENCY_MS
  Bound,         \* TIME_BOUND_MS
  MaxRounds,     \* N_CHALLENGE_ROUNDS, and the number of nonce rounds
  None

Peers == Range(Order)
Answers == {"true", "corrupted", "no response", None}

ASSUME PeersAssumption ==
  /\ Order \in Seq(Peers) /\ IsInjective(Order) /\ Order # <<>>
  /\ Holds \in [Peers -> SUBSET Chunks] /\ Source \in [Peers -> SUBSET Chunks]
  /\ \A p \in Peers : PriceRange[p] # {} /\ PriceRange[p] \subseteq Nat
  /\ DOMAIN PriceRange = Peers
  /\ None \notin Peers \cup Chunks
  /\ None \notin {"true", "corrupted", "no response", "pass", "late"}
  /\ MaxRounds \in Nat \ {0}
\* The figures of the source: (5, 25) and (120, 250) ms against a bound of 60.
ASSUME LatencyAssumption ==
  /\ LocalLatency \subseteq Nat /\ LocalLatency # {} /\ RelayLatency \subseteq Nat /\ Bound \in Nat
  /\ \A l \in LocalLatency : l <= Bound /\ \A h \in RelayLatency : l + h > Bound

VARIABLES
  round,      \* rounds begun; the naive auction is round 0
  idx,        \* the chunk of this round
  asked,      \* peers challenged so far, in order
  survivors,  \* those that may bid
  strikes,    \* Peer.strikes
  winner,     \* of this round, or None
  price,      \* its bid
  timed,      \* a nonce round
  verdict,    \* per peer: of a nonce round, or what it answered in another
  died        \* an exception has ended the demo

roundsVars == <<round, idx, asked, survivors, strikes, winner, price, timed, verdict, died>>

RoundsTypeOK ==
  /\ round \in 0..MaxRounds /\ asked \in 0..Len(Order) /\ timed \in BOOLEAN /\ died \in BOOLEAN
  /\ idx \in Chunks \cup {None} /\ winner \in Peers \cup {None}
  /\ survivors \in Seq(Peers) /\ price \in Nat
  /\ strikes \in [Peers -> 0..MaxRounds]
  /\ verdict \in [Peers -> Answers \cup {"pass", "late"}]

\* naive_price_auction: everybody bids.
RoundsInit ==
  /\ round = 0 /\ idx = None /\ asked = Len(Order)
  /\ survivors = Order /\ winner = None /\ price = 0
  /\ strikes = [p \in Peers |-> 0]
  /\ timed = FALSE /\ died = FALSE /\ verdict = [p \in Peers |-> None]

Over == asked = Len(Order) /\ (timed \/ winner # None \/ survivors = <<>>)

Begin ==
  /\ Over /\ ~died
  /\ \/ round < MaxRounds /\ round' = round + 1 /\ timed' = timed
     \/ round = MaxRounds /\ ~timed /\ round' = 1 /\ timed' = TRUE
  /\ idx' \in Chunks
  /\ asked' = 0 /\ survivors' = <<>> /\ winner' = None /\ price' = 0
  /\ verdict' = [p \in Peers |-> None]
  /\ UNCHANGED <<strikes, died>>

\* Mutant of Respond: chunks are counted from 1 here, from 0 there.
RespondFromZero(p) == IF idx - 1 \notin Holds[p] THEN {"no response"} ELSE {"true"}
Respond(p) ==
  IF idx \notin Holds[p] THEN {"no response"}
  ELSE {"true"} \cup IF p \in Cheats THEN {"corrupted"} ELSE {}

\* Mutant of Accepted: any answer will do.
Answered(answer) == answer # "no response"
Accepted(answer) == answer = "true"

\* challenge_round for the next peer: its chunk's hash must be the leaf.
Challenge ==
  /\ ~timed /\ asked < Len(Order) /\ ~died
  /\ LET p == Order[asked + 1] IN \E answer \in Respond(p) :
       /\ IF Accepted(answer) THEN survivors' = Append(survivors, p) /\ UNCHANGED strikes
          ELSE strikes' = [strikes EXCEPT ![p] = @ + 1] /\ UNCHANGED survivors
       /\ verdict' = [verdict EXCEPT ![p] = answer]
  /\ asked' = asked + 1
  /\ UNCHANGED <<round, idx, winner, price, timed, died>>

\* min(bids, key=bids.get): the first of the cheapest.
Cheapest(bids) ==
  survivors[CHOOSE i \in DOMAIN survivors : \A k \in DOMAIN survivors :
    /\ bids[survivors[i]] <= bids[survivors[k]]
    /\ bids[survivors[i]] = bids[survivors[k]] => i <= k]

\* With or without Lightning; a SettlementError is only printed.
Award ==
  /\ ~timed /\ ~Over /\ asked = Len(Order) /\ ~died
  /\ \E bids \in [Range(survivors) -> UNION Range(PriceRange)] :
       /\ \A p \in Range(survivors) : bids[p] \in PriceRange[p]
       /\ winner' = Cheapest(bids) /\ price' = bids[winner']
  /\ UNCHANGED <<round, idx, asked, survivors, strikes, timed, verdict, died>>

\* What else settle raises, a call of lncli that takes 30 s or a docker that is
\* not there, nobody catches: no winner is printed and no round follows.
SettleRaises ==
  /\ ~timed /\ ~Over /\ asked = Len(Order) /\ ~died
  /\ died' = TRUE
  /\ UNCHANGED <<round, idx, asked, survivors, strikes, winner, price, timed, verdict>>

\* respond_to_nonce_challenge: what answer can come after how long.
Latencies(p) ==
  IF idx \in Holds[p] THEN LocalLatency
  ELSE IF idx \in Source[p] THEN {l + h : l \in LocalLatency, h \in RelayLatency} ELSE {}

\* Mutant of Verdict: the hash alone decides.
OnHash(latency) == "pass"
Verdict(latency) == IF latency <= Bound THEN "pass" ELSE "late"

NonceChallenge ==
  /\ timed /\ asked < Len(Order) /\ ~died
  /\ LET p == Order[asked + 1] IN
       \/ \E l \in Latencies(p) : verdict' = [verdict EXCEPT ![p] = Verdict(l)]
       \/ Latencies(p) = {} /\ verdict' = [verdict EXCEPT ![p] = "no response"]
  /\ asked' = asked + 1
  /\ UNCHANGED <<round, idx, survivors, strikes, winner, price, timed, died>>

RoundsNext == Begin \/ Challenge \/ Award \/ SettleRaises \/ NonceChallenge
RoundsSpec == RoundsInit /\ [][RoundsNext]_roundsVars

(***************************************************************************)
(* Properties.                                                             *)
(***************************************************************************)

\* challenge_round: once the gate is there, whoever wins holds the chunk
\* asked for and sent it as it is (a cheat wins only when it did not cheat),
\* and no holder that never cheats was certain to be cheaper.
WinnerHolds ==
  winner # None /\ round > 0 =>
    /\ idx \in Holds[winner] /\ verdict[winner] = "true"
    /\ \A p \in Peers \ Cheats : idx \in Holds[p] => \E b \in PriceRange[p] : b >= price

\* challenge_round: over all rounds, whatever chunks are drawn, the gate
\* never costs an honest full holder an auction or a strike, and a peer that
\* holds nothing has a strike for each round and no auction.
GateIsFair ==
  \A p \in Peers :
    LET rounds == IF timed THEN MaxRounds ELSE round
        over   == round > 0 /\ asked = Len(Order) /\ ~timed
    IN /\ Holds[p] = Chunks /\ p \notin Cheats =>
            strikes[p] = 0 /\ (over => p \in Range(survivors))
       /\ Holds[p] = {} =>
            /\ rounds - strikes[p] \in {0, 1}
            /\ over => strikes[p] = rounds /\ p \notin Range(survivors)

\* nonce_challenge_round: knowing the hash does not help, and relaying the
\* bytes in real time is too slow: who passes is who holds the chunk.
PassersHold ==
  timed => \A p \in Peers : verdict[p] # None => (verdict[p] = "pass" <=> idx \in Holds[p])

(***************************************************************************)
(* The strengthening that the proofs use.                                  *)
(***************************************************************************)

\* Peers that this round has challenged, and the rounds that have asked p.
Asked == {Order[i] : i \in 1..asked}
RoundsOf(p) == IF timed THEN MaxRounds ELSE IF p \in Asked THEN round ELSE round - 1

\* A round asks for one chunk and has a verdict on those asked alone.
RoundInv ==
  /\ round = 0 => ~timed /\ asked = Len(Order)
  /\ round > 0 => idx \in Chunks /\ \A p \in Peers \ Asked : verdict[p] = None
\* Those that may bid are those whose answer was the chunk.
GateInv ==
  ~timed /\ round > 0 =>
    /\ Range(survivors) = {p \in Asked : verdict[p] = "true"}
    /\ \A p \in Asked : verdict[p] \in Respond(p)
NonceInv == timed => \A p \in Asked : verdict[p] = "pass" <=> idx \in Holds[p]
\* A winner came through this round's gate, and no survivor bid less.
WinnerInv ==
  winner # None =>
    /\ ~timed /\ asked = Len(Order) /\ winner \in Range(survivors)
    /\ \A p \in Range(survivors) : \E b \in PriceRange[p] : b >= price
StrikesInv ==
  \A p \in Peers :
    /\ strikes[p] <= RoundsOf(p)
    /\ Holds[p] = Chunks /\ p \notin Cheats => strikes[p] = 0
    /\ Holds[p] = {} => strikes[p] = RoundsOf(p)

RoundsInv == RoundsTypeOK /\ RoundInv /\ GateInv /\ NonceInv /\ WinnerInv /\ StrikesInv
=============================================================================
