---------------------------- MODULE AuctionProofs ----------------------------
(***************************************************************************)
(* Theorems about download_with_auction: any hosts, prices and vouches,    *)
(* any number of auctions, payments that settle late, interrupted runs.    *)
(***************************************************************************)
EXTENDS Auction, FiniteSetTheorems, TLAPS

\* A price is an integer, and nobody's price is None.
LEMMA QuoteIsPrice ==
  ASSUME NEW h \in Hosts
  PROVE  Quotes(h) \subseteq Int /\ None \notin Quotes(h)
<1>1. Price[h] \in Int /\ Offers \subseteq Int /\ None \notin Int
  BY HostsAssumption, ParametersAssumption
<1>2. ASSUME NEW q \in Quotes(h) PROVE q \in Int
  <2>1. \/ q \in {Price[h]}
        \/ q \in (IF h \in Shaky THEN {0} ELSE {})
        \/ q \in (IF h \in Liars THEN Offers ELSE {})
    BY <1>2 DEF Quotes
  <2>2. CASE q \in {Price[h]}
    BY <1>1, <2>2
  <2>3. CASE q \in (IF h \in Shaky THEN {0} ELSE {})
    <3>1. q = 0
      BY <2>3, Zenon
    <3> QED BY <3>1
  <2>4. CASE q \in (IF h \in Liars THEN Offers ELSE {})
    <3>1. q \in Offers
      BY <2>4, Zenon
    <3> QED BY <1>1, <3>1
  <2> QED BY <2>1, <2>2, <2>3, <2>4
<1> QED BY <1>1, <1>2, Zenon

\* A steady and honest host has one price.
LEMMA GoodHostsPrice ==
  ASSUME NEW h \in Hosts \ Shaky
  PROVE  Quotes(h) = {Price[h]}
BY DEF Quotes, Shaky

LEMMA InitAuction == Init => AuctionInv
BY HostsAssumption, ParametersAssumption
   DEF Init, AuctionInv, TypeOK, Ended, Zeros, PaidForWins, AttestedIsRecorded

\* Steps that leave payments, wins and records alone and do not enter a
\* state that AuctionInv says something of.
LEMMA QuietStep ==
  ASSUME AuctionInv, TypeOK',
         UNCHANGED <<direct, attested, inflight, paid, wins, served>>,
         \A h \in Hosts : quotes'[h] # None => quotes'[h] \in Quotes(h),
         pc' \notin {"pay", "record", "publish"},
         pc' = "download" => winner' \in Hosts
  PROVE  AuctionInv'
BY DEF AuctionInv, PaidForWins, AttestedIsRecorded

LEMMA DiscoverAuction ==
  ASSUME AuctionInv, Discover
  PROVE  AuctionInv'
<1>1. TypeOK'
  BY ParametersAssumption DEF AuctionInv, TypeOK, Discover, Ended, history
<1>2. /\ UNCHANGED <<direct, attested, inflight, paid, wins, served>>
      /\ \A h \in Hosts : quotes'[h] = None
      /\ pc' \in {"misled", "refused", "audition"}
  BY DEF Discover, history
<1> QED BY <1>1, <1>2, QuietStep

LEMMA AuditionAuction ==
  ASSUME AuctionInv, NEW h \in Hosts,
         AuditionSkipped(h) \/ AuditionGarbled(h) \/ AuditionChallenged(h)
  PROVE  AuctionInv'
<1> USE HostsAssumption, ParametersAssumption
<1>1. CASE AuditionSkipped(h)
  BY <1>1 DEF AuctionInv, TypeOK, Ended, AuditionSkipped, history, PaidForWins, AttestedIsRecorded
<1>2. CASE AuditionGarbled(h)
  BY <1>2 DEF AuctionInv, TypeOK, Ended, AuditionGarbled, history, PaidForWins, AttestedIsRecorded
<1>3. CASE AuditionChallenged(h)
  <2>1. UNCHANGED <<pc, candidates, winner, direct, attested, inflight, paid, runs, history>>
    BY <1>3 DEF AuditionChallenged
  <2>2. \/ UNCHANGED quotes
        \/ \E price \in Quotes(h) : quotes' = [quotes EXCEPT ![h] = price]
    BY <1>3 DEF AuditionChallenged
  <2>3. /\ quotes' \in [Hosts -> Int \cup {None}]
        /\ \A g \in Hosts : quotes'[g] # None => quotes'[g] \in Quotes(g)
    BY <2>2, QuoteIsPrice DEF AuctionInv, TypeOK
  <2>4. pc = "audition" /\ todo' = todo \ {h}
    BY <1>3 DEF AuditionChallenged
  <2>5. TypeOK'
    BY <2>1, <2>3, <2>4 DEF AuctionInv, TypeOK, Ended, history
  <2> QED BY <2>1, <2>3, <2>4, <2>5, QuietStep DEF history
<1> QED BY <1>1, <1>2, <1>3

LEMMA SelectAuction ==
  ASSUME AuctionInv, Select
  PROVE  AuctionInv'
<1> USE HostsAssumption, ParametersAssumption
<1>1. CASE Passed = {} /\ pc' = "refused" /\ UNCHANGED <<winner, wins>>
  <2>1. TypeOK'
    BY <1>1 DEF AuctionInv, TypeOK, Ended, Select
  <2> QED BY <1>1, <2>1, QuietStep DEF Select, AuctionInv
<1>2. ASSUME NEW h \in Passed, winner' = h, wins' = Count(wins, h),
             pc' = IF quotes[h] > 0 /\ Lightning THEN "pay" ELSE "download"
      PROVE  AuctionInv'
  <2>1. h \in Hosts /\ quotes[h] \in Quotes(h) /\ quotes[h] \in Int
    BY <1>2, QuoteIsPrice DEF Passed, AuctionInv
  <2>2. wins' \in [Hosts -> Nat] /\ \A g \in Hosts : wins'[g] = IF g = h THEN wins[g] + 1 ELSE wins[g]
    BY <1>2, <2>1 DEF Count, AuctionInv, TypeOK
  <2>3. TypeOK'
    BY <1>2, <2>1, <2>2 DEF AuctionInv, TypeOK, Ended, Select
  <2>4. PaidForWins'
    BY <2>2 DEF AuctionInv, TypeOK, PaidForWins, Select
  <2>5. pc' = "pay" => /\ paid'[winner'] + inflight'[winner'] < wins'[winner']
                      /\ Lightning /\ \E q \in Quotes(winner') : q > 0
    BY <1>2, <2>1, <2>2 DEF AuctionInv, TypeOK, PaidForWins, Select
  <2> QED BY <1>2, <2>1, <2>3, <2>4, <2>5 DEF AuctionInv, AttestedIsRecorded, Select
<1> QED BY <1>1, <1>2 DEF Select

LEMMA SettleAuction ==
  ASSUME AuctionInv, Settle \/ SettleFails \/ SettleTimesOut
  PROVE  AuctionInv'
<1> USE HostsAssumption, ParametersAssumption
<1>1. CASE Settle
  <2>1. /\ paid' \in [Hosts -> Nat]
        /\ \A g \in Hosts : paid'[g] = IF g = winner THEN paid[g] + 1 ELSE paid[g]
    BY <1>1 DEF Settle, Count, AuctionInv, TypeOK
  <2>2. PaidForWins'
    BY <1>1, <2>1 DEF AuctionInv, TypeOK, PaidForWins, Settle, history
  <2> QED BY <1>1, <2>1, <2>2 DEF AuctionInv, TypeOK, Ended, AttestedIsRecorded, Settle, history
<1>2. CASE SettleFails
  BY <1>2 DEF AuctionInv, TypeOK, Ended, PaidForWins, AttestedIsRecorded, SettleFails, history
<1>3. CASE SettleTimesOut
  <2>1. /\ inflight' \in [Hosts -> Nat]
        /\ \A g \in Hosts : inflight'[g] = IF g = winner THEN inflight[g] + 1 ELSE inflight[g]
    BY <1>3 DEF SettleTimesOut, Count, AuctionInv, TypeOK
  <2>2. PaidForWins'
    BY <1>3, <2>1 DEF AuctionInv, TypeOK, PaidForWins, SettleTimesOut, history
  <2> QED BY <1>3, <2>1, <2>2 DEF AuctionInv, TypeOK, Ended, AttestedIsRecorded, SettleTimesOut, AfterTimeout, history
<1> QED BY <1>1, <1>2, <1>3

LEMMA LandAuction ==
  ASSUME AuctionInv, NEW h \in Hosts, Land(h)
  PROVE  AuctionInv'
<1> USE HostsAssumption, ParametersAssumption
<1>1. /\ inflight' \in [Hosts -> Nat] /\ paid' \in [Hosts -> Nat]
      /\ \A g \in Hosts : /\ paid'[g] + inflight'[g] <= paid[g] + inflight[g]
                          /\ paid[g] + inflight[g] = 0 => paid'[g] + inflight'[g] = 0
  <2>1. /\ inflight[h] > 0
        /\ inflight' = [inflight EXCEPT ![h] = inflight[h] - 1]
        /\ paid' = paid \/ paid' = [paid EXCEPT ![h] = paid[h] + 1]
    BY DEF Land, Count
  <2> QED BY <2>1 DEF AuctionInv, TypeOK
<1>2. UNCHANGED <<pc, candidates, todo, quotes, winner, direct, attested, runs, wins, served, failures>>
  BY DEF Land, history
<1>3. PaidForWins'
  BY <1>1, <1>2 DEF AuctionInv, TypeOK, PaidForWins
<1>4. TypeOK'
  BY <1>1, <1>2 DEF AuctionInv, TypeOK
<1>5. pc' = "pay" => paid'[winner'] + inflight'[winner'] < wins'[winner']
  BY <1>1, <1>2 DEF AuctionInv, TypeOK
<1> QED BY <1>2, <1>3, <1>4, <1>5 DEF AuctionInv, AttestedIsRecorded

LEMMA FinishAuction ==
  ASSUME AuctionInv, DownloadCompletes \/ DownloadFails \/ RecordOutcome \/ Publish
  PROVE  AuctionInv'
<1> USE HostsAssumption, ParametersAssumption
<1>1. CASE DownloadCompletes
  BY <1>1 DEF AuctionInv, TypeOK, Ended, PaidForWins, AttestedIsRecorded, DownloadCompletes
<1>2. CASE DownloadFails
  <2>1. failures' \in [Hosts -> Nat]
    BY <1>2 DEF DownloadFails, Count, AuctionInv, TypeOK
  <2> QED BY <1>2, <2>1
          DEF AuctionInv, TypeOK, Ended, PaidForWins, AttestedIsRecorded, DownloadFails
<1>3. CASE RecordOutcome
  BY <1>3 DEF AuctionInv, TypeOK, Ended, PaidForWins, AttestedIsRecorded, RecordOutcome, history
<1>4. CASE Publish
  <2>1. attested' \in SUBSET Hosts /\ attested' \subseteq direct
    BY <1>4 DEF AuctionInv, TypeOK, AttestedIsRecorded, Publish
  <2>2. pc' = "done" /\ UNCHANGED <<candidates, todo, quotes, winner, direct, inflight, paid, runs, wins, served, failures>>
    BY <1>4 DEF Publish, history
  <2> QED BY <2>1, <2>2 DEF AuctionInv, TypeOK, Ended, PaidForWins, AttestedIsRecorded
<1> QED BY <1>1, <1>2, <1>3, <1>4

LEMMA CrashAuction ==
  ASSUME AuctionInv, Crash
  PROVE  AuctionInv'
<1> USE HostsAssumption, ParametersAssumption
<1>1. CASE pc = "pay"
  <2>1. /\ inflight' \in [Hosts -> Nat]
        /\ \A g \in Hosts : inflight'[g] = IF g = winner THEN inflight[g] + 1 ELSE inflight[g]
    BY <1>1 DEF Crash, Count, AuctionInv, TypeOK
  <2>2. /\ pc' = "killed"
        /\ UNCHANGED <<candidates, todo, quotes, winner, direct, attested, paid, runs, wins, served, failures>>
    BY DEF Crash, history
  <2>3. PaidForWins'
    <3>1. \A g \in Hosts : paid[g] \in Nat /\ inflight[g] \in Nat /\ wins[g] \in Nat
      BY DEF AuctionInv, TypeOK
    <3>2. /\ winner \in Hosts /\ paid[winner] + inflight[winner] < wins[winner]
          /\ Lightning /\ \E q \in Quotes(winner) : q > 0
      BY <1>1 DEF AuctionInv
    <3> QED BY <2>1, <2>2, <3>1, <3>2 DEF AuctionInv, PaidForWins
  <2>4. TypeOK'
    BY <2>1, <2>2 DEF AuctionInv, TypeOK, Ended
  <2> QED BY <2>2, <2>3, <2>4 DEF AuctionInv, AttestedIsRecorded
<1>2. CASE pc # "pay"
  BY <1>2 DEF AuctionInv, TypeOK, Ended, PaidForWins, AttestedIsRecorded, Crash, history
<1> QED BY <1>1, <1>2

\* The strengthening of the auction's guarantees is kept by every step.
THEOREM AuctionInvariant == Spec => []AuctionInv
<1>1. AuctionInv /\ [Next]_vars => AuctionInv'
  <2> SUFFICES ASSUME AuctionInv, [Next]_vars PROVE AuctionInv'
    OBVIOUS
  <2>1. CASE Run
    BY <2>1, AuditionAuction, SelectAuction, SettleAuction, FinishAuction DEF Run
  <2>2. CASE Discover
    BY <2>2, DiscoverAuction
  <2>3. CASE Crash
    BY <2>3, CrashAuction
  <2>4. ASSUME NEW h \in Hosts, Land(h) PROVE AuctionInv'
    BY <2>4, LandAuction
  <2>5. CASE UNCHANGED vars
    BY <2>5 DEF vars, AuctionInv, TypeOK, PaidForWins, AttestedIsRecorded
  <2> QED BY <2>1, <2>2, <2>3, <2>4, <2>5 DEF Next
<1> QED BY <1>1, InitAuction, PTL DEF Spec

\* No host is ever paid more often than it won an auction, however late
\* payments settle and whatever is interrupted.
THEOREM NoPaymentWithoutWin == Spec => []PaidForWins
<1>1. AuctionInv => PaidForWins
  BY DEF AuctionInv
<1> QED BY <1>1, AuctionInvariant, PTL

\* Nothing is attested to others that was not downloaded and recorded.
THEOREM NoAttestationWithoutRecord == Spec => []AttestedIsRecorded
<1>1. AuctionInv => AttestedIsRecorded
  BY DEF AuctionInv
<1> QED BY <1>1, AuctionInvariant, PTL

(***************************************************************************)
(* The gate and the choice.                                                *)
(***************************************************************************)

\* A drawn sample has as many chunks as the smaller of K and the content.
LEMMA SampleIsFull ==
  ASSUME NEW s \in Sample
  PROVE  s \subseteq Chunks /\ Cardinality(s) = Min({K, Cardinality(Chunks)})
BY DEF Sample, kSubset

\* A host that proves a sample holds at least as many chunks.
LEMMA ProofOfPossession ==
  ASSUME NEW h \in Hosts, NEW s \in Sample, Proves(h, s)
  PROVE  Cardinality(Holds[h]) >= Min({K, Cardinality(Chunks)})
<1>1. Holds[h] \in SUBSET Chunks /\ IsFiniteSet(Chunks)
  BY HostsAssumption
<1>2. IsFiniteSet(Holds[h])
  BY <1>1, FS_Subset
<1>3. s \in SUBSET Holds[h] /\ Cardinality(s) = Min({K, Cardinality(Chunks)})
  BY SampleIsFull DEF Proves
<1>4. Cardinality(s) <= Cardinality(Holds[h])
  BY <1>2, <1>3, FS_Subset
<1>5. Cardinality(s) \in Nat /\ Cardinality(Holds[h]) \in Nat
  BY <1>2, <1>3, FS_Subset, FS_CardinalityType
<1> QED BY <1>3, <1>4, <1>5

\* A steady and honest host proves every sample.
LEMMA GoodHostsProve ==
  ASSUME NEW h \in Hosts \ Shaky, NEW s \in Sample
  PROVE  Proves(h, s)
BY SampleIsFull, HostsAssumption DEF Proves, Shaky

\* Scores are natural numbers, and having been recorded as good beats or
\* equals any of them.
LEMMA ScoreRange ==
  ASSUME NEW h \in Hosts
  PROVE  Score(h) \in 0..TopScore /\ (h \in direct => Score(h) = TopScore)
BY HostsAssumption, ParametersAssumption DEF Score

\* What WinnerIsBest says depends on the quotes, the scores and the winner
\* only: a step that keeps them keeps it.
LEMMA ChoiceStands ==
  ASSUME RankingInv, UNCHANGED <<candidates, todo, quotes, winner, direct>>, Won' => Won,
         pc' # "refused", pc' = "aborted" => winner # None
  PROVE  RankingInv'
BY DEF RankingInv, WinnerIsBest, GoodHostsAreHeard, Better, Passed, Score

LEMMA InitRanking == Init => RankingInv
BY DEF Init, RankingInv, WinnerIsBest, GoodHostsAreHeard, Won, Passed

LEMMA DiscoverRanking ==
  ASSUME AuctionInv, RankingInv, Discover
  PROVE  RankingInv'
<1>1. Passed' = {}
  BY DEF Discover, Passed
<1>2. /\ ~Won'
      /\ candidates' = todo'
      /\ pc' = "refused" => candidates' = {}
      /\ pc' # "aborted"
  BY DEF Discover, Won
<1> QED BY <1>1, <1>2 DEF RankingInv, WinnerIsBest, GoodHostsAreHeard

LEMMA AuditionRanking ==
  ASSUME AuctionInv, RankingInv, NEW h \in Hosts,
         AuditionSkipped(h) \/ AuditionGarbled(h) \/ AuditionChallenged(h)
  PROVE  RankingInv'
<1>1. CASE AuditionSkipped(h)
  BY <1>1 DEF AuditionSkipped, history, RankingInv, WinnerIsBest, GoodHostsAreHeard, Won, Passed
<1>2. CASE AuditionGarbled(h)
  <2>1. /\ pc' = "aborted" /\ h \in todo \cap Shaky
        /\ UNCHANGED <<candidates, todo, quotes, winner>>
    BY <1>2 DEF AuditionGarbled
  <2>2. candidates \ (todo \cup Shaky) \subseteq Passed
    BY HostsAssumption, ParametersAssumption DEF RankingInv, Passed, AuctionInv, TypeOK
  <2> QED BY <2>1, <2>2 DEF RankingInv, WinnerIsBest, GoodHostsAreHeard, Won, Passed
<1>3. CASE AuditionChallenged(h)
  <2>1. PICK s \in Sample :
          IF Proves(h, s)
          THEN \E price \in Quotes(h) : quotes' = [quotes EXCEPT ![h] = price]
          ELSE UNCHANGED quotes
    BY <1>3 DEF AuditionChallenged
  <2>2. /\ pc = "audition" /\ pc' = "audition" /\ h \in todo
        /\ todo' = todo \ {h}
        /\ UNCHANGED candidates
    BY <1>3 DEF AuditionChallenged
  <2>3. ~Won' /\ GoodHostsAreHeard'
    BY <2>2 DEF Won, GoodHostsAreHeard
  <2>4. \/ Proves(h, s) /\ Passed' = Passed \cup {h}
        \/ ~Proves(h, s) /\ Passed' = Passed
    BY <2>1, QuoteIsPrice DEF Passed, AuctionInv, TypeOK
  <2>5. \A g \in Passed' : Cardinality(Holds[g]) >= Min({K, Cardinality(Chunks)})
    BY <2>4, ProofOfPossession DEF RankingInv
  <2>6. ASSUME NEW g \in candidates' \ (todo' \cup Shaky)
        PROVE  quotes'[g] = Price[g]
    <3>1. CASE g = h
      <4>1. quotes \in [Hosts -> Int \cup {None}]
        BY DEF AuctionInv, TypeOK
      <4> QED BY <2>1, <2>6, <3>1, <4>1, GoodHostsProve, GoodHostsPrice
    <3>2. CASE g # h
      <4>1. quotes[g] = Price[g]
        BY <2>2, <2>6, <3>2 DEF RankingInv
      <4>2. quotes'[g] = quotes[g]
        BY <2>1, <2>2, <2>6, <3>2 DEF AuctionInv, TypeOK
      <4> QED BY <4>1, <4>2
    <3> QED BY <3>1, <3>2
  <2> QED BY <2>3, <2>5, <2>6 DEF RankingInv, WinnerIsBest
<1> QED BY <1>1, <1>2, <1>3

LEMMA SelectRanking ==
  ASSUME AuctionInv, RankingInv, Select
  PROVE  RankingInv'
<1>1. pc = "audition" /\ todo = {} /\ UNCHANGED <<candidates, todo, quotes, direct>>
  BY DEF Select
<1>2. Passed' = Passed /\ \A g : Score(g)' = Score(g)
  BY <1>1 DEF Passed, Score
<1>3. CASE Passed = {} /\ pc' = "refused"
  <2>1. candidates \ Shaky = {}
    BY <1>1, <1>3, HostsAssumption, ParametersAssumption DEF RankingInv, Passed, AuctionInv, TypeOK
  <2> QED BY <1>1, <1>2, <1>3, <2>1 DEF RankingInv, WinnerIsBest, GoodHostsAreHeard, Won
<1>4. ASSUME NEW h \in Passed, ~\E g \in Passed : Better(g, h), winner' = h,
             pc' \in {"pay", "download"}
      PROVE  RankingInv'
  <2>1. \A g \in Passed : quotes[g] \in Int /\ Score(g) \in Nat
    BY ScoreRange, ParametersAssumption DEF Passed, AuctionInv, TypeOK
  <2>2. \A g \in Passed : /\ Score(g) <= Score(h)
                          /\ Score(g) = Score(h) => quotes[h] <= quotes[g]
    BY <1>4, <2>1 DEF Better
  <2>3. WinnerIsBest'
    BY <1>1, <1>2, <1>4, <2>2 DEF WinnerIsBest, RankingInv
  <2>4. /\ \A g \in candidates' \ Shaky : quotes'[g] = Price[g]
        /\ winner' \in Passed' /\ todo' = {} /\ Won' /\ AuctionInv'
    BY <1>1, <1>2, <1>4, SelectAuction DEF RankingInv, Won
  <2>5. GoodHostsAreHeard'
    <3>1. ASSUME NEW g \in candidates \ Shaky PROVE ~Better(g, h)
      <4>1. g \in Passed
        BY <1>1, <2>4, HostsAssumption, ParametersAssumption DEF Passed, AuctionInv, TypeOK
      <4> QED BY <1>4, <4>1
    <3>2. \A g \in candidates \ Shaky : ~Better(g, h)'
      BY <1>1, <3>1 DEF Better, Score
    <3> QED BY <1>1, <1>4, <2>4, <3>2 DEF GoodHostsAreHeard, Better
  <2> QED BY <1>1, <1>2, <1>4, <2>3, <2>4, <2>5 DEF RankingInv
<1> QED BY <1>3, <1>4 DEF Select

\* Nothing between the choice and its success changes what it rested on; its
\* success raises the score of the winner only.
LEMMA FinishRanking ==
  ASSUME AuctionInv, RankingInv,
         Settle \/ SettleFails \/ SettleTimesOut \/ DownloadCompletes \/ DownloadFails
           \/ RecordOutcome \/ Publish
  PROVE  RankingInv'
<1>1. CASE Settle \/ SettleFails \/ SettleTimesOut
  <2>1. winner # None
    BY <1>1, ParametersAssumption DEF Settle, SettleFails, SettleTimesOut, AuctionInv
  <2> QED BY <1>1, <2>1, ChoiceStands
          DEF Settle, SettleFails, SettleTimesOut, AfterTimeout, Won, history
<1>2. CASE DownloadCompletes \/ DownloadFails \/ Publish
  BY <1>2, ChoiceStands DEF DownloadCompletes, DownloadFails, Publish, Won, history
<1>3. CASE RecordOutcome
  <2>1. /\ pc = "record" /\ pc' = "publish"
        /\ direct' = direct \cup {winner} /\ UNCHANGED <<candidates, todo, quotes, winner>>
    BY <1>3 DEF RecordOutcome
  <2>2. Won /\ winner \in Passed /\ Passed' = Passed /\ Passed \subseteq Hosts
    BY <2>1 DEF Won, RankingInv, Passed
  <2>3. \A h \in Passed : Score(h) \in 0..TopScore
    BY <2>2, ScoreRange
  <2>4. /\ Score(winner)' = TopScore
        /\ \A h \in Passed : h # winner => Score(h)' = Score(h)
    BY <2>1 DEF Score
  <2>5. \A h \in Passed : /\ Score(h) <= Score(winner)
                          /\ Score(h) = Score(winner) => quotes[winner] <= quotes[h]
    BY <2>2 DEF RankingInv, WinnerIsBest
  <2>6. \A h \in Passed : /\ Score(h)' <= Score(winner)'
                          /\ Score(h)' = Score(winner)' => quotes[winner] <= quotes[h]
    <3>1. TAKE h \in Passed
    <3>2. CASE h = winner
      <4>1. Score(h)' = Score(winner)' /\ Score(winner)' = TopScore
        BY <2>1, <2>4, <3>2 DEF Score
      <4>2. quotes[h] \in Int /\ quotes[winner] = quotes[h]
        BY <3>2 DEF Passed, AuctionInv, TypeOK
      <4> QED BY <4>1, <4>2, ParametersAssumption
    <3>3. CASE h # winner
      BY <2>2, <2>3, <2>4, <2>5, <3>3, ParametersAssumption
    <3> QED BY <3>2, <3>3
  <2>7. WinnerIsBest' /\ Won'
    BY <2>1, <2>2, <2>6 DEF WinnerIsBest, Won, RankingInv
  <2>8. /\ \A h \in Passed' : Cardinality(Holds[h]) >= Min({K, Cardinality(Chunks)})
        /\ \A h \in candidates' \ (todo' \cup Shaky) : quotes'[h] = Price[h]
        /\ winner' \in Passed' /\ todo' = {} /\ AuctionInv'
    BY <1>3, <2>1, <2>2, FinishAuction DEF RankingInv
  <2>9. GoodHostsAreHeard'
    <3>1. ASSUME NEW h \in candidates' \ Shaky PROVE ~Better(h, winner)'
      <4>0. h \in Hosts /\ Price[h] # None /\ todo = {}
        BY <2>1, <2>8, <3>1, HostsAssumption, ParametersAssumption DEF AuctionInv, TypeOK
      <4>1. h \in Passed /\ quotes'[h] = quotes[h]
        BY <2>1, <2>8, <3>1, <4>0 DEF Passed
      <4>2. Score(h)' \in Nat /\ Score(winner)' \in Nat
        <5>1. Score(h) \in Nat
          BY <2>3, <4>1, ParametersAssumption
        <5>2. CASE h = winner
          BY <2>1, <2>4, <5>2, ParametersAssumption DEF Score
        <5>3. CASE h # winner
          BY <2>4, <4>1, <5>1, <5>3, ParametersAssumption
        <5> QED BY <5>2, <5>3
      <4>3. quotes[h] \in Int /\ quotes[winner] \in Int
        BY <2>2, <4>1 DEF Passed, AuctionInv, TypeOK
      <4> QED BY <2>1, <2>6, <4>1, <4>2, <4>3 DEF Better
    <3> QED BY <2>7, <2>8, <3>1 DEF GoodHostsAreHeard, Won
  <2> QED BY <2>7, <2>8, <2>9 DEF RankingInv
<1> QED BY <1>1, <1>2, <1>3

LEMMA OtherRanking ==
  ASSUME AuctionInv, RankingInv, Crash \/ (\E h \in Hosts : Land(h)) \/ UNCHANGED vars
  PROVE  RankingInv'
<1>1. CASE Crash
  BY <1>1, ChoiceStands DEF Crash, Won, Ended, history
<1>2. CASE UNCHANGED <<pc, candidates, todo, quotes, winner, direct>>
  BY <1>2 DEF RankingInv, WinnerIsBest, GoodHostsAreHeard, Better, Won, Passed, Score
<1> QED BY <1>1, <1>2 DEF Land, vars, history

\* Who has passed, what they hold, and the choice among them: inductive
\* together with AuctionInv.
THEOREM RankingInvariant == Spec => []RankingInv
<1>1. AuctionInv /\ RankingInv /\ [Next]_vars => RankingInv'
  <2> SUFFICES ASSUME AuctionInv, RankingInv, [Next]_vars PROVE RankingInv'
    OBVIOUS
  <2>1. CASE Run
    BY <2>1, AuditionRanking, SelectRanking, FinishRanking DEF Run
  <2>2. CASE Discover
    BY <2>2, DiscoverRanking
  <2>3. CASE Crash \/ (\E h \in Hosts : Land(h)) \/ UNCHANGED vars
    BY <2>3, OtherRanking
  <2> QED BY <2>1, <2>2, <2>3 DEF Next
<1> QED BY <1>1, InitRanking, AuctionInvariant, PTL DEF Spec

\* Possession is the gate and reputation the rank: whoever wins held as much
\* as was sampled, nobody that passed is better, and none as good is cheaper.
THEOREM BestHostWins == Spec => []WinnerIsBest
<1>1. RankingInv => WinnerIsBest
  BY DEF RankingInv
<1> QED BY <1>1, RankingInvariant, PTL

\* No steady and honest host that was found is passed over: by a choice, by a
\* refusal, or before an answer that cannot be read ends the auditions.
THEOREM NoGoodHostPassedOver == Spec => []GoodHostsAreHeard
<1>1. RankingInv => GoodHostsAreHeard
  BY DEF RankingInv
<1> QED BY <1>1, RankingInvariant, PTL
=============================================================================
