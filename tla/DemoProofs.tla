------------------------------ MODULE DemoProofs ------------------------------
(***************************************************************************)
(* Theorems about the two challenge demos: the rounds of                   *)
(* src/poc_challenge_auction.py, for any peers, chunks, prices and         *)
(* latencies with a bound between them, and the processes of               *)
(* src/poc_network_challenge.py, for any number of verifiers and holders.  *)
(***************************************************************************)
EXTENDS ChallengeAuction, NetworkChallenge, SequenceTheorems, WellFoundedInduction, TLAPS

LEMMA RangeAppend ==
  ASSUME NEW S, NEW s \in Seq(S), NEW x \in S
  PROVE  Range(Append(s, x)) = Range(s) \cup {x}
<1> DEFINE t == Append(s, x)
<1>1. t \in Seq(S) /\ Len(s) \in Nat /\ Len(t) = Len(s) + 1 /\ t[Len(s) + 1] = x
      /\ \A i \in 1..Len(s) : t[i] = s[i]
  BY AppendProperties, LenProperties
<1> HIDE DEF t
<1>2. Range(s) = {s[i] : i \in 1..Len(s)} /\ Range(t) = {t[i] : i \in 1..(Len(s) + 1)}
  BY <1>1, RangeEquality
<1>3. ASSUME NEW y \in Range(t) PROVE y \in Range(s) \cup {x}
  <2>1. PICK i \in 1..(Len(s) + 1) : y = t[i]
    BY <1>2, <1>3
  <2>2. CASE i = Len(s) + 1
    BY <1>1, <2>1, <2>2
  <2>3. CASE i # Len(s) + 1
    <3>1. i \in 1..Len(s)
      BY <1>1, <2>1, <2>3
    <3> QED BY <1>1, <1>2, <2>1, <3>1
  <2> QED BY <2>2, <2>3
<1>4. ASSUME NEW y \in Range(s) \cup {x} PROVE y \in Range(t)
  <2>1. CASE y = x
    <3>1. Len(s) + 1 \in 1..(Len(s) + 1)
      BY <1>1
    <3> QED BY <1>1, <1>2, <2>1, <3>1
  <2>2. CASE y \in Range(s)
    <3>1. PICK i \in 1..Len(s) : y = s[i]
      BY <1>2, <2>2
    <3>2. i \in 1..(Len(s) + 1)
      BY <1>1, <3>1
    <3> QED BY <1>1, <1>2, <3>1, <3>2
  <2> QED BY <1>4, <2>1, <2>2
<1>5. Range(t) = Range(s) \cup {x}
  BY <1>3, <1>4
<1> QED BY <1>5 DEF t

\* Induction on the natural numbers, for a set of counterexamples.
LEMMA LeastNatural ==
  ASSUME NEW T, T \subseteq Nat, T # {}
  PROVE  \E n \in T : \A m \in T : n <= m
<1> DEFINE R == OpToRel(<, Nat)
<1>1. PICK n \in T : \A m \in T : <<m, n>> \notin R
  BY WFMin, NatLessThanWellFounded
<1>2. \A m \in T : ~(m < n)
  BY <1>1 DEF OpToRel
<1> HIDE DEF R
<1>3. \A m \in T : n <= m
  BY <1>2
<1> QED BY <1>3

(***************************************************************************)
(* The rounds of challenges.                                               *)
(***************************************************************************)

LEMMA PeersInOrder ==
  /\ Order \in Seq(Peers) /\ Len(Order) \in Nat
  /\ DOMAIN Order = 1..Len(Order)
  /\ \A i \in 1..Len(Order) : Order[i] \in Peers
  /\ \A p \in Peers : \E i \in 1..Len(Order) : p = Order[i]
  /\ \A i, k \in 1..Len(Order) : Order[i] = Order[k] => i = k
<1>1. Order \in Seq(Peers)
  BY PeersAssumption
<1>2. DOMAIN Order = 1..Len(Order) /\ Len(Order) \in Nat
  BY <1>1, LenProperties
<1> QED BY <1>1, <1>2, PeersAssumption DEF Peers, Range, IsInjective

\* The next peer of the list has not been asked, and then it has.
LEMMA NextIsAsked ==
  ASSUME asked \in 0..Len(Order), asked < Len(Order), asked' = asked + 1
  PROVE  /\ Order[asked + 1] \in Peers \ Asked
         /\ Asked' = Asked \cup {Order[asked + 1]}
         /\ asked' \in 0..Len(Order) /\ Asked \subseteq Peers
<1>1. asked + 1 \in 1..Len(Order) /\ asked \in Nat /\ asked' \in 0..Len(Order)
  BY PeersInOrder
<1>2. \A i \in 1..asked : i \in 1..Len(Order) /\ i # asked + 1
  BY <1>1, PeersInOrder
<1>3. Order[asked + 1] \notin Asked
  BY <1>1, <1>2, PeersInOrder DEF Asked
<1>4. \A i \in 1..(asked + 1) : i \in 1..asked \/ i = asked + 1
  BY <1>1
<1>5. \A i \in 1..asked : i \in 1..(asked + 1)
  BY <1>1
<1>6. asked + 1 \in 1..(asked + 1)
  BY <1>1
<1>7. Asked' = {Order[i] : i \in 1..(asked + 1)}
  BY DEF Asked
<1>8. Asked' = Asked \cup {Order[asked + 1]}
  BY <1>4, <1>5, <1>6, <1>7 DEF Asked
<1>9. Asked \subseteq Peers
  BY <1>2, PeersInOrder DEF Asked
<1> QED BY <1>1, <1>3, <1>8, <1>9, PeersInOrder

LEMMA AllAsked ==
  (asked = Len(Order) => Asked = Peers) /\ (asked = 0 => Asked = {})
<1>1. asked = Len(Order) => Asked = Peers
  BY PeersInOrder DEF Asked
<1>2. asked = 0 => Asked = {}
  BY DEF Asked
<1> QED BY <1>1, <1>2

LEMMA RoundsBegin == RoundsInit => RoundsInv
<1> SUFFICES ASSUME RoundsInit PROVE RoundsInv
  OBVIOUS
<1>1. Asked = Peers /\ Len(Order) \in Nat /\ MaxRounds \in Nat \ {0}
  BY AllAsked, PeersInOrder, PeersAssumption DEF RoundsInit
<1>2. RoundsTypeOK
  <2>1. /\ round \in 0..MaxRounds /\ asked \in 0..Len(Order) /\ price \in Nat
        /\ strikes \in [Peers -> 0..MaxRounds]
    BY <1>1 DEF RoundsInit
  <2>2. survivors \in Seq(Peers)
    BY PeersInOrder DEF RoundsInit
  <2>3. verdict \in [Peers -> Answers \cup {"pass", "late"}] /\ timed \in BOOLEAN
    BY DEF RoundsInit, Answers
  <2> QED BY <2>1, <2>2, <2>3 DEF RoundsInit, RoundsTypeOK
<1>3. StrikesInv
  BY <1>1 DEF RoundsInit, StrikesInv, RoundsOf
<1> QED BY <1>2, <1>3 DEF RoundsInit, RoundsInv, RoundInv, GateInv, NonceInv, WinnerInv

\* A new round starts with a full count of the strikes of the last one.
LEMMA BeginRound ==
  ASSUME RoundsInv, Begin
  PROVE  RoundsInv'
<1>1. /\ RoundsTypeOK /\ RoundInv /\ StrikesInv
      /\ MaxRounds \in Nat \ {0} /\ Len(Order) \in Nat /\ None \notin Peers
  BY PeersInOrder, PeersAssumption DEF RoundsInv
<1>2. /\ asked = Len(Order) /\ Asked = Peers /\ Asked' = {}
  <2>1. asked = Len(Order) /\ asked' = 0
    BY DEF Begin, Over
  <2> QED BY <2>1, AllAsked DEF Asked
<1>3. /\ round' \in 1..MaxRounds /\ timed' \in BOOLEAN /\ round \in 0..MaxRounds /\ timed \in BOOLEAN
      /\ ~timed' => ~timed /\ round' = round + 1
      /\ timed' /\ ~timed => round = MaxRounds
  <2>1. round \in 0..MaxRounds /\ timed \in BOOLEAN
    BY <1>1 DEF RoundsTypeOK
  <2>2. CASE round < MaxRounds /\ round' = round + 1 /\ timed' = timed
    <3>1. round' \in 1..MaxRounds
      BY <1>1, <2>1, <2>2
    <3> QED BY <2>1, <2>2, <3>1
  <2>3. CASE round = MaxRounds /\ ~timed /\ round' = 1 /\ timed' = TRUE
    <3>1. round' \in 1..MaxRounds
      BY <1>1, <2>3
    <3> QED BY <2>1, <2>3, <3>1
  <2> QED BY <2>2, <2>3 DEF Begin
<1>4. /\ idx' \in Chunks /\ asked' = 0 /\ survivors' = <<>> /\ winner' = None /\ price' = 0
      /\ verdict' = [p \in Peers |-> None] /\ strikes' = strikes /\ died' = died
  BY DEF Begin
<1>5. RoundsTypeOK'
  <2>1. round' \in 0..MaxRounds /\ asked' \in 0..Len(Order) /\ price' \in Nat
    BY <1>1, <1>3, <1>4
  <2>2. survivors' \in Seq(Peers)
    BY <1>4
  <2>3. verdict' \in [Peers -> Answers \cup {"pass", "late"}]
    BY <1>4 DEF Answers
  <2> QED BY <1>1, <1>3, <1>4, <2>1, <2>2, <2>3 DEF RoundsTypeOK
<1>6. RoundInv'
  BY <1>2, <1>3, <1>4 DEF RoundInv
<1>7. GateInv' /\ NonceInv' /\ WinnerInv'
  <2>1. Range(survivors') = {}
    BY <1>4 DEF Range
  <2> QED BY <1>2, <1>4, <2>1 DEF GateInv, NonceInv, WinnerInv
<1>8. \A p \in Peers : RoundsOf(p)' = RoundsOf(p)
  <2>1. \A p \in Peers : RoundsOf(p)' = IF timed' THEN MaxRounds ELSE round' - 1
    BY <1>2 DEF RoundsOf
  <2>2. \A p \in Peers : RoundsOf(p) = IF timed THEN MaxRounds ELSE round
    BY <1>2 DEF RoundsOf
  <2> QED BY <1>1, <1>3, <2>1, <2>2 
<1>9. StrikesInv'
  BY <1>1, <1>4, <1>8 DEF StrikesInv
<1> QED BY <1>5, <1>6, <1>7, <1>9 DEF RoundsInv

\* A challenge lets in who answers with the chunk and gives the others a strike.
LEMMA ChallengeRound ==
  ASSUME RoundsInv, Challenge
  PROVE  RoundsInv'
<1> DEFINE p == Order[asked + 1]
<1>1. /\ RoundsTypeOK /\ RoundInv /\ GateInv /\ WinnerInv /\ StrikesInv
      /\ MaxRounds \in Nat \ {0} /\ Len(Order) \in Nat
  BY PeersInOrder, PeersAssumption DEF RoundsInv
<1>2. /\ p \in Peers \ Asked /\ Asked' = Asked \cup {p} /\ Asked \subseteq Peers
      /\ asked' \in 0..Len(Order) /\ asked # Len(Order) /\ ~timed
  BY <1>1, NextIsAsked DEF Challenge, RoundsTypeOK
<1>3. PICK said \in Respond(p) :
        /\ IF Accepted(said) THEN survivors' = Append(survivors, p) /\ UNCHANGED strikes
           ELSE strikes' = [strikes EXCEPT ![p] = @ + 1] /\ UNCHANGED survivors
        /\ verdict' = [verdict EXCEPT ![p] = said]
  BY DEF Challenge
<1>4. UNCHANGED <<round, idx, winner, price, timed, died>>
  BY DEF Challenge
<1> HIDE DEF p
<1>5. round \in 1..MaxRounds /\ idx \in Chunks /\ winner = None
  BY <1>1, <1>2 DEF RoundsTypeOK, RoundInv, WinnerInv
<1>6. /\ said \in {"true", "corrupted", "no response"}
      /\ said = "true" => idx \in Holds[p]
      /\ idx \in Holds[p] /\ p \notin Cheats => said = "true"
  BY <1>3 DEF Respond
<1>7. \A q \in Peers : verdict'[q] = IF q = p THEN said ELSE verdict[q]
  BY <1>1, <1>2, <1>3 DEF RoundsTypeOK
<1>8. \A q \in Peers : strikes'[q] = IF q = p /\ said # "true" THEN strikes[q] + 1 ELSE strikes[q]
  BY <1>1, <1>2, <1>3 DEF RoundsTypeOK, Accepted
<1>9. \A q \in Peers : RoundsOf(q)' = IF q = p THEN RoundsOf(q) + 1 ELSE RoundsOf(q)
  BY <1>2, <1>4, <1>5 DEF RoundsOf
<1>10. \A q \in Peers : strikes[q] \in Nat /\ RoundsOf(q) \in Nat /\ RoundsOf(q)' <= MaxRounds
  <2> SUFFICES ASSUME NEW q \in Peers
               PROVE  strikes[q] \in Nat /\ RoundsOf(q) \in Nat /\ RoundsOf(q)' <= MaxRounds
    OBVIOUS
  <2>1. strikes[q] \in Nat
    BY <1>1 DEF RoundsTypeOK
  <2>2. RoundsOf(q) \in Nat
    BY <1>2, <1>5 DEF RoundsOf
  <2>3. RoundsOf(q)' <= MaxRounds
    BY <1>1, <1>2, <1>4, <1>5 DEF RoundsOf
  <2> QED BY <2>1, <2>2, <2>3
<1>11. StrikesInv'
  <2> SUFFICES ASSUME NEW q \in Peers
               PROVE  /\ strikes'[q] <= RoundsOf(q)'
                      /\ Holds[q] = Chunks /\ q \notin Cheats => strikes'[q] = 0
                      /\ Holds[q] = {} => strikes'[q] = RoundsOf(q)'
    BY DEF StrikesInv
  <2>1. /\ strikes[q] <= RoundsOf(q)
        /\ Holds[q] = Chunks /\ q \notin Cheats => strikes[q] = 0
        /\ Holds[q] = {} => strikes[q] = RoundsOf(q)
    BY <1>1 DEF StrikesInv
  <2>2. CASE q = p
    <3>1. Holds[q] = Chunks /\ q \notin Cheats => strikes'[q] = strikes[q]
      BY <1>5, <1>6, <1>8, <2>2
    <3>2. Holds[q] = {} => strikes'[q] = strikes[q] + 1
      BY <1>6, <1>8, <2>2
    <3>3. strikes'[q] <= strikes[q] + 1 /\ strikes'[q] \in Nat /\ RoundsOf(q)' = RoundsOf(q) + 1
      BY <1>8, <1>9, <1>10, <2>2
    <3> QED BY <1>10, <2>1, <3>1, <3>2, <3>3
  <2>3. CASE q # p
    BY <1>8, <1>9, <2>1, <2>3
  <2> QED BY <2>2, <2>3
<1>12. RoundsTypeOK'
  <2>1. survivors' \in Seq(Peers)
    <3>1. survivors \in Seq(Peers) /\ p \in Peers
      BY <1>1, <1>2 DEF RoundsTypeOK
    <3>2. Append(survivors, p) \in Seq(Peers)
      BY <3>1, AppendProperties
    <3> QED BY <1>3, <3>1, <3>2
  <2>2. verdict' \in [Peers -> Answers \cup {"pass", "late"}]
    BY <1>1, <1>3, <1>6 DEF RoundsTypeOK, Answers
  <2>3. strikes' \in [Peers -> 0..MaxRounds]
    <3>1. \A q \in Peers : strikes'[q] \in 0..MaxRounds
      <4> TAKE q \in Peers
      <4>1. strikes'[q] <= RoundsOf(q)' /\ RoundsOf(q)' \in Nat
        BY <1>9, <1>10, <1>11 DEF StrikesInv
      <4>2. strikes'[q] \in Nat
        BY <1>8, <1>10
      <4> QED BY <1>1, <1>10, <4>1, <4>2
    <3>2. strikes' = [q \in Peers |-> strikes'[q]]
      BY <1>1, <1>3 DEF RoundsTypeOK
    <3> QED BY <3>1, <3>2
  <2> QED BY <1>1, <1>2, <1>4, <2>1, <2>2, <2>3 DEF RoundsTypeOK
<1>13. Range(survivors') = Range(survivors) \cup {q \in {p} : said = "true"}
  <2>1. survivors \in Seq(Peers) /\ p \in Peers
    BY <1>1, <1>2 DEF RoundsTypeOK
  <2>2. CASE said = "true"
    <3>1. survivors' = Append(survivors, p)
      BY <1>3, <2>2 DEF Accepted
    <3>2. Range(Append(survivors, p)) = Range(survivors) \cup {p}
      BY <2>1, RangeAppend
    <3> QED BY <2>2, <3>1, <3>2
  <2>3. CASE said # "true"
    BY <1>3, <2>3 DEF Accepted
  <2> QED BY <2>2, <2>3
<1>14. GateInv'
  <2>1. /\ Range(survivors) = {q \in Asked : verdict[q] = "true"}
        /\ \A q \in Asked : verdict[q] \in Respond(q)
    BY <1>1, <1>2, <1>5 DEF GateInv
  <2>2. \A q \in Asked' : verdict'[q] \in Respond(q)'
    <3>1. \A q \in Asked : q # p /\ verdict'[q] = verdict[q]
      BY <1>2, <1>7
    <3>2. verdict'[p] \in Respond(p)
      BY <1>2, <1>3, <1>7
    <3>3. \A q \in Asked' : verdict'[q] \in Respond(q)
      BY <1>2, <2>1, <3>1, <3>2
    <3>4. \A q \in Asked' : Respond(q)' = Respond(q)
      BY <1>4 DEF Respond
    <3> QED BY <3>3, <3>4
  <2>3. Range(survivors') = {q \in Asked' : verdict'[q] = "true"}
    <3>1. Asked' = Asked \cup {p} /\ p \notin Asked /\ p \in Peers /\ Asked \subseteq Peers
      BY <1>1, <1>2, <1>5
    <3>2. ASSUME NEW q
          PROVE  q \in Range(survivors') <=> q \in Asked' /\ verdict'[q] = "true"
      <4>1. CASE q = p
        BY <1>7, <1>13, <2>1, <3>1, <4>1
      <4>2. CASE q # p
        <5>1. q \in Asked => verdict'[q] = verdict[q]
          BY <1>7, <3>1, <4>2
        <5> QED BY <1>13, <2>1, <3>1, <4>2, <5>1
      <4> QED BY <4>1, <4>2
    <3> QED BY <3>2
  <2> QED BY <2>2, <2>3 DEF GateInv
<1>15. RoundInv'
  BY <1>1, <1>2, <1>4, <1>5, <1>7 DEF RoundInv
<1>16. NonceInv' /\ WinnerInv'
  BY <1>2, <1>4, <1>5 DEF NonceInv, WinnerInv
<1> QED BY <1>11, <1>12, <1>14, <1>15, <1>16 DEF RoundsInv

\* A nonce round passes whom the bound lets pass, and those hold the chunk.
LEMMA NonceRound ==
  ASSUME RoundsInv, NonceChallenge
  PROVE  RoundsInv'
<1> DEFINE p == Order[asked + 1]
<1>1. /\ RoundsTypeOK /\ RoundInv /\ NonceInv /\ WinnerInv /\ StrikesInv
      /\ MaxRounds \in Nat \ {0} /\ Len(Order) \in Nat
  BY PeersInOrder, PeersAssumption DEF RoundsInv
<1>2. /\ p \in Peers \ Asked /\ Asked' = Asked \cup {p} /\ Asked \subseteq Peers
      /\ asked' \in 0..Len(Order) /\ timed
  BY <1>1, NextIsAsked DEF NonceChallenge, RoundsTypeOK
<1>3. round > 0
  BY <1>1, <1>2 DEF RoundsTypeOK, RoundInv
<1>4. \/ \E l \in Latencies(p) : verdict' = [verdict EXCEPT ![p] = Verdict(l)]
      \/ Latencies(p) = {} /\ verdict' = [verdict EXCEPT ![p] = "no response"]
  BY DEF NonceChallenge
<1>5. UNCHANGED <<round, idx, survivors, strikes, winner, price, timed, died>>
  BY DEF NonceChallenge
<1> HIDE DEF p
<1> DEFINE Outcomes == {"pass", "late", "no response"}
<1>6. \E what \in Outcomes :
        /\ verdict' = [verdict EXCEPT ![p] = what]
        /\ what = "pass" <=> idx \in Holds[p]
  <2>1. CASE idx \in Holds[p]
    <3>1. Latencies(p) = LocalLatency /\ LocalLatency # {}
      BY <2>1, LatencyAssumption DEF Latencies
    <3>2. PICK l \in LocalLatency : verdict' = [verdict EXCEPT ![p] = Verdict(l)]
      BY <1>4, <3>1
    <3>3. l <= Bound
      BY <3>2, LatencyAssumption
    <3> QED BY <2>1, <3>2, <3>3 DEF Verdict
  <2>2. CASE idx \notin Holds[p] /\ idx \in Source[p]
    <3>1. CASE Latencies(p) = {}
      BY <1>4, <2>2, <3>1
    <3>2. CASE Latencies(p) # {}
      <4>1. PICK d \in Latencies(p) : verdict' = [verdict EXCEPT ![p] = Verdict(d)]
        BY <1>4, <3>2
      <4>2. Latencies(p) = {l + h : l \in LocalLatency, h \in RelayLatency}
        BY <2>2 DEF Latencies
      <4>3. PICK l \in LocalLatency, h \in RelayLatency : d = l + h
        BY <4>1, <4>2
      <4>4. ~(d <= Bound)
        BY <4>3, LatencyAssumption
      <4> QED BY <2>2, <4>1, <4>4 DEF Verdict
    <3> QED BY <3>1, <3>2
  <2>3. CASE idx \notin Holds[p] /\ idx \notin Source[p]
    <3>1. Latencies(p) = {}
      BY <2>3 DEF Latencies
    <3> QED BY <1>4, <2>3, <3>1
  <2> QED BY <2>1, <2>2, <2>3
<1>7. PICK what \in Outcomes :
        verdict' = [verdict EXCEPT ![p] = what] /\ (what = "pass" <=> idx \in Holds[p])
  BY <1>6
<1>8. what \in Answers \cup {"pass", "late"} /\ what # None
  BY <1>7, PeersAssumption DEF Answers
<1> HIDE DEF Outcomes
<1>9. \A q \in Peers : verdict'[q] = IF q = p THEN what ELSE verdict[q]
  BY <1>1, <1>2, <1>7 DEF RoundsTypeOK
<1>10. RoundsTypeOK'
  <2>1. verdict' \in [Peers -> Answers \cup {"pass", "late"}]
    BY <1>1, <1>7, <1>8 DEF RoundsTypeOK
  <2> QED BY <1>1, <1>2, <1>5, <2>1 DEF RoundsTypeOK
<1>11. RoundInv'
  <2>1. idx \in Chunks /\ \A q \in Peers \ Asked : verdict[q] = None
    BY <1>3, <1>1 DEF RoundInv
  <2> QED BY <1>3, <1>2, <1>5, <1>9, <2>1 DEF RoundInv
<1>12. NonceInv'
  <2>1. \A q \in Asked : verdict[q] = "pass" <=> idx \in Holds[q]
    BY <1>1, <1>2 DEF NonceInv
  <2>2. \A q \in Asked' : verdict'[q] = "pass" <=> idx \in Holds[q]
    BY <1>2, <1>7, <1>9, <2>1
  <2> QED BY <1>5, <2>2 DEF NonceInv
<1>13. GateInv' /\ WinnerInv'
  BY <1>1, <1>2, <1>5 DEF GateInv, WinnerInv
<1>14. StrikesInv'
  BY <1>1, <1>2, <1>5 DEF StrikesInv, RoundsOf
<1> QED BY <1>10, <1>11, <1>12, <1>13, <1>14 DEF RoundsInv

\* min(bids, key=bids.get) finds somebody, and nobody bid less.
LEMMA CheapestBid ==
  ASSUME survivors \in Seq(Peers), survivors # <<>>,
         NEW bids, \A p \in Range(survivors) : bids[p] \in Nat
  PROVE  /\ Cheapest(bids) \in Range(survivors)
         /\ \A p \in Range(survivors) : bids[Cheapest(bids)] <= bids[p]
<1> DEFINE D == 1..Len(survivors)
           Bids == {bids[survivors[i]] : i \in D}
<1>1. Len(survivors) \in Nat \ {0} /\ DOMAIN survivors = D /\ 1 \in D /\ D \subseteq Nat
  BY LenProperties, EmptySeq
<1>2. Range(survivors) = {survivors[i] : i \in D}
  BY <1>1 DEF Range
<1>3. Bids \subseteq Nat /\ Bids # {}
  BY <1>1, <1>2
<1>4. PICK least \in Bids : \A b \in Bids : least <= b
  BY <1>3, LeastNatural
<1> DEFINE Lowest == {i \in D : bids[survivors[i]] = least}
<1>5. Lowest \subseteq Nat /\ Lowest # {}
  BY <1>1, <1>4
<1>6. PICK first \in Lowest : \A i \in Lowest : first <= i
  <2> HIDE DEF Lowest
  <2> QED BY <1>5, LeastNatural
<1> DEFINE Best(i) == \A k \in D :
             /\ bids[survivors[i]] <= bids[survivors[k]]
             /\ bids[survivors[i]] = bids[survivors[k]] => i <= k
<1>7. first \in D /\ Best(first)
  <2>1. first \in D /\ bids[survivors[first]] = least
    BY <1>6
  <2>2. ASSUME NEW k \in D PROVE /\ least <= bids[survivors[k]]
                                 /\ least = bids[survivors[k]] => first <= k
    BY <1>4, <1>6
  <2> QED BY <2>1, <2>2
<1> DEFINE c == CHOOSE i \in D : Best(i)
<1>8. c \in D /\ Best(c)
  <2> HIDE DEF Best, D
  <2> QED BY <1>7
<1>9. Cheapest(bids) = survivors[c]
  BY <1>1 DEF Cheapest
<1> HIDE DEF c
<1>10. survivors[c] \in Range(survivors)
  BY <1>2, <1>8
<1>11. \A p \in Range(survivors) : bids[survivors[c]] <= bids[p]
  BY <1>2, <1>8
<1> QED BY <1>9, <1>10, <1>11

LEMMA AwardRound ==
  ASSUME RoundsInv, Award
  PROVE  RoundsInv'
<1>1. /\ RoundsTypeOK /\ RoundInv /\ GateInv /\ StrikesInv
  BY DEF RoundsInv
<1>2. /\ ~timed /\ asked = Len(Order) /\ survivors # <<>> /\ survivors \in Seq(Peers)
      /\ UNCHANGED <<round, idx, asked, survivors, strikes, timed, verdict, died>>
  BY <1>1 DEF Award, Over, RoundsTypeOK
<1>3. PICK bids \in [Range(survivors) -> UNION Range(PriceRange)] :
        /\ \A p \in Range(survivors) : bids[p] \in PriceRange[p]
        /\ winner' = Cheapest(bids) /\ price' = bids[winner']
  BY DEF Award
<1>4. Range(survivors) \subseteq Peers
  BY <1>2, LenProperties, ElementOfSeq DEF Range
<1>5. \A p \in Range(survivors) : bids[p] \in Nat /\ bids[p] \in PriceRange[p]
  BY <1>3, <1>4, PeersAssumption
<1>6. /\ winner' \in Range(survivors)
      /\ \A p \in Range(survivors) : price' <= bids[p]
  BY <1>2, <1>3, <1>5, CheapestBid
<1>7. price' \in Nat
  BY <1>3, <1>5, <1>6
<1>8. RoundsTypeOK'
  BY <1>1, <1>2, <1>4, <1>6, <1>7 DEF RoundsTypeOK
<1>9. WinnerInv'
  <2>1. \A p \in Range(survivors) : \E b \in PriceRange[p] : b >= price'
    BY <1>5, <1>6, <1>7
  <2> QED BY <1>2, <1>6, <2>1 DEF WinnerInv
<1>10. Asked' = Asked /\ \A p \in Peers : RoundsOf(p)' = RoundsOf(p)
  BY <1>2 DEF Asked, RoundsOf
<1>11. RoundInv' /\ NonceInv' /\ StrikesInv'
  BY <1>1, <1>2, <1>10 DEF RoundInv, NonceInv, StrikesInv
<1>12. GateInv'
  BY <1>1, <1>2, <1>10 DEF GateInv, Respond
<1> QED BY <1>8, <1>9, <1>11, <1>12 DEF RoundsInv

\* Every round, with or without a nonce, keeps its books: the verdicts are of
\* the peers asked so far, the gate has let in those that answered with the
\* chunk, and the strikes of a peer are bounded by the rounds that asked it.
THEOREM RoundsInvariant == RoundsSpec => []RoundsInv
<1>1. RoundsInit => RoundsInv
  BY RoundsBegin
<1>2. RoundsInv /\ [RoundsNext]_roundsVars => RoundsInv'
  <2> SUFFICES ASSUME RoundsInv, [RoundsNext]_roundsVars PROVE RoundsInv'
    OBVIOUS
  <2>1. CASE Begin
    BY <2>1, BeginRound
  <2>2. CASE Challenge
    BY <2>2, ChallengeRound
  <2>3. CASE Award
    BY <2>3, AwardRound
  <2>4. CASE NonceChallenge
    BY <2>4, NonceRound
  <2>5. CASE SettleRaises \/ UNCHANGED roundsVars
    <3>1. /\ UNCHANGED <<round, idx, asked, survivors, strikes, winner, price, timed, verdict>>
          /\ died' \in BOOLEAN
      BY <2>5 DEF SettleRaises, roundsVars, RoundsInv, RoundsTypeOK
    <3>2. Asked' = Asked /\ \A p \in Peers : RoundsOf(p)' = RoundsOf(p)
      BY <3>1 DEF Asked, RoundsOf
    <3>3. RoundsTypeOK' /\ RoundInv' /\ NonceInv' /\ WinnerInv'
      BY <3>1, <3>2 DEF RoundsInv, RoundsTypeOK, RoundInv, NonceInv, WinnerInv
    <3>4. GateInv' /\ StrikesInv'
      BY <3>1, <3>2 DEF RoundsInv, GateInv, StrikesInv, Respond
    <3> QED BY <3>3, <3>4 DEF RoundsInv
  <2> QED BY <2>1, <2>2, <2>3, <2>4, <2>5 DEF RoundsNext
<1> QED BY <1>1, <1>2, PTL DEF RoundsSpec

\* challenge_round: whoever wins a gated auction holds the chunk and sent it
\* uncorrupted, and an honest holder could have bid as much or more.
THEOREM WinnersHold == RoundsSpec => []WinnerHolds
<1>1. RoundsInv => WinnerHolds
  <2> SUFFICES ASSUME RoundsInv, winner # None, round > 0
               PROVE  /\ idx \in Holds[winner] /\ verdict[winner] = "true"
                      /\ \A p \in Peers \ Cheats : idx \in Holds[p] => \E b \in PriceRange[p] : b >= price
    BY DEF WinnerHolds
  <2>1. /\ ~timed /\ asked = Len(Order) /\ winner \in Range(survivors)
        /\ \A p \in Range(survivors) : \E b \in PriceRange[p] : b >= price
    BY DEF RoundsInv, WinnerInv
  <2>2. /\ Asked = Peers /\ Range(survivors) = {p \in Asked : verdict[p] = "true"}
        /\ \A p \in Asked : verdict[p] \in Respond(p)
    BY <2>1, AllAsked DEF RoundsInv, GateInv
  <2>3. idx \in Holds[winner] /\ verdict[winner] = "true"
    BY <2>1, <2>2 DEF Respond
  <2>4. \A p \in Peers \ Cheats : idx \in Holds[p] => p \in Range(survivors)
    BY <2>2 DEF Respond
  <2> QED BY <2>1, <2>3, <2>4
<1> QED BY <1>1, RoundsInvariant, PTL

\* challenge_round, over all rounds: an honest full holder never gets a strike
\* and is never kept out, and a peer without chunks gets one in every round.
THEOREM TheGateIsFair == RoundsSpec => []GateIsFair
<1>1. RoundsInv => GateIsFair
  <2> DEFINE rounds == IF timed THEN MaxRounds ELSE round
             over   == round > 0 /\ asked = Len(Order) /\ ~timed
  <2> SUFFICES ASSUME RoundsInv, NEW p \in Peers
               PROVE  /\ Holds[p] = Chunks /\ p \notin Cheats =>
                           strikes[p] = 0 /\ (over => p \in Range(survivors))
                      /\ Holds[p] = {} =>
                           /\ rounds - strikes[p] \in {0, 1}
                           /\ over => strikes[p] = rounds /\ p \notin Range(survivors)
    BY DEF GateIsFair
  <2>1. /\ round \in Nat /\ MaxRounds \in Nat
        /\ Holds[p] = Chunks /\ p \notin Cheats => strikes[p] = 0
        /\ Holds[p] = {} => strikes[p] = RoundsOf(p)
    <3>1. MaxRounds \in Nat /\ round \in 0..MaxRounds
      BY PeersAssumption DEF RoundsInv, RoundsTypeOK
    <3> QED BY <3>1 DEF RoundsInv, StrikesInv
  <2>2. ASSUME over
        PROVE  /\ idx \in Chunks /\ Asked = Peers
               /\ Range(survivors) = {q \in Asked : verdict[q] = "true"}
               /\ verdict[p] \in Respond(p)
    <3>1. round > 0 /\ asked = Len(Order) /\ ~timed
      BY <2>2
    <3>2. idx \in Chunks /\ Asked = Peers
      BY <3>1, AllAsked DEF RoundsInv, RoundInv
    <3>3. /\ Range(survivors) = {q \in Asked : verdict[q] = "true"}
          /\ \A q \in Asked : verdict[q] \in Respond(q)
      BY <3>1 DEF RoundsInv, GateInv
    <3> QED BY <3>2, <3>3
  <2>3. ASSUME Holds[p] = Chunks, p \notin Cheats
        PROVE  strikes[p] = 0 /\ (over => p \in Range(survivors))
    BY <2>1, <2>2, <2>3 DEF Respond
  <2>4. ASSUME Holds[p] = {}
        PROVE  /\ rounds - strikes[p] \in {0, 1}
               /\ over => strikes[p] = rounds /\ p \notin Range(survivors)
    <3>1. strikes[p] = rounds \/ strikes[p] = rounds - 1
      BY <2>1, <2>4 DEF RoundsOf
    <3>2. rounds \in Nat
      BY <2>1
    <3>3. over => strikes[p] = rounds
      BY <2>1, <2>2, <2>4 DEF RoundsOf
    <3>4. over => p \notin Range(survivors)
      BY <2>2, <2>4 DEF Respond
    <3> HIDE DEF rounds
    <3> QED BY <3>1, <3>2, <3>3, <3>4
  <2> QED BY <2>3, <2>4
<1> QED BY <1>1, RoundsInvariant, PTL

\* nonce_challenge_round: who passes is who holds the chunk, whatever the
\* latencies, as long as the bound lies between a local and a relayed answer.
THEOREM OnlyHoldersPass == RoundsSpec => []PassersHold
<1>1. RoundsInv => PassersHold
  <2> SUFFICES ASSUME RoundsInv, timed, NEW p \in Peers, verdict[p] # None
               PROVE  verdict[p] = "pass" <=> idx \in Holds[p]
    BY DEF PassersHold
  <2>1. round > 0
    BY DEF RoundsInv, RoundInv, RoundsTypeOK
  <2>2. p \in Asked
    BY <2>1 DEF RoundsInv, RoundInv
  <2> QED BY <2>2 DEF RoundsInv, NonceInv
<1> QED BY <1>1, RoundsInvariant, PTL

(***************************************************************************)
(* The processes of the network challenge.                                 *)
(***************************************************************************)

Connections == Callers \cup {Closed}

LEMMA Processes ==
  /\ NSamples \in Nat \ {0} /\ Upstream \in Servers /\ Relay \in Servers /\ Baseline \in Servers
  /\ Relay \in Callers /\ Verifiers \subseteq Callers /\ Upstream # Relay
  /\ Relay \notin Verifiers /\ Closed \notin Callers /\ "idle" \notin Connections
  /\ Closed # "idle" /\ Closed # Relay
  BY NetworkAssumption DEF Servers, Callers, Connections, Closed

LEMMA TargetsAreServers ==
  /\ DOMAIN Targets = 1..3 * NSamples /\ Len(Targets) = 3 * NSamples
  /\ \A i \in 1..3 * NSamples : Targets[i] \in Servers
<1>1. 3 * NSamples \in Nat
  BY Processes
<1>2. \A i \in 1..3 * NSamples :
        (IF i > 2 * NSamples THEN Baseline ELSE IF i % 2 = 1 THEN Upstream ELSE Relay) \in Servers
  BY Processes
<1>3. DOMAIN Targets = 1..3 * NSamples /\ \A i \in 1..3 * NSamples : Targets[i] \in Servers
  BY <1>2 DEF Targets
<1>4. Targets \in Seq(Servers)
  <2>1. Targets \in [1..3 * NSamples -> Servers]
    BY <1>2 DEF Targets
  <2> QED BY <1>1, <2>1
<1>5. Len(Targets) = 3 * NSamples
  <2>1. Len(Targets) \in Nat /\ DOMAIN Targets = 1..Len(Targets)
    BY <1>4, LenProperties
  <2>2. \A n, m \in Nat : 1..n = 1..m => n = m
    <3> SUFFICES ASSUME NEW n \in Nat, NEW m \in Nat, 1..n = 1..m PROVE n = m
      OBVIOUS
    <3>1. n # 0 => n \in 1..m
      OBVIOUS
    <3>2. m # 0 => m \in 1..n
      OBVIOUS
    <3> QED BY <3>1, <3>2
  <2> QED BY <1>1, <1>3, <2>1, <2>2
<1> QED BY <1>3, <1>5

LEMMA RangeOfTail ==
  ASSUME NEW S, NEW s \in Seq(S), s # <<>>
  PROVE  Range(s) = {Head(s)} \cup Range(Tail(s))
<1>1. /\ Len(s) \in Nat /\ Len(s) >= 1
      /\ Tail(s) \in Seq(S) /\ Len(Tail(s)) = Len(s) - 1
      /\ \A i \in 1..(Len(s) - 1) : Tail(s)[i] = s[i + 1]
      /\ Head(s) = s[1]
  <2>1. Len(s) \in Nat /\ Len(s) # 0
    BY LenProperties, EmptySeq
  <2>2. Tail(s) \in Seq(S) /\ Len(Tail(s)) = Len(s) - 1
    BY HeadTailProperties
  <2>4. Head(s) = s[1]
    OBVIOUS
  <2>3. \A i \in 1..Len(Tail(s)) : Tail(s)[i] = s[i + 1]
    BY HeadTailProperties
  <2> QED BY <2>1, <2>2, <2>3, <2>4
<1>2. Range(s) = {s[i] : i \in 1..Len(s)} /\ Range(Tail(s)) = {Tail(s)[i] : i \in 1..(Len(s) - 1)}
  <2>1. Range(s) = {s[i] : i \in 1..Len(s)}
    BY RangeEquality
  <2>2. Range(Tail(s)) = {Tail(s)[i] : i \in 1..Len(Tail(s))}
    <3>1. Tail(s) \in Seq(S)
      BY <1>1
    <3> QED BY <3>1, RangeEquality
  <2>3. Len(Tail(s)) = Len(s) - 1
    BY <1>1
  <2> QED BY <2>1, <2>2, <2>3
<1>3. ASSUME NEW i \in 1..Len(s) PROVE s[i] = Head(s) \/ s[i] \in Range(Tail(s))
  <2>1. CASE i = 1
    BY <1>1, <2>1
  <2>2. CASE i # 1
    <3>1. i - 1 \in 1..(Len(s) - 1) /\ (i - 1) + 1 = i
      BY <1>1, <2>2
    <3>2. Tail(s)[i - 1] = s[i]
      BY <1>1, <3>1
    <3> QED BY <1>2, <3>1, <3>2
  <2> QED BY <2>1, <2>2
<1>4. \A i \in 1..(Len(s) - 1) : i + 1 \in 1..Len(s)
  BY <1>1
<1>5. 1 \in 1..Len(s)
  BY <1>1
<1>6. Range(Tail(s)) \subseteq Range(s) /\ Head(s) \in Range(s)
  BY <1>1, <1>2, <1>4, <1>5
<1>7. Range(s) \subseteq {Head(s)} \cup Range(Tail(s))
  BY <1>2, <1>3
<1> QED BY <1>6, <1>7

\* A connection that comes in waits at the end of one backlog.
LEMMA Enqueued ==
  ASSUME TypeOK, \A t \in Servers : QueueInv(t), UNCHANGED <<up, serving>>,
         NEW s \in Servers, NEW c \in Connections, up[s] = "up",
         c \in Callers => c \notin CutOff(s),
         backlog' = [backlog EXCEPT ![s] = Append(@, c)]
  PROVE  /\ backlog' \in [Servers -> Seq(Connections)]
         /\ \A t \in Servers : CutOff(t)' = IF t = s THEN CutOff(t) \cup {c} ELSE CutOff(t)
         /\ \A t \in Servers : QueueInv(t)'
<1> DEFINE q == backlog[s]
<1>1. /\ backlog \in [Servers -> Seq(Connections)] /\ q \in Seq(Connections)
  BY DEF TypeOK, Connections
<1>2. /\ Append(q, c) \in Seq(Connections) /\ Len(Append(q, c)) = Len(q) + 1 /\ Len(q) \in Nat
      /\ \A i \in 1..Len(q) : Append(q, c)[i] = q[i]
      /\ Append(q, c)[Len(q) + 1] = c
      /\ DOMAIN q = 1..Len(q) /\ DOMAIN Append(q, c) = 1..(Len(q) + 1)
  BY <1>1, AppendProperties, LenProperties
<1>3. Range(Append(q, c)) = Range(q) \cup {c}
  BY <1>1, RangeAppend
<1>4. \A t \in Servers : backlog'[t] = IF t = s THEN Append(q, c) ELSE backlog[t]
  BY <1>1
<1> HIDE DEF q
<1>5. backlog' \in [Servers -> Seq(Connections)]
  BY <1>1, <1>2 DEF q
<1>6. \A t \in Servers : CutOff(t)' = IF t = s THEN CutOff(t) \cup {c} ELSE CutOff(t)
  BY <1>3, <1>4 DEF CutOff, q
<1>7. \A t \in Servers \ {s} : QueueInv(t)'
  BY <1>4 DEF QueueInv
<1>8. QueueInv(s)'
  <2>1. backlog'[s] = Append(q, c) /\ serving'[s] = serving[s] /\ up'[s] = "up"
    BY <1>4
  <2>2. /\ serving[s] \in Callers => serving[s] \notin Range(q)
        /\ \A i, k \in 1..Len(q) : q[i] = q[k] /\ q[i] \in Callers => i = k
        /\ c \in Callers => c \notin Range(q) /\ c # serving[s]
    BY <1>2 DEF QueueInv, CutOff, q
  <2>3. serving'[s] \in Callers => serving'[s] \notin Range(backlog'[s])
    BY <1>3, <2>1, <2>2
  <2>4. c \in Callers => \A i \in 1..Len(q) : q[i] # c
    BY <1>2, <2>2 DEF Range
  <2>5. ASSUME NEW i \in 1..(Len(q) + 1), NEW k \in 1..(Len(q) + 1),
               Append(q, c)[i] = Append(q, c)[k], Append(q, c)[i] \in Callers
        PROVE  i = k
    <3>1. i \in 1..Len(q) \/ i = Len(q) + 1
      BY <1>2
    <3>2. k \in 1..Len(q) \/ k = Len(q) + 1
      BY <1>2
    <3> QED BY <1>2, <2>2, <2>4, <2>5, <3>1, <3>2
  <2> QED BY <1>2, <2>1, <2>3, <2>5 DEF QueueInv
<1> QED BY <1>5, <1>6, <1>7, <1>8

\* A server that ends an exchange no longer has its caller.
LEMMA Served ==
  ASSUME TypeOK, \A t \in Servers : QueueInv(t), UNCHANGED <<up, backlog>>,
         NEW s \in Servers, serving' = [serving EXCEPT ![s] = "idle"]
  PROVE  /\ \A t \in Servers, c \in Callers :
              c \in CutOff(t)' <=> c \in CutOff(t) /\ ~(t = s /\ c = serving[s])
         /\ \A t \in Servers : QueueInv(t)'
<1>1. \A t \in Servers : serving'[t] = IF t = s THEN "idle" ELSE serving[t]
  BY DEF TypeOK
<1>2. "idle" \notin Callers
  BY Processes DEF Connections
<1>3. \A t \in Servers, c \in Callers :
              c \in CutOff(t)' <=> c \in CutOff(t) /\ ~(t = s /\ c = serving[s])
  BY <1>1, <1>2 DEF CutOff, QueueInv
<1>4. \A t \in Servers : QueueInv(t)'
  BY <1>1, <1>2 DEF QueueInv
<1> QED BY <1>3, <1>4

\* The first of the backlog comes into the server's hands.
LEMMA Accepting ==
  ASSUME TypeOK, \A t \in Servers : QueueInv(t), NEW s \in Servers, Accept(s)
  PROVE  /\ backlog' \in [Servers -> Seq(Connections)]
         /\ serving' \in [Servers -> Connections \cup {"idle"}]
         /\ \A t \in Servers, c \in Callers : c \in CutOff(t)' <=> c \in CutOff(t)
         /\ \A t \in Servers : QueueInv(t)'
<1> DEFINE q == backlog[s]
<1>1. /\ backlog \in [Servers -> Seq(Connections)] /\ q \in Seq(Connections) /\ q # <<>>
      /\ serving \in [Servers -> Connections \cup {"idle"}]
      /\ up[s] = "up" /\ serving[s] = "idle" /\ up' = up
      /\ serving' = [serving EXCEPT ![s] = Head(q)]
      /\ backlog' = [backlog EXCEPT ![s] = Tail(q)]
  BY DEF TypeOK, Connections, Accept
<1>2. /\ Head(q) \in Connections /\ Tail(q) \in Seq(Connections)
      /\ Len(q) \in Nat /\ Len(Tail(q)) = Len(q) - 1
      /\ \A i \in 1..(Len(q) - 1) : Tail(q)[i] = q[i + 1]
      /\ DOMAIN q = 1..Len(q) /\ DOMAIN Tail(q) = 1..(Len(q) - 1) /\ Head(q) = q[1]
      /\ Len(q) # 0
  BY <1>1, HeadTailProperties, LenProperties, EmptySeq
<1>3. Range(q) = {Head(q)} \cup Range(Tail(q))
  BY <1>1, RangeOfTail
<1>4. \A t \in Servers : /\ backlog'[t] = IF t = s THEN Tail(q) ELSE backlog[t]
                         /\ serving'[t] = IF t = s THEN Head(q) ELSE serving[t]
  BY <1>1
<1>5. \A i, k \in 1..Len(q) : q[i] = q[k] /\ q[i] \in Callers => i = k
  BY <1>2 DEF QueueInv
<1> HIDE DEF q
<1>6. backlog' \in [Servers -> Seq(Connections)] /\ serving' \in [Servers -> Connections \cup {"idle"}]
  BY <1>1, <1>2
<1>7. \A t \in Servers, c \in Callers : c \in CutOff(t)' <=> c \in CutOff(t)
  <2> TAKE t \in Servers, c \in Callers
  <2>1. CASE t = s
    <3>1. c # serving[s]
      BY <1>1, Processes DEF Connections
    <3>2. CutOff(s)' = Range(Tail(q)) \cup {Head(q)} /\ CutOff(s) = Range(q) \cup {serving[s]}
      BY <1>4 DEF CutOff, q
    <3> QED BY <1>3, <2>1, <3>1, <3>2
  <2>2. CASE t # s
    BY <1>4, <2>2 DEF CutOff
  <2> QED BY <2>1, <2>2
<1>8. \A t \in Servers \ {s} : QueueInv(t)'
  BY <1>1, <1>4 DEF QueueInv
<1>9. QueueInv(s)'
  <2>1. backlog'[s] = Tail(q) /\ serving'[s] = q[1] /\ up'[s] = "up"
    BY <1>1, <1>2, <1>4
  <2>2. q[1] \in Callers => q[1] \notin Range(Tail(q))
    <3>1. \A i \in 1..(Len(q) - 1) : i + 1 \in 1..Len(q) /\ i + 1 # 1 /\ 1 \in 1..Len(q)
      BY <1>2
    <3>2. \A i \in 1..(Len(q) - 1) : q[1] \in Callers => Tail(q)[i] # q[1]
      BY <1>2, <1>5, <3>1
    <3> QED BY <1>2, <3>2 DEF Range
  <2>3. ASSUME NEW i \in 1..(Len(q) - 1), NEW k \in 1..(Len(q) - 1),
               Tail(q)[i] = Tail(q)[k], Tail(q)[i] \in Callers
        PROVE  i = k
    <3>1. i + 1 \in 1..Len(q) /\ k + 1 \in 1..Len(q)
      BY <1>2
    <3>2. i + 1 = k + 1
      BY <1>2, <1>5, <2>3, <3>1
    <3> QED BY <3>2
  <2> QED BY <1>2, <2>1, <2>2, <2>3 DEF QueueInv
<1> QED BY <1>6, <1>7, <1>8, <1>9

\* A server's end leaves the other callers where they are: a request of the
\* relay that the relay's end cuts off before it was sent is the exception.
LEMMA Ending ==
  ASSUME TypeOK, \A t \in Servers : QueueInv(t), NEW s \in Servers,
         NEW how \in {"killed", "crashed"}, NEW last \in {"eof", "reset"}, End(s, how, last)
  PROVE  /\ TypeOK'
         /\ \A t \in Servers, v \in Verifiers : v \in CutOff(t)' <=> v \in CutOff(t) /\ t # s
         /\ \A t \in Servers : Relay \in CutOff(t)' => Relay \in CutOff(t) /\ t # s
         /\ s # Relay => \A t \in Servers : Relay \in CutOff(t)' <=> Relay \in CutOff(t) /\ t # s
         /\ \A c \in Callers : IF c \in CutOff(s) THEN answer'[c] # "none" ELSE answer'[c] = answer[c]
         /\ \A t \in Servers : up'[t] = IF t = s THEN how ELSE up[t]
         /\ got' = IF s = Relay THEN "no" ELSE got
         /\ UNCHANGED verifiers
         /\ \A t \in Servers : QueueInv(t)'
<1> DEFINE lost == s = Relay /\ ~sent[Relay]
           rest(c) == IF s = Relay /\ c = Relay /\ ~sent[Relay] THEN Closed ELSE c
<1>1. /\ up' = [up EXCEPT ![s] = how]
      /\ backlog' = [t \in Servers |-> IF t = s THEN <<>>
                       ELSE [i \in DOMAIN backlog[t] |-> rest(backlog[t][i])]]
      /\ serving' = [t \in Servers |-> IF t = s THEN "idle" ELSE rest(serving[t])]
      /\ got' = IF s = Relay THEN "no" ELSE got
      /\ answer' = [c \in Callers |-> IF c \notin CutOff(s) THEN answer[c]
                                      ELSE IF c = serving[s] THEN last ELSE "reset"]
      /\ UNCHANGED <<sent, verifiers>>
  BY DEF End, Hangup
<1>2. /\ backlog \in [Servers -> Seq(Connections)]
      /\ serving \in [Servers -> Connections \cup {"idle"}]
      /\ \A c \in Connections : rest(c) \in Connections
      /\ rest("idle") = "idle"
      /\ \A c \in Callers, d \in Connections \cup {"idle"} : rest(d) = c => d = c
      /\ \A v \in Verifiers : rest(v) = v
      /\ s # Relay => rest(Relay) = Relay
  BY Processes DEF TypeOK, Connections
<1> HIDE DEF rest
<1>3. /\ \A t \in Servers : up'[t] = IF t = s THEN how ELSE up[t]
      /\ backlog'[s] = <<>> /\ serving'[s] = "idle"
      /\ \A t \in Servers \ {s} : /\ DOMAIN backlog'[t] = DOMAIN backlog[t]
                                  /\ \A i \in DOMAIN backlog[t] : backlog'[t][i] = rest(backlog[t][i])
                                  /\ serving'[t] = rest(serving[t])
  BY <1>1 DEF TypeOK
<1>4. \A t \in Servers : \A i \in DOMAIN backlog[t] : backlog[t][i] \in Connections
  BY <1>2, LenProperties, ElementOfSeq
<1>5. \A t \in Servers \ {s} : backlog'[t] \in Seq(Connections)
  <2> TAKE t \in Servers \ {s}
  <2>1. backlog[t] \in Seq(Connections) /\ Len(backlog[t]) \in Nat /\ DOMAIN backlog[t] = 1..Len(backlog[t])
    BY <1>2, LenProperties
  <2>2. backlog'[t] = [i \in 1..Len(backlog[t]) |-> rest(backlog[t][i])]
    BY <1>1, <2>1
  <2>3. \A i \in 1..Len(backlog[t]) : rest(backlog[t][i]) \in Connections
    BY <1>2, <1>4, <2>1
  <2>4. backlog'[t] \in [1..Len(backlog[t]) -> Connections]
    BY <2>2, <2>3
  <2> QED BY <2>1, <2>4
<1>6. TypeOK'
  <2>1. up' \in [Servers -> {"starting", "up", "killed", "crashed"}]
    BY <1>1 DEF TypeOK
  <2>2. backlog' \in [Servers -> Seq(Callers \cup {Closed})]
    <3>0. backlog'[s] \in Seq(Connections)
      BY <1>3, EmptySeq
    <3>1. \A t \in Servers : backlog'[t] \in Seq(Connections)
      BY <1>5, <3>0
    <3>2. backlog' = [t \in Servers |-> backlog'[t]]
      BY <1>1
    <3> QED BY <3>1, <3>2 DEF Connections
  <2>3. serving' \in [Servers -> Callers \cup {Closed, "idle"}]
    <3>1. \A t \in Servers : serving'[t] \in Connections \cup {"idle"}
      BY <1>2, <1>3
    <3>2. serving' = [t \in Servers |-> serving'[t]]
      BY <1>1
    <3> QED BY <3>1, <3>2 DEF Connections
  <2>4. answer' \in [Callers -> {"none", "hash", "data", "eof", "reset"}]
    BY <1>1 DEF TypeOK
  <2> QED BY <1>1, <2>1, <2>2, <2>3, <2>4 DEF TypeOK, verifiers
<1>7. ASSUME NEW t \in Servers \ {s}, NEW c \in Callers, c \in CutOff(t)'
      PROVE  c \in CutOff(t)
  <2>1. CASE c = serving'[t]
    BY <1>2, <1>3, <2>1 DEF CutOff
  <2>2. CASE c \in Range(backlog'[t])
    <3>1. PICK i \in DOMAIN backlog[t] : c = rest(backlog[t][i])
      BY <1>3, <2>2 DEF Range
    <3>2. c = backlog[t][i]
      BY <1>2, <1>4, <3>1
    <3> QED BY <3>2 DEF CutOff, Range
  <2> QED BY <1>7, <2>1, <2>2 DEF CutOff
<1>8. ASSUME NEW t \in Servers \ {s}, NEW c \in Callers, rest(c) = c, c \in CutOff(t)
      PROVE  c \in CutOff(t)'
  <2>1. CASE c = serving[t]
    BY <1>3, <1>8, <2>1 DEF CutOff
  <2>2. CASE c \in Range(backlog[t])
    <3>1. PICK i \in DOMAIN backlog[t] : c = backlog[t][i]
      BY <2>2 DEF Range
    <3>2. backlog'[t][i] = c
      BY <1>3, <1>8, <3>1
    <3>3. c \in Range(backlog'[t])
      BY <1>3, <3>1, <3>2 DEF Range
    <3> QED BY <3>3 DEF CutOff
  <2> QED BY <1>8, <2>1, <2>2 DEF CutOff
<1>9. \A c \in Callers : c \notin CutOff(s)'
  <2>1. Range(backlog'[s]) = {}
    BY <1>3 DEF Range
  <2> QED BY <1>3, <2>1, Processes DEF CutOff, Connections
<1>10. \A c \in Callers : IF c \in CutOff(s) THEN answer'[c] # "none" ELSE answer'[c] = answer[c]
  BY <1>1
<1>11. \A t \in Servers \ {s} : QueueInv(t)'
  <2> TAKE t \in Servers \ {s}
  <2>1. up'[t] # "up" => backlog'[t] = <<>> /\ serving'[t] = "idle"
    <3> SUFFICES ASSUME up'[t] # "up" PROVE backlog'[t] = <<>> /\ serving'[t] = "idle"
      OBVIOUS
    <3>1. backlog[t] = <<>> /\ serving[t] = "idle"
      BY <1>3 DEF QueueInv
    <3>2. serving'[t] = "idle"
      BY <1>2, <1>3, <3>1
    <3>3. backlog'[t] = [i \in DOMAIN backlog[t] |-> rest(backlog[t][i])]
      BY <1>1
    <3>4. backlog'[t] = <<>>
      BY <3>1, <3>3
    <3> QED BY <3>2, <3>4
  <2>2. serving'[t] \in Callers => serving'[t] \notin Range(backlog'[t])
    <3> SUFFICES ASSUME serving'[t] \in Callers, serving'[t] \in Range(backlog'[t]) PROVE FALSE
      OBVIOUS
    <3>1. serving[t] = serving'[t]
      BY <1>2, <1>3
    <3>2. PICK i \in DOMAIN backlog[t] : serving'[t] = rest(backlog[t][i])
      BY <1>3 DEF Range
    <3>3. serving[t] = backlog[t][i]
      BY <1>2, <1>4, <3>1, <3>2
    <3> QED BY <3>1, <3>3 DEF QueueInv, Range
  <2>3. \A i, k \in DOMAIN backlog'[t] :
          backlog'[t][i] = backlog'[t][k] /\ backlog'[t][i] \in Callers => i = k
    <3> TAKE i, k \in DOMAIN backlog'[t]
    <3> SUFFICES ASSUME backlog'[t][i] = backlog'[t][k], backlog'[t][i] \in Callers PROVE i = k
      OBVIOUS
    <3>1. backlog[t][i] = backlog'[t][i] /\ backlog[t][k] = backlog'[t][i]
      BY <1>2, <1>3, <1>4
    <3> QED BY <1>3, <3>1 DEF QueueInv
  <2> QED BY <2>1, <2>2, <2>3 DEF QueueInv
<1>12. QueueInv(s)'
  <2>1. DOMAIN backlog'[s] = {}
    BY <1>3
  <2> QED BY <1>3, <2>1, Processes DEF QueueInv, Connections
<1>13. \A t \in Servers, v \in Verifiers : v \in CutOff(t)' <=> v \in CutOff(t) /\ t # s
  BY <1>2, <1>7, <1>8, <1>9, Processes
<1>14. \A t \in Servers : Relay \in CutOff(t)' => Relay \in CutOff(t) /\ t # s
  BY <1>7, <1>9, Processes
<1>15. s # Relay => \A t \in Servers : Relay \in CutOff(t)' <=> Relay \in CutOff(t) /\ t # s
  BY <1>2, <1>8, <1>14, Processes
<1> QED BY <1>1, <1>3, <1>6, <1>10, <1>11, <1>12, <1>13, <1>14, <1>15

\* Invariants of calls whose callers and queues a step leaves alone.
LEMMA CallKept ==
  ASSUME NEW v \in Verifiers, CallInv(v),
         pc'[v] = pc[v], step'[v] = step[v], answer'[v] = answer[v],
         \A s \in Servers : v \in CutOff(s)' <=> v \in CutOff(s)
  PROVE  CallInv(v)'
<1>1. Places(v)' = Places(v)
  BY DEF Places
<1>2. Waits(v)' <=> Waits(v)
  BY DEF Waits
<1>3. Targets' = Targets
  BY DEF Targets
<1> QED BY <1>1, <1>2, <1>3 DEF CallInv

LEMMA RelayKept ==
  ASSUME RelayInv, up'[Relay] = up[Relay], got' = got, answer'[Relay] = answer[Relay],
         \A s \in Servers : Relay \in CutOff(s)' <=> Relay \in CutOff(s)
  PROVE  RelayInv'
<1>1. Places(Relay)' = Places(Relay)
  BY DEF Places
<1> QED BY <1>1 DEF RelayInv

LEMMA QueuesKept ==
  ASSUME UNCHANGED <<backlog, serving>>
  PROVE  /\ \A s \in Servers : CutOff(s)' = CutOff(s)
         /\ \A s \in Servers : QueueInv(s) /\ up'[s] = up[s] => QueueInv(s)'
<1>1. \A s \in Servers : CutOff(s)' = CutOff(s)
  BY DEF CutOff
<1>2. \A s \in Servers : QueueInv(s) /\ up'[s] = up[s] => QueueInv(s)'
  BY DEF QueueInv
<1> QED BY <1>1, <1>2

\* A verifier's own steps touch no call but its own and leave every queue alone.
LEMMA OwnStep ==
  ASSUME NetworkInv, NEW v \in Verifiers, UNCHANGED <<servers, answer>>,
         TypeOK', CallInv(v)',
         \A w \in Verifiers \ {v} : pc'[w] = pc[w] /\ step'[w] = step[w]
  PROVE  NetworkInv'
<1>1. UNCHANGED <<up, backlog, serving, got, answer>>
  BY DEF servers
<1>2. \A s \in Servers : CutOff(s)' = CutOff(s) /\ QueueInv(s)'
  BY <1>1, QueuesKept DEF NetworkInv
<1>3. RelayInv'
  BY <1>1, <1>2, RelayKept DEF NetworkInv
<1>4. \A w \in Verifiers : CallInv(w)'
  BY <1>1, <1>2, CallKept DEF NetworkInv
<1> QED BY <1>2, <1>3, <1>4 DEF NetworkInv

LEMMA NetworkBegins == Init => NetworkInv
<1> SUFFICES ASSUME Init PROVE NetworkInv
  OBVIOUS
<1>1. /\ up = [s \in Servers |-> "starting"]
      /\ backlog = [s \in Servers |-> <<>>]
      /\ serving = [s \in Servers |-> "idle"]
      /\ sent = [c \in Callers |-> FALSE]
      /\ answer = [c \in Callers |-> "none"]
      /\ got = "no"
      /\ pc = [v \in Verifiers |-> "wait"]
      /\ step = [v \in Verifiers |-> 1]
      /\ samples = [v \in Verifiers |-> <<>>]
  BY DEF Init
<1>2. TypeOK
  <2>1. 1 \in 1..3 * NSamples + 1
    BY Processes
  <2>2. step \in [Verifiers -> 1..3 * NSamples + 1]
    BY <1>1, <2>1
  <2>3. backlog \in [Servers -> Seq(Callers \cup {Closed})]
    BY <1>1, EmptySeq
  <2>4. samples \in [Verifiers -> Seq(BOOLEAN)]
    BY <1>1, EmptySeq
  <2> QED BY <1>1, <2>2, <2>3, <2>4 DEF TypeOK
<1>3. \A s \in Servers : Range(backlog[s]) = {} /\ DOMAIN backlog[s] = {} /\ serving[s] = "idle" /\ up[s] # "up"
  BY <1>1 DEF Range
<1>4. \A s \in Servers : QueueInv(s)
  BY <1>1, <1>3, Processes DEF QueueInv, Connections
<1>5. \A c \in Callers : Places(c) = {}
  BY <1>3, Processes DEF Places, CutOff, Connections
<1>6. RelayInv
  BY <1>1, <1>5, Processes DEF RelayInv
<1>7. \A v \in Verifiers : CallInv(v)
  BY <1>1, <1>5, Processes DEF CallInv, Waits
<1> QED BY <1>2, <1>4, <1>6, <1>7 DEF NetworkInv

\* Waiting for the ports, asking a server that has the connection, taking its
\* answer and reporting are the verifier's own business.
LEMMA VerifierAlone ==
  ASSUME NetworkInv, NEW v \in Verifiers,
         GiveUp(v) \/ AllUp(v) \/ Send(v) \/ Receive(v) \/ Report(v)
  PROVE  NetworkInv'
<1>1. TypeOK /\ CallInv(v) /\ NSamples \in Nat \ {0} /\ v \in Callers
  BY Processes DEF NetworkInv
<1>2. /\ pc \in [Verifiers -> {"wait", "ready", "connected", "asked", "gave up", "crashed", "reported"}]
      /\ step \in [Verifiers -> 1..3 * NSamples + 1]
      /\ sent \in [Callers -> BOOLEAN]
      /\ samples \in [Verifiers -> Seq(BOOLEAN)]
  BY <1>1 DEF TypeOK
<1>3. UNCHANGED <<servers, answer>>
  BY DEF GiveUp, AllUp, Send, Receive, Report
<1>4. UNCHANGED <<up, backlog, serving, got, answer>> /\ Targets' = Targets
  BY <1>3 DEF servers, Targets
<1>5. Places(v)' = Places(v)
  BY <1>4 DEF Places, CutOff
<1>6. 1 \in 1..3 * NSamples + 1 /\ DOMAIN Targets = 1..3 * NSamples /\ Len(Targets) = 3 * NSamples
  BY <1>1, TargetsAreServers
<1>7. CASE GiveUp(v) \/ Report(v)
  <2>1. \E where \in {"gave up", "reported"} : pc' = [pc EXCEPT ![v] = where]
    BY <1>7 DEF GiveUp, Report, Go
  <2>2. pc[v] \in {"wait", "ready"} /\ UNCHANGED <<step, samples, sent>>
    BY <1>7 DEF GiveUp, Report, At
  <2>3. TypeOK'
    <3>1. pc' \in [Verifiers -> {"wait", "ready", "connected", "asked", "gave up", "crashed", "reported"}]
      BY <1>2, <2>1
    <3> QED BY <1>1, <1>4, <2>2, <3>1 DEF TypeOK
  <2>4. CallInv(v)'
    BY <1>1, <1>2, <1>5, <2>1, <2>2 DEF CallInv, Waits
  <2> QED BY <1>2, <1>3, <2>1, <2>2, <2>3, <2>4, OwnStep
<1>8. CASE AllUp(v)
  <2>1. /\ pc' = [pc EXCEPT ![v] = "ready"] /\ step' = [step EXCEPT ![v] = 1]
        /\ pc[v] = "wait" /\ UNCHANGED <<samples, sent>>
    BY <1>8 DEF AllUp, Go, At
  <2>2. step' \in [Verifiers -> 1..3 * NSamples + 1]
    BY <1>2, <1>6, <2>1
  <2>3. TypeOK'
    BY <1>1, <1>4, <2>1, <2>2 DEF TypeOK
  <2>4. CallInv(v)'
    BY <1>1, <1>2, <1>5, <2>1 DEF CallInv, Waits
  <2> QED BY <1>2, <1>3, <2>1, <2>3, <2>4, OwnStep
<1>9. CASE Send(v)
  <2>1. /\ pc' = [pc EXCEPT ![v] = "asked"] /\ sent' = [sent EXCEPT ![v] = TRUE]
        /\ pc[v] = "connected" /\ UNCHANGED <<samples, step>>
    BY <1>9 DEF Send, Go, At
  <2>2. TypeOK'
    BY <1>1, <1>4, <2>1 DEF TypeOK
  <2>3. CallInv(v)'
    BY <1>1, <1>2, <1>4, <1>5, <2>1 DEF CallInv, Waits
  <2> QED BY <1>2, <1>3, <2>1, <2>2, <2>3, OwnStep
<1>10. CASE Receive(v)
  <2>1. pc[v] = "asked" /\ answer[v] # "none" /\ sent' = sent
    BY <1>10 DEF Receive, At
  <2>2. step[v] \in 1..3 * NSamples /\ step[v] + 1 \in 1..3 * NSamples + 1
    BY <1>1, <1>6, <2>1 DEF CallInv
  <2>3. \/ pc' = [pc EXCEPT ![v] = "crashed"] /\ UNCHANGED <<step, samples>>
        \/ /\ pc' = [pc EXCEPT ![v] = "ready"] /\ step' = [step EXCEPT ![v] = @ + 1]
           /\ samples' = [samples EXCEPT ![v] = Append(@, answer[v] = "hash")]
    BY <1>10 DEF Receive, Go
  <2>4. samples' \in [Verifiers -> Seq(BOOLEAN)]
    <3>1. (answer[v] = "hash") \in BOOLEAN /\ samples[v] \in Seq(BOOLEAN)
      BY <1>2
    <3>2. Append(samples[v], answer[v] = "hash") \in Seq(BOOLEAN)
      BY <3>1, AppendProperties
    <3> QED BY <1>2, <2>3, <3>2
  <2>5. step' \in [Verifiers -> 1..3 * NSamples + 1]
    BY <1>2, <2>2, <2>3
  <2>6. TypeOK'
    <3>1. pc' \in [Verifiers -> {"wait", "ready", "connected", "asked", "gave up", "crashed", "reported"}]
      BY <1>2, <2>3
    <3> QED BY <1>1, <1>4, <2>1, <2>4, <2>5, <3>1 DEF TypeOK
  <2>7. CallInv(v)'
    BY <1>1, <1>2, <1>5, <2>1, <2>3 DEF CallInv, Waits
  <2> QED BY <1>2, <1>3, <2>3, <2>6, <2>7, OwnStep
<1> QED BY <1>7, <1>8, <1>9, <1>10

\* A probe of wait_for_port is a connection that nobody waits on.
LEMMA ProbeKeeps ==
  ASSUME NetworkInv, NEW v \in Verifiers, Probe(v)
  PROVE  NetworkInv'
<1> DEFINE s == Ports[step[v]]
<1>1. TypeOK /\ NSamples \in Nat \ {0} /\ \A t \in Servers : QueueInv(t)
  BY Processes DEF NetworkInv
<1>2. /\ pc[v] = "wait" /\ step[v] \in Nat /\ step[v] \in {1, 2, 3} /\ up[s] = "up"
      /\ backlog' = [backlog EXCEPT ![s] = Append(@, Closed)]
      /\ step' = [step EXCEPT ![v] = @ + 1]
      /\ UNCHANGED <<up, serving, got, sent, answer, pc, samples>>
  <2>1. step[v] \in 1..3 * NSamples + 1 /\ step[v] <= 3
    BY <1>1 DEF Probe, TypeOK, Ports
  <2>2. step[v] \in {1, 2, 3}
    BY <1>1, <2>1
  <2> QED BY <2>2 DEF Probe, At
<1>3. s \in Servers /\ Closed \in Connections /\ Closed \notin Callers
  BY <1>2, Processes DEF Ports, Connections
<1> HIDE DEF s
<1>4. /\ backlog' \in [Servers -> Seq(Connections)]
      /\ \A t \in Servers : CutOff(t)' = IF t = s THEN CutOff(t) \cup {Closed} ELSE CutOff(t)
      /\ \A t \in Servers : QueueInv(t)'
  BY <1>1, <1>2, <1>3, Enqueued
<1>5. \A c \in Callers, t \in Servers : c \in CutOff(t)' <=> c \in CutOff(t)
  BY <1>3, <1>4
<1>6. step' \in [Verifiers -> 1..3 * NSamples + 1]
  <2>1. step[v] + 1 \in 1..3 * NSamples + 1
    BY <1>1, <1>2
  <2> QED BY <1>1, <1>2, <2>1 DEF TypeOK
<1>7. TypeOK'
  BY <1>1, <1>2, <1>4, <1>6 DEF TypeOK, Connections
<1>8. RelayInv'
  BY <1>2, <1>5, Processes, RelayKept DEF NetworkInv
<1>9. \A w \in Verifiers \ {v} : CallInv(w)'
  <2>1. \A w \in Verifiers \ {v} : step'[w] = step[w]
    BY <1>1, <1>2 DEF TypeOK
  <2> QED BY <1>2, <1>5, <2>1, Processes, CallKept DEF NetworkInv
<1>10. CallInv(v)'
  <2>1. Places(v)' = Places(v)
    BY <1>5, Processes DEF Places
  <2>2. Places(v) = {}
    BY <1>2 DEF NetworkInv, CallInv, Waits
  <2> QED BY <1>2, <2>1, <2>2 DEF CallInv, Waits
<1> QED BY <1>4, <1>7, <1>8, <1>9, <1>10 DEF NetworkInv

\* A challenge that connects waits with the target and with nobody else.
LEMMA ConnectKeeps ==
  ASSUME NetworkInv, NEW v \in Verifiers, Connect(v)
  PROVE  NetworkInv'
<1> DEFINE s == Targets[step[v]]
<1>1. /\ TypeOK /\ NSamples \in Nat \ {0} /\ (\A t \in Servers : QueueInv(t)) /\ CallInv(v)
      /\ DOMAIN Targets = 1..3 * NSamples /\ Len(Targets) = 3 * NSamples
      /\ v \in Callers /\ v # Relay /\ Verifiers \subseteq Callers
  BY Processes, TargetsAreServers DEF NetworkInv
<1>2. pc[v] = "ready" /\ step[v] \in 1..3 * NSamples /\ UNCHANGED <<up, serving, got, step, samples>>
  <2>1. /\ pc[v] = "ready" /\ step[v] <= 3 * NSamples
        /\ UNCHANGED <<up, serving, got, step, samples>>
    BY <1>1 DEF Connect, At
  <2>2. step[v] \in 1..3 * NSamples + 1
    BY <1>1 DEF TypeOK
  <2>3. step[v] \in 1..3 * NSamples
    BY <1>1, <2>1, <2>2
  <2> QED BY <2>1, <2>3
<1>3. s \in Servers /\ Targets' = Targets
  BY <1>2, TargetsAreServers DEF Targets
<1>4. \/ up[s] = "up" /\ Enqueue(v, s) /\ Go(v, "connected")
      \/ up[s] # "up" /\ Go(v, "crashed") /\ UNCHANGED <<backlog, sent, answer>>
  BY DEF Connect
<1> HIDE DEF s
<1>5. Places(v) = {}
  BY <1>1, <1>2 DEF CallInv, Waits
<1>6. CASE up[s] = "up" /\ Enqueue(v, s) /\ Go(v, "connected")
  <2>1. /\ backlog' = [backlog EXCEPT ![s] = Append(@, v)]
        /\ answer' = [answer EXCEPT ![v] = "none"] /\ sent' = [sent EXCEPT ![v] = FALSE]
        /\ pc' = [pc EXCEPT ![v] = "connected"]
    BY <1>6 DEF Enqueue, Go
  <2>2. v \notin CutOff(s) /\ v \in Connections
    BY <1>1, <1>3, <1>5 DEF Places, Connections
  <2>3. /\ backlog' \in [Servers -> Seq(Connections)]
        /\ \A t \in Servers : CutOff(t)' = IF t = s THEN CutOff(t) \cup {v} ELSE CutOff(t)
        /\ \A t \in Servers : QueueInv(t)'
    BY <1>1, <1>2, <1>3, <1>6, <2>1, <2>2, Enqueued
  <2>4. TypeOK'
    BY <1>1, <1>2, <2>1, <2>3 DEF TypeOK, Connections
  <2>5. \A c \in Callers \ {v}, t \in Servers : c \in CutOff(t)' <=> c \in CutOff(t)
    BY <2>3
  <2>6. \A c \in Callers \ {v} : answer'[c] = answer[c]
    BY <1>1, <2>1 DEF TypeOK
  <2>7. RelayInv'
    BY <1>1, <1>2, <2>5, <2>6, Processes, RelayKept DEF NetworkInv
  <2>8. \A w \in Verifiers \ {v} : CallInv(w)'
    <3>1. \A w \in Verifiers \ {v} : pc'[w] = pc[w] /\ step'[w] = step[w]
      BY <1>1, <1>2, <2>1 DEF TypeOK
    <3> QED BY <1>1, <2>5, <2>6, <3>1, CallKept DEF NetworkInv
  <2>9. CallInv(v)'
    <3>1. pc'[v] = "connected" /\ answer'[v] = "none" /\ step'[v] = step[v]
      BY <1>1, <1>2, <2>1 DEF TypeOK
    <3>2. Places(v)' = {s}
      BY <1>3, <1>5, <2>3 DEF Places
    <3>3. s = Targets'[step'[v]]
      BY <1>3, <3>1 DEF s
    <3> QED BY <1>1, <1>2, <1>3, <3>1, <3>2, <3>3 DEF CallInv, Waits
  <2> QED BY <2>3, <2>4, <2>7, <2>8, <2>9 DEF NetworkInv
<1>7. CASE up[s] # "up" /\ Go(v, "crashed") /\ UNCHANGED <<backlog, sent, answer>>
  <2>1. pc' = [pc EXCEPT ![v] = "crashed"]
    BY <1>7 DEF Go
  <2>2. TypeOK'
    BY <1>1, <1>2, <1>7, <2>1 DEF TypeOK
  <2>3. Places(v)' = Places(v)
    BY <1>2, <1>7 DEF Places, CutOff
  <2>4. CallInv(v)'
    BY <1>1, <1>5, <2>1, <2>3 DEF CallInv, Waits, TypeOK
  <2>5. UNCHANGED <<servers, answer>>
    BY <1>2, <1>7 DEF servers
  <2>6. \A w \in Verifiers \ {v} : pc'[w] = pc[w] /\ step'[w] = step[w]
    BY <1>1, <1>2, <2>1 DEF TypeOK
  <2> QED BY <2>2, <2>4, <2>5, <2>6, OwnStep
<1> QED BY <1>4, <1>6, <1>7

\* Servers: a port that opens, a connection accepted, one that sent nothing.
LEMMA ServerKeeps ==
  ASSUME NetworkInv, NEW s \in Servers, Listen(s) \/ Accept(s) \/ EmptyLine(s)
  PROVE  NetworkInv'
<1>1. TypeOK /\ (\A t \in Servers : QueueInv(t)) /\ RelayInv /\ Verifiers \subseteq Callers
  BY Processes DEF NetworkInv
<1>2. UNCHANGED <<got, sent, answer, pc, step, samples>>
  BY DEF Listen, Accept, EmptyLine, verifiers
<1>3. CASE Listen(s)
  <2>1. up[s] = "starting" /\ up' = [up EXCEPT ![s] = "up"] /\ UNCHANGED <<backlog, serving>>
    BY <1>3 DEF Listen
  <2>2. \A t \in Servers : CutOff(t)' = CutOff(t)
    BY <2>1, QueuesKept
  <2>3. TypeOK'
    BY <1>1, <1>2, <2>1 DEF TypeOK
  <2>4. \A t \in Servers : QueueInv(t)'
    BY <1>1, <2>1 DEF QueueInv, TypeOK
  <2>5. Places(Relay)' = Places(Relay)
    BY <2>2 DEF Places
  <2>6. RelayInv'
    <3>1. s # Relay => up'[Relay] = up[Relay]
      BY <1>1, <2>1, Processes DEF TypeOK
    <3>2. s = Relay => up[Relay] = "starting" /\ up'[Relay] = "up"
      BY <1>1, <2>1, Processes DEF TypeOK
    <3> QED BY <1>1, <1>2, <2>5, <3>1, <3>2 DEF RelayInv
  <2>7. \A v \in Verifiers : CallInv(v)'
    BY <1>2, <2>2, CallKept DEF NetworkInv
  <2> QED BY <2>3, <2>4, <2>6, <2>7 DEF NetworkInv
<1>4. CASE Accept(s)
  <2>1. /\ backlog' \in [Servers -> Seq(Connections)]
        /\ serving' \in [Servers -> Connections \cup {"idle"}]
        /\ \A t \in Servers, c \in Callers : c \in CutOff(t)' <=> c \in CutOff(t)
        /\ \A t \in Servers : QueueInv(t)'
    BY <1>1, <1>4, Accepting
  <2>2. up' = up
    BY <1>4 DEF Accept
  <2>3. TypeOK'
    BY <1>1, <1>2, <2>1, <2>2 DEF TypeOK, Connections
  <2>4. RelayInv'
    BY <1>1, <1>2, <2>1, <2>2, Processes, RelayKept
  <2>5. \A v \in Verifiers : CallInv(v)'
    BY <1>1, <1>2, <2>1, CallKept DEF NetworkInv
  <2> QED BY <2>1, <2>3, <2>4, <2>5 DEF NetworkInv
<1>5. CASE EmptyLine(s)
  <2>1. serving[s] = Closed /\ serving' = [serving EXCEPT ![s] = "idle"] /\ UNCHANGED <<up, backlog>>
    BY <1>5 DEF EmptyLine
  <2>2. /\ \A t \in Servers, c \in Callers : c \in CutOff(t)' <=> c \in CutOff(t)
        /\ \A t \in Servers : QueueInv(t)'
    BY <1>1, <2>1, Served, Processes
  <2>3. TypeOK'
    BY <1>1, <1>2, <2>1 DEF TypeOK
  <2>4. RelayInv'
    BY <1>1, <1>2, <2>1, <2>2, Processes, RelayKept
  <2>5. \A v \in Verifiers : CallInv(v)'
    BY <1>1, <1>2, <2>2, CallKept DEF NetworkInv
  <2> QED BY <2>2, <2>3, <2>4, <2>5 DEF NetworkInv
<1> QED BY <1>3, <1>4, <1>5

\* A server's end gives every caller that it had an answer, of whatever kind.
LEMMA EndKeeps ==
  ASSUME NetworkInv, NEW s \in Servers,
         NEW how \in {"killed", "crashed"}, NEW last \in {"eof", "reset"}, End(s, how, last)
  PROVE  NetworkInv'
<1>1. /\ TypeOK /\ (\A t \in Servers : QueueInv(t)) /\ RelayInv
      /\ Verifiers \subseteq Callers /\ Relay \in Callers /\ Relay \in Servers
      /\ Upstream \in Servers /\ Upstream # Relay
  BY Processes DEF NetworkInv
<1>2. /\ TypeOK'
      /\ \A t \in Servers, v \in Verifiers : v \in CutOff(t)' <=> v \in CutOff(t) /\ t # s
      /\ \A t \in Servers : Relay \in CutOff(t)' => Relay \in CutOff(t) /\ t # s
      /\ s # Relay => \A t \in Servers : Relay \in CutOff(t)' <=> Relay \in CutOff(t) /\ t # s
      /\ \A c \in Callers : IF c \in CutOff(s) THEN answer'[c] # "none" ELSE answer'[c] = answer[c]
      /\ \A t \in Servers : up'[t] = IF t = s THEN how ELSE up[t]
      /\ got' = IF s = Relay THEN "no" ELSE got
      /\ UNCHANGED verifiers
      /\ \A t \in Servers : QueueInv(t)'
  BY <1>1, Ending
<1>3. UNCHANGED <<pc, step, samples>> /\ Targets' = Targets
  BY <1>2 DEF verifiers, Targets
<1>4. ASSUME NEW v \in Verifiers PROVE CallInv(v)'
  <2>1. CallInv(v) /\ v \in Callers
    BY <1>1 DEF NetworkInv
  <2>2. CASE v \in CutOff(s)
    <3>1. s \in Places(v)
      BY <2>2 DEF Places
    <3>2. Places(v) = {s}
      BY <2>1, <3>1 DEF CallInv
    <3>3. Places(v)' = {}
      BY <1>2, <3>2 DEF Places
    <3>4. ~Waits(v)'
      BY <1>2, <2>1, <2>2 DEF Waits
    <3> QED BY <1>3, <2>1, <3>3, <3>4 DEF CallInv
  <2>3. CASE v \notin CutOff(s)
    <3>1. \A t \in Servers : v \in CutOff(t)' <=> v \in CutOff(t)
      BY <1>2, <2>3
    <3>2. answer'[v] = answer[v]
      BY <1>2, <2>1, <2>3
    <3> QED BY <1>3, <2>1, <3>1, <3>2, CallKept
  <2> QED BY <2>2, <2>3
<1>5. RelayInv'
  <2>1. Places(Relay)' \subseteq Places(Relay)
    BY <1>2 DEF Places
  <2>2. up'[Relay] # "up" => got' = "no"
    BY <1>1, <1>2 DEF RelayInv
  <2>3. CASE s = Relay
    BY <1>1, <1>2, <2>1, <2>2, <2>3 DEF RelayInv
  <2>4. CASE s # Relay
    <3>1. up'[Relay] = up[Relay] /\ got' = got
      BY <1>1, <1>2, <2>4
    <3>2. Upstream \in Places(Relay)' <=> Upstream \in Places(Relay) /\ Upstream # s
      BY <1>1, <1>2, <2>4 DEF Places
    <3>3. CASE Relay \in CutOff(s)
      <4>1. s = Upstream
        BY <1>1, <3>3 DEF RelayInv, Places
      <4> QED BY <1>1, <1>2, <2>1, <3>1, <3>2, <3>3, <4>1 DEF RelayInv
    <3>4. CASE Relay \notin CutOff(s)
      <4>1. answer'[Relay] = answer[Relay]
        BY <1>1, <1>2, <3>4
      <4>2. \A t \in Servers : Relay \in CutOff(t)' <=> Relay \in CutOff(t)
        BY <1>2, <2>4, <3>4
      <4> QED BY <1>1, <3>1, <4>1, <4>2, RelayKept
    <3> QED BY <3>3, <3>4
  <2> QED BY <2>3, <2>4
<1> QED BY <1>2, <1>4, <1>5 DEF NetworkInv

\* A holder's answer goes to the caller whose line it read.
LEMMA HolderKeeps ==
  ASSUME NetworkInv, NEW s \in Servers, HolderAnswer(s)
  PROVE  NetworkInv'
<1> DEFINE c == serving[s]
<1>1. /\ TypeOK /\ (\A t \in Servers : QueueInv(t)) /\ RelayInv
      /\ Verifiers \subseteq Callers /\ Relay \in Callers /\ Relay \notin Verifiers
  BY Processes DEF NetworkInv
<1>2. /\ c \in Callers
      /\ serving' = [serving EXCEPT ![s] = "idle"]
      /\ answer' = [answer EXCEPT ![c] = IF c = Relay THEN "data" ELSE "hash"]
      /\ UNCHANGED <<up, backlog, got, sent, pc, step, samples>>
  BY DEF HolderAnswer, verifiers
<1>3. c \in CutOff(s)
  BY DEF CutOff
<1>4. /\ \A t \in Servers, d \in Callers : d \in CutOff(t)' <=> d \in CutOff(t) /\ ~(t = s /\ d = c)
      /\ \A t \in Servers : QueueInv(t)'
  BY <1>1, <1>2, Served
<1> HIDE DEF c
<1>5. TypeOK'
  BY <1>1, <1>2 DEF TypeOK
<1>6. \A d \in Callers : IF d = c THEN answer'[d] # "none" ELSE answer'[d] = answer[d]
  BY <1>1, <1>2 DEF TypeOK
<1>7. ASSUME NEW v \in Verifiers PROVE CallInv(v)'
  <2>1. CallInv(v) /\ v \in Callers
    BY <1>1 DEF NetworkInv
  <2>2. CASE v = c
    <3>1. Places(v) = {s}
      BY <1>3, <2>1, <2>2 DEF CallInv, Places
    <3>2. Places(v)' = {}
      BY <1>4, <2>1, <2>2, <3>1 DEF Places
    <3>3. ~Waits(v)'
      BY <1>6, <2>1, <2>2 DEF Waits
    <3>4. Targets' = Targets
      BY DEF Targets
    <3> QED BY <1>2, <2>1, <3>2, <3>3, <3>4 DEF CallInv
  <2>3. CASE v # c
    BY <1>2, <1>4, <1>6, <2>1, <2>3, CallKept
  <2> QED BY <2>2, <2>3
<1>8. RelayInv'
  <2>1. CASE c = Relay
    <3>1. s = Upstream
      BY <1>1, <1>3, <2>1 DEF RelayInv, Places
    <3>2. Places(Relay)' \subseteq Places(Relay) /\ Upstream \notin Places(Relay)'
      BY <1>1, <1>4, <2>1, <3>1 DEF Places
    <3> QED BY <1>1, <1>2, <1>6, <2>1, <3>2 DEF RelayInv
  <2>2. CASE c # Relay
    BY <1>1, <1>2, <1>4, <1>6, <2>2, RelayKept
  <2> QED BY <2>1, <2>2
<1> QED BY <1>4, <1>5, <1>7, <1>8 DEF NetworkInv

\* The relay's own call, made while a challenger waits for it.
LEMMA RelayKeeps ==
  ASSUME NetworkInv, RelayStep
  PROVE  NetworkInv'
<1>1. /\ TypeOK /\ (\A t \in Servers : QueueInv(t)) /\ RelayInv
      /\ Verifiers \subseteq Callers /\ Relay \in Callers /\ Relay \notin Verifiers
      /\ Upstream \in Servers /\ Relay \in Servers
  BY Processes DEF NetworkInv
<1>2. CASE RelayCrash
  <2>1. End(Relay, "crashed", "eof")
    BY <1>2 DEF RelayCrash
  <2> QED BY <1>1, <2>1, EndKeeps
<1>3. CASE RelayConnect /\ ~RelayCrash
  <2>1. /\ up[Relay] = "up" /\ got = "no" /\ up[Upstream] = "up" /\ got' = "up"
        /\ backlog' = [backlog EXCEPT ![Upstream] = Append(@, Relay)]
        /\ answer' = [answer EXCEPT ![Relay] = "none"]
        /\ sent' = [sent EXCEPT ![Relay] = FALSE]
        /\ UNCHANGED <<up, serving, pc, step, samples>>
    BY <1>3 DEF RelayConnect, Challenged, Enqueue, verifiers
  <2>2. Relay \notin CutOff(Upstream) /\ Relay \in Connections
    BY <1>1, <2>1 DEF RelayInv, Places, Connections
  <2>3. /\ backlog' \in [Servers -> Seq(Connections)]
        /\ \A t \in Servers : CutOff(t)' = IF t = Upstream THEN CutOff(t) \cup {Relay} ELSE CutOff(t)
        /\ \A t \in Servers : QueueInv(t)'
    BY <1>1, <2>1, <2>2, Enqueued
  <2>4. TypeOK'
    BY <1>1, <2>1, <2>3 DEF TypeOK, Connections
  <2>5. \A v \in Verifiers : CallInv(v)'
    <3>1. \A v \in Verifiers : answer'[v] = answer[v]
      BY <1>1, <2>1 DEF TypeOK
    <3>2. \A v \in Verifiers, t \in Servers : v \in CutOff(t)' <=> v \in CutOff(t)
      BY <1>1, <2>3
    <3> QED BY <2>1, <3>1, <3>2, CallKept DEF NetworkInv
  <2>6. RelayInv'
    <3>1. Places(Relay)' = Places(Relay) \cup {Upstream}
      BY <1>1, <2>3 DEF Places
    <3>2. answer'[Relay] = "none"
      BY <1>1, <2>1 DEF TypeOK
    <3> QED BY <1>1, <2>1, <3>1, <3>2 DEF RelayInv
  <2> QED BY <2>3, <2>4, <2>5, <2>6 DEF NetworkInv
<1>4. CASE RelaySend
  <2>1. sent' = [sent EXCEPT ![Relay] = TRUE] /\ UNCHANGED <<up, backlog, serving, got, answer, pc, step, samples>>
    BY <1>4 DEF RelaySend, servers, verifiers
  <2>2. \A t \in Servers : CutOff(t)' = CutOff(t) /\ QueueInv(t)'
    BY <1>1, <2>1, QueuesKept
  <2>3. TypeOK'
    BY <1>1, <2>1 DEF TypeOK
  <2>4. RelayInv'
    BY <1>1, <2>1, <2>2, RelayKept
  <2>5. \A v \in Verifiers : CallInv(v)'
    BY <2>1, <2>2, CallKept DEF NetworkInv
  <2> QED BY <2>2, <2>3, <2>4, <2>5 DEF NetworkInv
<1>5. CASE RelayReceive /\ ~RelayCrash
  <2>1. /\ answer[Relay] = "data" /\ got' = "data" /\ up[Relay] = "up"
        /\ UNCHANGED <<up, backlog, serving, sent, answer, pc, step, samples>>
    BY <1>5 DEF RelayReceive, Challenged, verifiers
  <2>2. \A t \in Servers : CutOff(t)' = CutOff(t) /\ QueueInv(t)'
    BY <1>1, <2>1, QueuesKept
  <2>3. TypeOK'
    BY <1>1, <2>1 DEF TypeOK
  <2>4. RelayInv'
    <3>1. Places(Relay)' = Places(Relay)
      BY <2>2 DEF Places
    <3> QED BY <1>1, <2>1, <3>1 DEF RelayInv
  <2>5. \A v \in Verifiers : CallInv(v)'
    BY <2>1, <2>2, CallKept DEF NetworkInv
  <2> QED BY <2>2, <2>3, <2>4, <2>5 DEF NetworkInv
<1>6. CASE RelayAnswer
  <2> DEFINE v == serving[Relay]
  <2>1. /\ v \in Verifiers /\ got = "data" /\ got' = "no" /\ up[Relay] = "up"
        /\ answer' = [answer EXCEPT ![v] = "hash"]
        /\ serving' = [serving EXCEPT ![Relay] = "idle"]
        /\ UNCHANGED <<up, backlog, sent, pc, step, samples>>
    BY <1>6 DEF RelayAnswer, Challenged, verifiers
  <2>2. v \in CutOff(Relay)
    BY DEF CutOff
  <2>3. /\ \A t \in Servers, d \in Callers : d \in CutOff(t)' <=> d \in CutOff(t) /\ ~(t = Relay /\ d = v)
        /\ \A t \in Servers : QueueInv(t)'
    BY <1>1, <2>1, Served
  <2> HIDE DEF v
  <2>4. TypeOK'
    BY <1>1, <2>1 DEF TypeOK
  <2>5. \A d \in Callers : answer'[d] = IF d = v THEN "hash" ELSE answer[d]
    BY <1>1, <2>1 DEF TypeOK
  <2>6. ASSUME NEW w \in Verifiers PROVE CallInv(w)'
    <3>1. CallInv(w) /\ w \in Callers
      BY <1>1 DEF NetworkInv
    <3>2. CASE w = v
      <4>1. Places(w) = {Relay}
        BY <1>1, <2>2, <3>1, <3>2 DEF CallInv, Places
      <4>2. Places(w)' = {}
        BY <2>3, <3>1, <3>2, <4>1 DEF Places
      <4>3. ~Waits(w)'
        BY <2>5, <3>1, <3>2 DEF Waits
      <4>4. Targets' = Targets
        BY DEF Targets
      <4> QED BY <2>1, <3>1, <4>2, <4>3, <4>4 DEF CallInv
    <3>3. CASE w # v
      BY <2>1, <2>3, <2>5, <3>1, <3>3, CallKept
    <3> QED BY <3>2, <3>3
  <2>7. RelayInv'
    <3>1. Places(Relay)' = Places(Relay)
      BY <1>1, <2>1, <2>3 DEF Places
    <3> QED BY <1>1, <2>1, <3>1 DEF RelayInv
  <2> QED BY <2>3, <2>4, <2>6, <2>7 DEF NetworkInv
<1> QED BY <1>2, <1>3, <1>4, <1>5, <1>6 DEF RelayStep

\* The processes of the network challenge keep their books together: who does
\* not run has no connections, a caller is in one queue at most, the one of the
\* server it called, and it has no answer exactly as long as it is there.
THEOREM NetworkInvariant == Spec => []NetworkInv
<1>1. NetworkInv /\ [Next]_vars => NetworkInv'
  <2> SUFFICES ASSUME NetworkInv, [Next]_vars PROVE NetworkInv'
    OBVIOUS
  <2>1. ASSUME NEW s \in Servers, ServerStep(s) \/ Kill(s) PROVE NetworkInv'
    <3>1. CASE Kill(s)
      <4>1. PICK last \in {"eof", "reset"} : End(s, "killed", last)
        BY <3>1 DEF Kill
      <4> QED BY <4>1, EndKeeps
    <3>2. CASE HolderAnswer(s)
      BY <3>2, HolderKeeps
    <3>3. CASE Listen(s) \/ Accept(s) \/ EmptyLine(s)
      BY <3>3, ServerKeeps
    <3> QED BY <2>1, <3>1, <3>2, <3>3 DEF ServerStep
  <2>2. CASE RelayStep
    BY <2>2, RelayKeeps
  <2>3. ASSUME NEW v \in Verifiers, VerifierStep(v) PROVE NetworkInv'
    <3>1. CASE GiveUp(v) \/ AllUp(v) \/ Send(v) \/ Receive(v) \/ Report(v)
      BY <3>1, VerifierAlone
    <3>2. CASE Probe(v)
      BY <3>2, ProbeKeeps
    <3>3. CASE Connect(v)
      BY <3>3, ConnectKeeps
    <3> QED BY <2>3, <3>1, <3>2, <3>3 DEF VerifierStep
  <2>4. CASE UNCHANGED vars
    <3>1. UNCHANGED <<up, backlog, serving, got, sent, answer, pc, step, samples>>
      BY <2>4 DEF vars, servers, verifiers
    <3>2. \A t \in Servers : CutOff(t)' = CutOff(t) /\ QueueInv(t)'
      BY <3>1, QueuesKept DEF NetworkInv
    <3>3. TypeOK' /\ RelayInv'
      BY <3>1, <3>2, RelayKept DEF NetworkInv, TypeOK
    <3>4. \A v \in Verifiers : CallInv(v)'
      BY <3>1, <3>2, CallKept DEF NetworkInv
    <3> QED BY <3>2, <3>3, <3>4 DEF NetworkInv
  <2> QED BY <2>1, <2>2, <2>3, <2>4 DEF Next
<1> QED BY <1>1, NetworkBegins, PTL DEF Spec

\* No call is lost, and none is answered twice: who waits for an answer is in
\* the queue or the hands of the running server it called and of no other.
THEOREM CallersAreQueued == Spec => []WaitingIsQueued
<1>1. NetworkInv => WaitingIsQueued
  <2> SUFFICES ASSUME NetworkInv PROVE WaitingIsQueued
    OBVIOUS
  <2>1. ASSUME NEW s \in Servers, NEW c \in Callers, s \in Places(c) PROVE up[s] = "up"
    <3>1. up[s] # "up" => backlog[s] = <<>> /\ serving[s] = "idle"
      BY DEF NetworkInv, QueueInv
    <3>2. up[s] # "up" => CutOff(s) = {"idle"}
      BY <3>1 DEF CutOff, Range
    <3> QED BY <2>1, <3>2, Processes DEF Places, Connections
  <2>2. ASSUME NEW v \in Verifiers, Waits(v)
        PROVE  /\ Places(v) = {s \in Servers : s = Targets[step[v]] /\ up[s] = "up"}
               /\ Places(v) # {}
    <3>1. Places(v) = {Targets[step[v]]} /\ step[v] \in DOMAIN Targets
      BY <2>2 DEF NetworkInv, CallInv, Waits
    <3>2. Targets[step[v]] \in Servers
      BY <3>1, TargetsAreServers
    <3>3. up[Targets[step[v]]] = "up"
      BY <2>1, <3>1, <3>2, Processes
    <3> QED BY <3>1, <3>2, <3>3
  <2>3. ASSUME NEW v \in Verifiers, ~Waits(v) PROVE Places(v) = {}
    BY <2>3 DEF NetworkInv, CallInv
  <2>4. got = "up" /\ answer[Relay] = "none" => Places(Relay) = {Upstream}
    BY DEF NetworkInv, RelayInv
  <2> QED BY <2>2, <2>3, <2>4 DEF WaitingIsQueued
<1> QED BY <1>1, NetworkInvariant, PTL
=============================================================================
