----------------------------- MODULE GossipProofs -----------------------------
(***************************************************************************)
(* Theorems about relays and a reader: any number of relays, some of which *)
(* lie or crash, and any posts at once.                                    *)
(***************************************************************************)
EXTENDS Gossip, SequenceTheorems, FiniteSetTheorems, TLAPS

USE EventsAssumption, PostsAssumption, RelaysAssumption

LEMMA InitGossip == Init => GossipInv
<1> SUFFICES ASSUME Init PROVE GossipInv
  OBVIOUS
<1>1. TypeOK
  <2>1. <<>> \in Seq(Events) /\ <<>> \in Seq(Relays)
    BY EmptySeq
  <2>2. post \in [Posts -> PostStates] /\ seen \in [Events -> Nat] /\ 0 \in 0..MaxCrashes
    BY DEF Init, PostStates, Nothing
  <2>3. events \in [Relays -> Seq(Events)]
    BY <2>1 DEF Init
  <2> QED BY <2>1, <2>2, <2>3 DEF Init, TypeOK
<1>2. PostInv
  BY DEF Init, PostInv
<1>3. ReaderInv
  BY DEF Init, ReaderInv, OwedIsSeen, Nothing
<1> QED BY <1>1, <1>2, <1>3 DEF GossipInv

\* What is in a sequence stays in it when something is appended.
LEMMA ContainsAppend ==
  ASSUME NEW S, NEW s \in Seq(S), NEW e \in S, NEW x
  PROVE  Contains(Append(s, e), x) <=> Contains(s, x) \/ x = e
<1>1. /\ Len(s) \in Nat /\ Append(s, e) \in Seq(S) /\ Len(Append(s, e)) = Len(s) + 1
      /\ Append(s, e)[Len(s) + 1] = e
      /\ \A i \in 1..Len(s) : Append(s, e)[i] = s[i]
  BY LenProperties, AppendProperties
<1> QED BY <1>1 DEF Contains

\* Head and Tail share out what is in a sequence.
LEMMA RangeOfTail ==
  ASSUME NEW S, NEW s \in Seq(S), s # <<>>
  PROVE  Range(s) = {Head(s)} \cup Range(Tail(s))
<1>1. /\ Len(s) \in Nat /\ Len(s) >= 1 /\ DOMAIN s = 1..Len(s)
      /\ Tail(s) \in Seq(S) /\ Len(Tail(s)) = Len(s) - 1 /\ DOMAIN Tail(s) = 1..(Len(s) - 1)
      /\ \A i \in 1..(Len(s) - 1) : Tail(s)[i] = s[i + 1]
      /\ Head(s) = s[1]
  BY LenProperties, HeadTailProperties, EmptySeq
<1>2. \A i \in 2..Len(s) : i - 1 \in 1..(Len(s) - 1) /\ Tail(s)[i - 1] = s[i]
  BY <1>1
<1>3. ASSUME NEW x \in Range(s) PROVE x = Head(s) \/ x \in Range(Tail(s))
  <2>1. PICK i \in 1..Len(s) : x = s[i]
    BY <1>1, <1>3 DEF Range
  <2>2. i = 1 \/ i \in 2..Len(s)
    BY <1>1
  <2> QED BY <1>1, <1>2, <2>1, <2>2 DEF Range
<1>4. Head(s) \in Range(s)
  BY <1>1 DEF Range
<1>5. ASSUME NEW x \in Range(Tail(s)) PROVE x \in Range(s)
  <2>1. PICK i \in 1..(Len(s) - 1) : x = Tail(s)[i]
    BY <1>1, <1>5 DEF Range
  <2>2. x = s[i + 1] /\ i + 1 \in 1..Len(s)
    BY <1>1, <2>1
  <2> QED BY <1>1, <2>2 DEF Range
<1> QED BY <1>3, <1>4, <1>5

\* As long as relays keep at least what they kept, and the reader is where it
\* was, nothing that it is owed gets lost.
LEMMA RelaysKeep ==
  ASSUME GossipInv, UNCHANGED <<toAsk, seen, owed>>,
         \A r \in Relays : Keeps(r) \subseteq Keeps(r)'
  PROVE  OwedIsSeen'
<1>1. Range(toAsk) \subseteq Relays
  BY ElementOfSeq, LenProperties DEF GossipInv, TypeOK, Range
<1> QED BY <1>1 DEF GossipInv, ReaderInv, OwedIsSeen, InView

\* A request goes from verification to the answer, or finds its relay down.
LEMMA PostGossip ==
  ASSUME GossipInv, NEW p \in Posts,
         Receive(p) \/ Scan(p) \/ Store(p) \/ Reply(p) \/ PostUnreachable(p)
  PROVE  GossipInv'
<1>1. /\ UNCHANGED <<up, crashes, toAsk, conn, seen, failed, owed>>
      /\ \A q \in Posts \ {p} : post'[q] = post[q]
      /\ post' \in [Posts -> PostStates]
  <2>1. UNCHANGED <<up, crashes, toAsk, conn, seen, failed, owed>>
    BY DEF Receive, Scan, Store, Reply, PostUnreachable, Step, reader
  <2>2. PICK s \in PostStates : post' = [post EXCEPT ![p] = s]
    BY DEF Receive, Scan, Store, Reply, PostUnreachable, Step, PostStates
  <2>3. post \in [Posts -> PostStates]
    BY DEF GossipInv, TypeOK
  <2> QED BY <2>1, <2>2, <2>3
<1>2. TypeOK /\ PostInv /\ RelayOf[p] \in Relays /\ EventOf[p] \in Events
  BY DEF GossipInv
<1>3. TypeOK' /\ \A r \in Relays : \A e : Contains(events[r], e) => Contains(events'[r], e)
  <2>1. CASE UNCHANGED events
    BY <1>1, <1>2, <2>1 DEF TypeOK
  <2>2. CASE Store(p)
    <3>1. events' = [events EXCEPT ![RelayOf[p]] = Append(events[RelayOf[p]], EventOf[p])]
      BY <2>2 DEF Store, Stored
    <3>2. \A r \in Relays : events'[r] = IF r = RelayOf[p] THEN Append(events[r], EventOf[p]) ELSE events[r]
      BY <1>2, <3>1 DEF TypeOK
    <3>3. events' \in [Relays -> Seq(Events)]
      BY <1>2, <3>1, AppendProperties DEF TypeOK
    <3>4. \A r \in Relays : \A e : Contains(events[r], e) => Contains(events'[r], e)
      <4>1. events[RelayOf[p]] \in Seq(Events)
        BY <1>2 DEF TypeOK
      <4>2. \A e : Contains(events[RelayOf[p]], e) => Contains(events'[RelayOf[p]], e)
        BY <1>2, <3>2, <4>1, ContainsAppend
      <4> QED BY <3>2, <4>2
    <3> QED BY <1>1, <1>2, <3>3, <3>4 DEF TypeOK
  <2> QED BY <2>1, <2>2 DEF Receive, Scan, Reply, PostUnreachable
<1>4. /\ post'[p] \in {"scan", "append", "reply", "ok"} => EventOf[p] \in Genuine /\ RelayOf[p] \in up
      /\ post'[p] \in {"reply", "ok"} => Contains(events'[RelayOf[p]], EventOf[p])
  <2>1. CASE Receive(p)
    BY <1>2, <2>1 DEF Receive, Step, TypeOK
  <2>2. CASE Scan(p)
    BY <1>2, <2>2 DEF Scan, Step, TypeOK, PostInv
  <2>3. CASE Store(p)
    <3>1. events'[RelayOf[p]] = Append(events[RelayOf[p]], EventOf[p])
      BY <1>2, <2>3 DEF Store, Stored, TypeOK
    <3>2. Contains(events'[RelayOf[p]], EventOf[p])
      BY <1>2, <3>1, ContainsAppend DEF TypeOK
    <3> QED BY <1>2, <2>3, <3>2 DEF Store, Step, TypeOK, PostInv
  <2>4. CASE Reply(p)
    BY <1>2, <2>4 DEF Reply, Step, TypeOK, PostInv
  <2>5. CASE PostUnreachable(p)
    BY <1>2, <2>5 DEF PostUnreachable, Step, TypeOK
  <2> QED BY <2>1, <2>2, <2>3, <2>4, <2>5
<1>5. PostInv'
  BY <1>1, <1>2, <1>3, <1>4 DEF PostInv
<1>6. post[p] # "ok"
  BY DEF Receive, Scan, Store, Reply, PostUnreachable, Step
<1>7. \A r \in Relays : Keeps(r) \subseteq Keeps(r)'
  BY <1>1, <1>6 DEF Keeps, Accepted
<1>8. OwedIsSeen'
  BY <1>1, <1>7, RelaysKeep
<1>9. ReaderInv'
  BY <1>1, <1>8 DEF GossipInv, ReaderInv
<1> QED BY <1>3, <1>5, <1>9 DEF GossipInv

\* A relay that ends takes its events and requests with it, and what only it
\* kept is not owed any more.
LEMMA CrashGossip ==
  ASSUME GossipInv, NEW r \in Relays, Crash(r)
  PROVE  GossipInv'
<1>1. /\ r \in up /\ up' = up \ {r}
      /\ crashes < MaxCrashes /\ crashes' = crashes + 1
      /\ events' = [events EXCEPT ![r] = <<>>]
      /\ conn' = IF conn = "open" /\ Head(toAsk) = r THEN "cut" ELSE conn
      /\ owed' = {e \in owed : e \in InView(seen) \/ \E q \in Range(toAsk) \ {r} : e \in Keeps(q)}
      /\ UNCHANGED <<toAsk, seen, failed>>
  BY DEF Crash
<1>2. post' = [p \in Posts |->
                IF RelayOf[p] # r THEN post[p]
                ELSE IF post[p] = "ok" THEN "gone"
                ELSE IF post[p] \in {"scan", "append", "reply"} THEN "cut" ELSE post[p]]
  BY DEF Crash
<1>3. \A p \in Posts : /\ RelayOf[p] # r => post'[p] = post[p]
                       /\ RelayOf[p] = r => post'[p] \notin {"scan", "append", "reply", "ok"}
                       /\ post'[p] \in {post[p], "gone", "cut"}
  BY <1>2
<1>4. TypeOK /\ PostInv
  BY DEF GossipInv
<1>5. \A q \in Relays : q # r => events'[q] = events[q]
  BY <1>1, <1>4 DEF TypeOK
<1>6. TypeOK'
  <2>1. post' \in [Posts -> PostStates]
    BY <1>2, <1>4 DEF TypeOK, PostStates
  <2>2. events' \in [Relays -> Seq(Events)]
    BY <1>1, <1>4, EmptySeq DEF TypeOK
  <2>3. crashes' \in 0..MaxCrashes
    BY <1>1, <1>4 DEF TypeOK
  <2>4. /\ conn' \in {"no", "open", "cut"} /\ (toAsk' = <<>> => conn' = "no")
        /\ owed' \subseteq Events /\ up' \subseteq Relays
    BY <1>1, <1>4 DEF TypeOK
  <2> QED BY <1>1, <1>4, <2>1, <2>2, <2>3, <2>4 DEF TypeOK
<1>7. PostInv'
  BY <1>1, <1>3, <1>4, <1>5 DEF PostInv
<1>8. OwedIsSeen'
  <2>1. \A q \in Relays : q # r => Keeps(q)' = Keeps(q)
    BY <1>1, <1>3 DEF Keeps, Accepted
  <2>2. Range(toAsk) \subseteq Relays
    BY <1>4, ElementOfSeq, LenProperties DEF TypeOK, Range
  <2> QED BY <1>1, <2>1, <2>2 DEF OwedIsSeen, InView
<1>9. ReaderInv'
  BY <1>1, <1>8 DEF GossipInv, ReaderInv
<1> QED BY <1>6, <1>7, <1>9 DEF GossipInv

\* A relay that comes back is empty, and had no request.
LEMMA RestartGossip ==
  ASSUME GossipInv, NEW r \in Relays, Restart(r)
  PROVE  GossipInv'
<1>1. up' = up \cup {r} /\ UNCHANGED <<post, events, crashes, toAsk, conn, seen, failed, owed>>
  BY DEF Restart, reader
<1>2. TypeOK' /\ PostInv'
  BY <1>1 DEF GossipInv, TypeOK, PostInv
<1>3. \A q \in Relays : Keeps(q) \subseteq Keeps(q)'
  BY <1>1 DEF Keeps, Accepted
<1>4. OwedIsSeen'
  BY <1>1, <1>3, RelaysKeep
<1> QED BY <1>1, <1>2, <1>4 DEF GossipInv, ReaderInv

\* Steps of the reader leave the relays alone.
LEMMA ReaderStep ==
  ASSUME GossipInv, UNCHANGED relays, TypeOK', ReaderInv'
  PROVE  GossipInv'
BY DEF relays, GossipInv, PostInv

\* What an honest relay is going to answer has all that it keeps, rightly signed.
LEMMA AnswerHasAll ==
  ASSUME GossipInv, NEW r \in Relays, NEW e \in Keeps(r)
  PROVE  Answers(r) = {events[r]} /\ Contains(events[r], e) /\ e \in Genuine
BY DEF GossipInv, PostInv, Keeps, Accepted, Answers

\* A round begins, connects, skips, merges an answer or is cut.
LEMMA ReaderGossip ==
  ASSUME GossipInv, Start \/ Connect \/ Unreachable \/ Answer \/ Cut \/ Unreadable
  PROVE  GossipInv'
<1>1. UNCHANGED relays /\ TypeOK /\ ReaderInv
  BY DEF GossipInv, Start, Connect, Unreachable, Answer, Cut, Unreadable, RoundEnds
<1>2. \A r : Keeps(r)' = Keeps(r)
  BY <1>1 DEF relays, Keeps, Accepted
<1>3. toAsk # <<>> => /\ Head(toAsk) \in Relays /\ Tail(toAsk) \in Seq(Relays)
                     /\ Range(toAsk) = {Head(toAsk)} \cup Range(Tail(toAsk))
  BY <1>1, HeadTailProperties, RangeOfTail DEF TypeOK
<1>4. CASE Start
  <2>1. /\ toAsk' = Order /\ seen' = Nothing /\ failed' = FALSE
        /\ owed' = UNION {Keeps(r) : r \in Range(Order)}
        /\ toAsk = <<>> /\ conn' = conn
    BY <1>4 DEF Start
  <2>2. owed' \subseteq Events
    BY <2>1 DEF Keeps, Accepted
  <2>3. TypeOK'
    BY <1>1, <2>1, <2>2 DEF TypeOK, relays, Nothing
  <2>4. OwedIsSeen'
    BY <1>2, <2>1 DEF OwedIsSeen
  <2>5. ReaderInv'
    BY <1>1, <2>1, <2>4 DEF ReaderInv, TypeOK, Nothing
  <2> QED BY <1>1, <2>3, <2>5, ReaderStep
<1>5. CASE Connect
  <2>1. toAsk # <<>> /\ Head(toAsk) \in up /\ conn' = "open" /\ UNCHANGED <<toAsk, seen, failed, owed>>
    BY <1>5 DEF Connect
  <2>2. TypeOK'
    BY <1>1, <2>1 DEF TypeOK, relays
  <2>3. OwedIsSeen'
    BY <1>1, <1>2, <2>1 DEF ReaderInv, OwedIsSeen, InView
  <2>4. ReaderInv'
    BY <1>1, <2>1, <2>3 DEF ReaderInv, relays
  <2> QED BY <1>1, <2>2, <2>4, ReaderStep
<1>6. CASE Unreachable
  <2>1. /\ toAsk # <<>> /\ Head(toAsk) \notin up /\ conn = "no" /\ toAsk' = Tail(toAsk)
        /\ UNCHANGED <<conn, seen, failed, owed>>
    BY <1>6 DEF Unreachable, Skip
  <2>2. TypeOK'
    BY <1>1, <1>3, <2>1 DEF TypeOK, relays
  <2>3. Keeps(Head(toAsk)) = {}
    BY <2>1 DEF Keeps
  <2>4. OwedIsSeen'
    <3>1. owed \subseteq InView(seen) \cup Keeps(Head(toAsk)) \cup UNION {Keeps(r) : r \in Range(Tail(toAsk))}
      BY <1>1, <1>3, <2>1 DEF ReaderInv, OwedIsSeen
    <3>2. owed' \subseteq InView(seen') \cup UNION {Keeps(r)' : r \in Range(toAsk')}
      BY <1>2, <2>1, <2>3, <3>1
    <3> QED BY <3>2 DEF OwedIsSeen
  <2>5. ReaderInv'
    BY <1>1, <2>1, <2>4 DEF ReaderInv
  <2> QED BY <1>1, <2>2, <2>5, ReaderStep
<1>7. CASE Answer
  <2>1. PICK answer \in Answers(Head(toAsk)) : seen' = Merge(answer)
    BY <1>7 DEF Answer
  <2>2. conn = "open" /\ conn' = "no" /\ toAsk' = Tail(toAsk) /\ UNCHANGED <<failed, owed>>
    BY <1>7 DEF Answer
  <2>3. toAsk # <<>>
    BY <1>1, <2>2 DEF TypeOK
  <2>4. \A e \in Events : seen'[e] = IF e \in Genuine /\ Contains(answer, e) THEN 1 ELSE seen[e]
    BY <2>1 DEF Merge
  <2>5. TypeOK'
    <3>1. seen' \in [Events -> Nat]
      BY <1>1, <2>1 DEF TypeOK, Merge
    <3> QED BY <1>1, <1>3, <2>2, <2>3, <3>1 DEF TypeOK, relays
  <2>6. InView(seen) \subseteq InView(seen')
    BY <2>4 DEF InView
  <2>7. Keeps(Head(toAsk)) \subseteq InView(seen')
    <3> SUFFICES ASSUME NEW e \in Keeps(Head(toAsk)) PROVE e \in InView(seen')
      OBVIOUS
    <3>1. Contains(answer, e) /\ e \in Genuine
      BY <1>3, <2>1, <2>3, AnswerHasAll
    <3> QED BY <2>4, <3>1 DEF InView
  <2>8. OwedIsSeen'
    <3>1. owed \subseteq InView(seen) \cup Keeps(Head(toAsk)) \cup UNION {Keeps(r) : r \in Range(Tail(toAsk))}
      BY <1>1, <1>3, <2>3 DEF ReaderInv, OwedIsSeen
    <3>2. owed' \subseteq InView(seen') \cup UNION {Keeps(r)' : r \in Range(toAsk')}
      BY <1>2, <2>2, <2>6, <2>7, <3>1
    <3> QED BY <3>2 DEF OwedIsSeen
  <2>9. ReaderInv'
    BY <1>1, <2>2, <2>4, <2>8 DEF ReaderInv
  <2> QED BY <1>1, <2>5, <2>9, ReaderStep
<1>8. CASE Cut \/ Unreadable
  <2>1. conn' = "no" /\ toAsk' = <<>> /\ failed' = TRUE /\ owed' = {} /\ UNCHANGED seen
    BY <1>8 DEF Cut, Unreadable, RoundEnds
  <2>2. TypeOK'
    BY <1>1, <2>1, EmptySeq DEF TypeOK, relays
  <2>3. ReaderInv'
    BY <1>1, <2>1 DEF ReaderInv, OwedIsSeen
  <2> QED BY <1>1, <2>2, <2>3, ReaderStep
<1> QED BY <1>4, <1>5, <1>6, <1>7, <1>8

\* Types, what requests have done to their relays, and what the reader holds
\* of what it is owed: inductive for any relays, lies, posts and crashes.
THEOREM GossipInvariant == Spec => []GossipInv
<1>1. GossipInv /\ [Next]_vars => GossipInv'
  <2> SUFFICES ASSUME GossipInv, [Next]_vars PROVE GossipInv'
    OBVIOUS
  <2>1. CASE UNCHANGED vars
    BY <2>1 DEF vars, relays, reader, GossipInv, TypeOK, PostInv, ReaderInv, OwedIsSeen, InView, Keeps, Accepted
  <2> QED BY <2>1, PostGossip, CrashGossip, RestartGossip, ReaderGossip DEF Next
<1> QED BY <1>1, InitGossip, PTL DEF Spec

\* A relay that runs has every event it has answered ok for, however many
\* requests came in at once.
THEOREM AcceptedStays == Spec => []AcceptedIsKept
<1>1. GossipInv => AcceptedIsKept
  <2> SUFFICES ASSUME GossipInv, NEW p \in Posts, post[p] = "ok"
               PROVE  EventOf[p] \in Range(events[RelayOf[p]])
    BY DEF AcceptedIsKept, Accepted
  <2>1. Contains(events[RelayOf[p]], EventOf[p]) /\ events[RelayOf[p]] \in Seq(Events)
    BY DEF GossipInv, PostInv, TypeOK
  <2> QED BY <2>1, LenProperties DEF Contains, Range
<1> QED BY <1>1, GossipInvariant, PTL

\* Lying, dead and restarted relays cannot hide what another honest one keeps.
THEOREM NothingOwedIsLost == Spec => []OwedIsSeen
<1>1. GossipInv => OwedIsSeen
  BY DEF GossipInv, ReaderInv
<1> QED BY <1>1, GossipInvariant, PTL

(***************************************************************************)
(* What a reader makes of a view.                                          *)
(***************************************************************************)

\* More events can only add trusted signers, likes and hosts.
LEMMA ViewsGrow ==
  ASSUME NEW V, NEW W, V \subseteq W
  PROVE  /\ \A c : Liking(V, c) \subseteq Liking(W, c)
         /\ Readable(W, Publications) => \A x : HostsFor(V, x) \subseteq HostsFor(W, x)
<1>1. Trusted(V) \subseteq Trusted(W)
  BY DEF Trusted
<1> QED BY <1>1 DEF Liking, HostsFor, Readable

\* When events are there once and the view can be read, a rank is the number of
\* the trusted likes.
LEMMA RankCountsLikes ==
  ASSUME NEW counts \in [Events -> {0, 1}], NEW c, Readable(InView(counts), Ranked)
  PROVE  Rank(counts, c) = Cardinality(Liking(InView(counts), c))
<1> DEFINE L == Liking(InView(counts), c)
<1> DEFINE f == [e \in L |-> <<e, 1>>]
<1>1. L \subseteq Events /\ IsFiniteSet(L)
  BY FS_Subset DEF Liking, InView
<1>2. \A e \in L : counts[e] = 1
  BY DEF Liking, InView
<1>3. Likes(counts, c) = {<<e, 1>> : e \in L}
  <2>1. \A e \in L : {e} \X (1..counts[e]) = {<<e, 1>>}
    BY <1>2
  <2> QED BY <2>1 DEF Likes
<1>4. f \in Bijection(L, Likes(counts, c))
  <2>1. f \in Injection(L, Likes(counts, c))
    BY <1>3 DEF Injection, IsInjective
  <2>2. f \in Surjection(L, Likes(counts, c))
    BY <1>3 DEF Surjection
  <2> QED BY <2>1, <2>2 DEF Bijection
<1>5. Cardinality(Likes(counts, c)) = Cardinality(L)
  BY <1>1, <1>4, FS_Bijection DEF ExistsBijection
<1> QED BY <1>5 DEF Rank

\* Once a round ends without an exception: every like that the reader is owed
\* counts, none counts twice or that nobody signed, and no host is hidden or
\* invented; but an event without a content hash hides them all.
THEOREM RanksAndHostsAreBounded == Spec => []ViewIsBounded
<1>1. GossipInv => ViewIsBounded
  <2> SUFFICES ASSUME GossipInv, toAsk = <<>> PROVE ViewIsBounded
    BY DEF ViewIsBounded
  <2>1. seen \in [Events -> {0, 1}] /\ InView(seen) \subseteq Genuine
    BY DEF GossipInv, TypeOK, ReaderInv, InView
  <2>2. owed \subseteq InView(seen)
    BY DEF GossipInv, ReaderInv, OwedIsSeen, Range
  <2>3. ASSUME NEW c PROVE /\ Readable(InView(seen), Ranked) => Cardinality(Liking(owed, c)) <= Rank(seen, c)
                           /\ Rank(seen, c) <= Cardinality(Liking(Genuine, c))
    <3>1. Liking(owed, c) \subseteq Liking(InView(seen), c) /\ Liking(InView(seen), c) \subseteq Liking(Genuine, c)
      BY <2>1, <2>2, ViewsGrow
    <3>2. IsFiniteSet(Liking(Genuine, c)) /\ IsFiniteSet(Liking(InView(seen), c))
      BY <3>1, FS_Subset DEF Liking
    <3>3. /\ Cardinality(Liking(owed, c)) <= Cardinality(Liking(InView(seen), c))
          /\ Cardinality(Liking(InView(seen), c)) <= Cardinality(Liking(Genuine, c))
      BY <3>1, <3>2, FS_Subset
    <3>4. CASE Readable(InView(seen), Ranked)
      BY <2>1, <3>3, <3>4, RankCountsLikes
    <3>5. CASE ~Readable(InView(seen), Ranked)
      <4>1. Rank(seen, c) = 0
        BY <3>5, FS_EmptySet DEF Rank, Likes
      <4>2. Cardinality(Liking(Genuine, c)) \in Nat
        BY <3>2, FS_CardinalityType
      <4> QED BY <3>5, <4>1, <4>2
    <3> QED BY <3>4, <3>5
  <2>4. ASSUME NEW x PROVE /\ Readable(InView(seen), Publications) => HostsFor(owed, x) \subseteq HostsFor(InView(seen), x)
                           /\ HostsFor(InView(seen), x) \subseteq Genuine
    BY <2>1, <2>2, ViewsGrow DEF HostsFor
  <2> QED BY <2>3, <2>4 DEF ViewIsBounded
<1> QED BY <1>1, GossipInvariant, PTL
===============================================================================
