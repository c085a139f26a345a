-------------------------- MODULE TunnelRelayProofs --------------------------
(***************************************************************************)
(* Proofs about TunnelRelay, for any number of hosts, downloads and        *)
(* commands.                                                               *)
(***************************************************************************)
EXTENDS TunnelRelay, TLAPS, SequenceTheorems

\* What a channel holds stays a sequence of messages.
LEMMA SentType ==
  ASSUME NEW chan \in [Downloads -> Seq(Messages)], NEW d \in Downloads,
         NEW msgs \in Seq(Messages), NEW open
  PROVE  Sent(chan, d, msgs, open) \in [Downloads -> Seq(Messages)]
  BY DEF Sent

LEMMA ReceivedType ==
  ASSUME NEW chan \in [Downloads -> Seq(Messages)], NEW d \in Downloads, Arrives(chan, d)
  PROVE  /\ Received(chan, d) \in [Downloads -> Seq(Messages)]
         /\ Head(chan[d]) \in Messages
         /\ <<Head(chan[d])>> \in Seq(Messages)
  BY DEF Received, Arrives

LEMMA DroppedType ==
  ASSUME NEW chan \in [Downloads -> Seq(Messages)], NEW d \in Downloads
  PROVE  Dropped(chan, d) \in [Downloads -> Seq(Messages)]
  BY DEF Dropped

LEMMA MarkerType ==
  /\ <<EOF>> \in Seq(Messages)
  /\ <<Err, EOF>> \in Seq(Messages)
  /\ <<Hello>> \in Seq(Messages)
  /\ <<>> \in Seq(Messages)
  BY DEF Messages, EOF, Err, Hello

\* The control queue stays a sequence of stream ids.
LEMMA QueueType ==
  ASSUME NEW q \in [Hosts -> Seq(Downloads)], NEW h \in Hosts, NEW d \in Downloads
  PROVE  /\ [q EXCEPT ![h] = <<>>] \in [Hosts -> Seq(Downloads)]
         /\ [q EXCEPT ![h] = Append(@, d)] \in [Hosts -> Seq(Downloads)]
         /\ q[h] # <<>> => /\ Head(q[h]) \in Downloads
                          /\ [q EXCEPT ![h] = Tail(@)] \in [Hosts -> Seq(Downloads)]
  OBVIOUS

-----------------------------------------------------------------------------
USE DEF relayVars, hostVars, clientVars, streamVars

LEMMA RegisterType ==
  ASSUME TypeOK, NEW h \in Hosts, RegisterHandler(h)
  PROVE  TypeOK'
<1>0. HostToken[h] \in Tokens
  BY TokenAssumption
<1>1. CASE Register(h)
  <2>1. registrations' \in [Tokens -> Hosts \cup {None}] /\ regPc' \in [Hosts -> RegStates]
    BY <1>0, <1>1 DEF TypeOK, RegStates, Register
  <2> QED BY <1>1, <2>1 DEF TypeOK, Register
<1>2. CASE Unregister(h)
  <2>1. registrations' \in [Tokens -> Hosts \cup {None}] /\ regPc' \in [Hosts -> RegStates]
    BY <1>0, <1>2 DEF TypeOK, RegStates, Unregister
  <2> QED BY <1>2, <2>1 DEF TypeOK, Unregister
<1> QED BY <1>1, <1>2 DEF RegisterHandler

LEMMA HostType ==
  ASSUME TypeOK, NEW h \in Hosts,
         HostLoop(h) \/ HostRegister(h) \/ HostExit(h) \/ CutControl(h)
  PROVE  TypeOK'
<1>1. CASE HostRegister(h)
  BY <1>1 DEF TypeOK, HostStates, HostRegister
<1>2. CASE HostDialBack(h)
  <2>1. /\ Head(ctrlQ[h]) \in Downloads
        /\ ctrlQ' \in [Hosts -> Seq(Downloads)]
    BY <1>2, QueueType DEF TypeOK, HostDialBack
  <2>2. /\ servedBy' \in [Downloads -> Hosts \cup {None}]
        /\ sesPc' \in [Downloads -> EndStates]
        /\ datPc' \in [Downloads -> DatStates]
    BY <1>2, <2>1 DEF TypeOK, DatStates, EndStates, HostDialBack
  <2> QED BY <1>2, <2>1, <2>2 DEF TypeOK, HostDialBack
<1>3. CASE HostDialBackFails(h)
  <2>1. ctrlQ' \in [Hosts -> Seq(Downloads)]
    BY <1>3, QueueType DEF TypeOK, HostDialBackFails
  <2> QED BY <1>3, <2>1 DEF TypeOK, HostStates, HostDialBackFails
<1>4. CASE HostControlLost(h)
  <2>1. ctrlQ' \in [Hosts -> Seq(Downloads)]
    BY <1>4, QueueType DEF TypeOK, HostControlLost
  <2> QED BY <1>4, <2>1 DEF TypeOK, HostStates, HostControlLost
<1>5. CASE HostExit(h)
  <2> DEFINE mine == {d \in Downloads : servedBy[d] = h /\ SessionOpen(d)}
  <2>1. sesPc' \in [Downloads -> EndStates]
    BY <1>5 DEF TypeOK, EndStates, HostExit
  <2>2. r2h' \in [Downloads -> Seq(Messages)]
    BY <1>5 DEF TypeOK, HostExit
  <2>3. h2r' \in [Downloads -> Seq(Messages)]
    BY <1>5 DEF TypeOK, HostExit, Messages, EOF
  <2> QED BY <1>5, <2>1, <2>2, <2>3 DEF TypeOK, HostStates, HostExit
<1>6. CASE CutControl(h)
  BY <1>6 DEF TypeOK, CutControl
<1> QED BY <1>1, <1>2, <1>3, <1>4, <1>5, <1>6 DEF HostLoop

LEMMA ConnectType ==
  ASSUME TypeOK, NEW d \in Downloads, ConnectHandler(d)
  PROVE  TypeOK'
<1> USE DEF TypeOK, ConStates
<1>1. CASE ConnectLookup(d)
  <2>1. c2r' \in [Downloads -> Seq(Messages)]
    BY <1>1, ReceivedType DEF ConnectLookup
  <2>2. registrations[WantedToken[d]] \in Hosts \cup {None}
    BY TokenAssumption
  <2> QED BY <1>1, <2>1, <2>2 DEF ConnectLookup
<1>2. CASE ConnectRefuse(d)
  BY <1>2, DroppedType, SentType, MarkerType DEF ConnectRefuse
<1>3. CASE ConnectPend(d)
  BY <1>3 DEF ConnectPend
<1>4. CASE ConnectAnnounce(d)
  <2>1. ctrlQ' \in [Hosts -> Seq(Downloads)]
    <3>1. CASE ctrlOf[d] \in Hosts
      BY <1>4, <3>1, QueueType DEF ConnectAnnounce
    <3>2. CASE ctrlOf[d] \notin Hosts
      BY <1>4, <3>2 DEF ConnectAnnounce
    <3> QED BY <3>1, <3>2
  <2> QED BY <1>4, <2>1 DEF ConnectAnnounce
<1>5. CASE ConnectAnnounceFails(d)
  BY <1>5 DEF ConnectAnnounceFails
<1>6. CASE ConnectTimeout(d)
  BY <1>6 DEF ConnectTimeout
<1>7. CASE ConnectGiveUp(d)
  BY <1>7, DroppedType, SentType, MarkerType DEF ConnectGiveUp, RelayClosesCon
<1>8. CASE ConnectPair(d)
  BY <1>8 DEF ConnectPair, PipeStates
<1>9. CASE ConnectFinish(d)
  BY <1>9, DroppedType, SentType, MarkerType DEF ConnectFinish, RelayClosesCon
<1> QED BY <1>1, <1>2, <1>3, <1>4, <1>5, <1>6, <1>7, <1>8, <1>9 DEF ConnectHandler

LEMMA DataType ==
  ASSUME TypeOK, NEW d \in Downloads, DataHandler(d)
  PROVE  TypeOK'
<1> USE DEF TypeOK, DatStates
<1>1. CASE DataPop(d)
  <2>1. RelayClosesData(d) => /\ r2h' \in [Downloads -> Seq(Messages)]
                              /\ h2r' \in [Downloads -> Seq(Messages)]
    <3> DEFINE msgs == IF pipeUp[d] = "ended" THEN <<>> ELSE <<EOF>>
    <3>1. msgs \in Seq(Messages)
      BY MarkerType
    <3>2. /\ Sent(r2h, d, msgs, SessionOpen(d)) \in [Downloads -> Seq(Messages)]
          /\ Dropped(h2r, d) \in [Downloads -> Seq(Messages)]
      <4> HIDE DEF msgs
      <4> QED BY <3>1, SentType, DroppedType
    <3> QED BY <3>2 DEF RelayClosesData
  <2>2. /\ r2h' \in [Downloads -> Seq(Messages)]
        /\ h2r' \in [Downloads -> Seq(Messages)]
        /\ datPc' \in [Downloads -> DatStates]
    <3>1. CASE d \in pendingStreams
      BY <1>1, <3>1 DEF DataPop
    <3>2. CASE d \notin pendingStreams
      BY <1>1, <2>1, <3>2 DEF DataPop
    <3> QED BY <3>1, <3>2
  <2> QED BY <1>1, <2>2 DEF DataPop
<1>2. CASE DataAssign(d)
  BY <1>2 DEF DataAssign
<1>3. CASE DataReady(d)
  BY <1>3 DEF DataReady
<1>4. CASE DataRelease(d)
  BY <1>4, DroppedType, SentType, MarkerType DEF DataRelease, RelayClosesData
<1> QED BY <1>1, <1>2, <1>3, <1>4 DEF DataHandler

LEMMA PipeType ==
  ASSUME TypeOK, NEW d \in Downloads, PipeUp(d) \/ PipeDown(d)
  PROVE  TypeOK'
<1> USE DEF TypeOK, PipeStates
<1>1. CASE PipeUpForward(d)
  BY <1>1, ReceivedType, SentType DEF PipeUpForward
<1>2. CASE PipeUpEnd(d)
  BY <1>2, SentType, MarkerType DEF PipeUpEnd
<1>3. CASE PipeDownForward(d)
  BY <1>3, ReceivedType, SentType DEF PipeDownForward
<1>4. CASE PipeDownEnd(d)
  BY <1>4, SentType, MarkerType DEF PipeDownEnd
<1> QED BY <1>1, <1>2, <1>3, <1>4 DEF PipeUp, PipeDown

LEMMA EndsType ==
  ASSUME TypeOK, NEW d \in Downloads, Session(d) \/ Client(d) \/ ClientConnect(d)
  PROVE  TypeOK'
<1> USE DEF TypeOK, EndStates
<1>1. CASE SessionServe(d)
  <2>1. r2h' \in [Downloads -> Seq(Messages)] /\ <<Head(r2h[d])>> \in Seq(Messages)
    BY <1>1, ReceivedType DEF SessionServe
  <2>2. h2r' \in [Downloads -> Seq(Messages)]
    <3> DEFINE Reply(m) == Sent(h2r, d, <<m>>, RelayDataOpen(d))
    <3>1. h2r' = Reply(EOF) \/ h2r' = Reply(Head(r2h[d]))
      BY <1>1 DEF SessionServe
    <3>2. Reply(EOF) \in [Downloads -> Seq(Messages)]
      BY SentType, MarkerType
    <3>3. Reply(Head(r2h[d])) \in [Downloads -> Seq(Messages)]
      BY <2>1, SentType
    <3> QED BY <3>1, <3>2, <3>3
  <2>3. sesPc' \in [Downloads -> EndStates]
    BY <1>1 DEF SessionServe
  <2> QED BY <1>1, <2>1, <2>2, <2>3 DEF SessionServe
<1>6. CASE SessionEnds(d)
  <2>1. sesPc' \in [Downloads -> EndStates]
    BY <1>6 DEF SessionEnds
  <2>2. r2h' \in [Downloads -> Seq(Messages)]
    BY <1>6, DroppedType DEF SessionEnds
  <2>3. h2r' \in [Downloads -> Seq(Messages)]
    <3>1. Sent(h2r, d, <<EOF>>, RelayDataOpen(d)) \in [Downloads -> Seq(Messages)]
      BY SentType, MarkerType
    <3>2. Dropped(h2r, d) \in [Downloads -> Seq(Messages)]
      BY DroppedType
    <3>3. Sent(Dropped(h2r, d), d, <<EOF>>, RelayDataOpen(d)) \in [Downloads -> Seq(Messages)]
      BY <3>2, SentType, MarkerType
    <3> QED BY <1>6, <3>1, <3>3 DEF SessionEnds
  <2> QED BY <1>6, <2>1, <2>2, <2>3 DEF SessionEnds
<1>2. CASE ClientRequest(d)
  <2>1. asked' \in [Downloads -> 0..MaxRequests] /\ asked[d] + 1 \in Messages
    BY <1>2, RequestsAssumption DEF ClientRequest, Messages, Requests
  <2>2. <<asked[d] + 1>> \in Seq(Messages)
    BY <2>1
  <2>3. c2r' \in [Downloads -> Seq(Messages)]
    BY <1>2, <2>2, SentType DEF ClientRequest
  <2> QED BY <1>2, <2>1, <2>3 DEF ClientRequest
<1>3. CASE ClientReply(d)
  <2>1. CASE Head(r2c[d]) \in Requests
    <3>1. /\ r2c' = Received(r2c, d) /\ Arrives(r2c, d)
          /\ got' = [got EXCEPT ![d] = Head(r2c[d])]
          /\ UNCHANGED <<cliPc, c2r>>
      BY <1>3, <2>1 DEF ClientReply
    <3>2. r2c' \in [Downloads -> Seq(Messages)]
      BY <3>1, ReceivedType
    <3>3. got' \in [Downloads -> 0..MaxRequests]
      BY <3>1, <2>1, RequestsAssumption DEF Requests
    <3> QED BY <1>3, <3>1, <3>2, <3>3 DEF ClientReply
  <2>2. CASE Head(r2c[d]) \notin Requests
    <3>1. Leave(d) /\ UNCHANGED got
      BY <1>3, <2>2 DEF ClientReply
    <3>2. /\ c2r' \in [Downloads -> Seq(Messages)]
          /\ r2c' \in [Downloads -> Seq(Messages)]
          /\ cliPc' \in [Downloads -> EndStates]
      BY <3>1, SentType, DroppedType, MarkerType DEF Leave
    <3> QED BY <1>3, <3>1, <3>2 DEF ClientReply
  <2> QED BY <2>1, <2>2
<1>4. CASE ClientLeave(d)
  BY <1>4, SentType, DroppedType, MarkerType DEF ClientLeave, Leave
<1>5. CASE ClientConnect(d)
  BY <1>5, MarkerType DEF ClientConnect, ConStates
<1> QED BY <1>1, <1>2, <1>3, <1>4, <1>5, <1>6 DEF Session, Client

\* Every step keeps the types.
LEMMA TypeStep == TypeOK /\ [Next]_vars => TypeOK'
<1> SUFFICES ASSUME TypeOK, [Next]_vars PROVE TypeOK'
  OBVIOUS
<1>1. CASE UNCHANGED vars
  BY <1>1 DEF TypeOK, vars
<1>2. CASE Next
  BY <1>2, RegisterType, HostType, ConnectType, DataType, PipeType, EndsType DEF Next
<1> QED BY <1>1, <1>2

\* Type correctness: every variable of the relay, the hosts and the
\* downloaders keeps its type in every behaviour.
THEOREM TypeCorrect == Spec => []TypeOK
<1>1. Init => TypeOK
  BY RequestsAssumption DEF Init, TypeOK, RegStates, HostStates, ConStates, DatStates, PipeStates, EndStates
<1> QED BY <1>1, TypeStep, PTL DEF Spec
-----------------------------------------------------------------------------
\* Steps that leave the relay's threads and the control queues alone.
LEMMA RelayInvFrame ==
  ASSUME RelayInv, UNCHANGED <<relayVars, ctrlQ, servedBy>>,
         \A d \in Downloads : cliPc'[d] = "none" <=> cliPc[d] = "none"
  PROVE  RelayInv'
  BY DEF RelayInv, RegistrationIsLive, PendingOwned, ConnectInv, DataInv, QueueInv, Announced

\* A control queue that is not touched stays sound while its streams stay
\* announced.
LEMMA QueueFrame ==
  ASSUME TypeOK, NEW g \in Hosts, QueueInv(g), ctrlQ'[g] = ctrlQ[g],
         \A d \in Downloads : Announced(d, g) => Announced(d, g)'
  PROVE  QueueInv(g)'
<1>1. \A i \in 1..Len(ctrlQ[g]) : ctrlQ[g][i] \in Downloads
  BY DEF TypeOK
<1> QED BY <1>1 DEF QueueInv

LEMMA NextIndex ==
  ASSUME NEW n \in Nat, NEW i \in 1..n - 1
  PROVE  i + 1 \in 1..n /\ i + 1 # 1
  OBVIOUS

LEMMA LastOrBefore ==
  ASSUME NEW n \in Nat, NEW i \in 1..n + 1
  PROVE  i \in 1..n \/ i = n + 1
  OBVIOUS

LEMMA EmptyQueue ==
  ASSUME NEW g \in Hosts, ctrlQ'[g] = <<>>
  PROVE  QueueInv(g)'
  BY DEF QueueInv

LEMMA RegisterInv ==
  ASSUME TypeOK, RelayInv, NEW h \in Hosts, RegisterHandler(h)
  PROVE  RelayInv'
<1> USE DEF TypeOK, RelayInv
<1>1. CASE Register(h)
  <2>1. RegistrationIsLive'
    BY <1>1 DEF Register, RegistrationIsLive
  <2>2. PendingOwned'
    BY <1>1 DEF Register, PendingOwned
  <2>3. ASSUME NEW e \in Downloads PROVE ConnectInv(e)' /\ DataInv(e)'
    BY <1>1 DEF Register, PendingOwned, ConnectInv, DataInv
  <2>4. ASSUME NEW g \in Hosts PROVE QueueInv(g)'
    BY <1>1, QueueFrame DEF Register, Announced
  <2> QED BY <2>1, <2>2, <2>3, <2>4
<1>2. CASE Unregister(h)
  <2>1. RegistrationIsLive'
    BY <1>2 DEF Unregister, RegistrationIsLive
  <2>2. PendingOwned'
    BY <1>2 DEF Unregister, PendingOwned
  <2>3. ASSUME NEW e \in Downloads PROVE ConnectInv(e)' /\ DataInv(e)'
    BY <1>2 DEF Unregister, PendingOwned, ConnectInv, DataInv
  <2>4. ASSUME NEW g \in Hosts PROVE QueueInv(g)'
    BY <1>2, QueueFrame DEF Unregister, Announced
  <2> QED BY <2>1, <2>2, <2>3, <2>4
<1> QED BY <1>1, <1>2 DEF RegisterHandler

LEMMA ConnectHandlerInv ==
  ASSUME TypeOK, RelayInv, NEW d \in Downloads, ConnectHandler(d)
  PROVE  RelayInv'
<1> USE DEF TypeOK, RelayInv
<1>1. CASE ConnectLookup(d)
  <2>1. RegistrationIsLive'
    BY <1>1 DEF ConnectLookup, RegistrationIsLive
  <2>2. PendingOwned'
    BY <1>1 DEF ConnectLookup, PendingOwned
  <2>3. ASSUME NEW e \in Downloads PROVE ConnectInv(e)' /\ DataInv(e)'
    <3> DEFINE found == registrations[WantedToken[d]]
    <3>1. /\ found \in Hosts /\ found # None
          /\ HostToken[found] = WantedToken[d] /\ regPc[found] = "watch"
      <4>1. WantedToken[d] \in Tokens
        BY TokenAssumption
      <4>2. found # None /\ found \in Hosts
        BY <1>1, <4>1 DEF ConnectLookup
      <4> QED BY <4>1, <4>2 DEF RegistrationIsLive
    <3>2. ctrlOf' = [ctrlOf EXCEPT ![d] = found] /\ regPc' = regPc
      BY <1>1 DEF ConnectLookup
    <3> HIDE DEF found
    <3> QED BY <1>1, <3>1, <3>2 DEF ConnectLookup, ConnectInv, DataInv
  <2>4. ASSUME NEW g \in Hosts PROVE QueueInv(g)'
    BY <1>1, QueueFrame DEF ConnectLookup, Announced
  <2> QED BY <2>1, <2>2, <2>3, <2>4
<1>2. CASE ConnectRefuse(d)
  <2>1. RegistrationIsLive'
    BY <1>2 DEF ConnectRefuse, RegistrationIsLive
  <2>2. PendingOwned'
    BY <1>2 DEF ConnectRefuse, PendingOwned
  <2>3. ASSUME NEW e \in Downloads PROVE ConnectInv(e)' /\ DataInv(e)'
    BY <1>2 DEF ConnectRefuse, PendingOwned, ConnectInv, DataInv
  <2>4. ASSUME NEW g \in Hosts PROVE QueueInv(g)'
    BY <1>2, QueueFrame DEF ConnectRefuse, Announced
  <2> QED BY <2>1, <2>2, <2>3, <2>4
<1>3. CASE ConnectPend(d)
  <2>1. RegistrationIsLive'
    BY <1>3 DEF ConnectPend, RegistrationIsLive
  <2>2. PendingOwned'
    BY <1>3 DEF ConnectPend, PendingOwned, ConnectInv
  <2>3. ASSUME NEW e \in Downloads PROVE ConnectInv(e)' /\ DataInv(e)'
    BY <1>3 DEF ConnectPend, PendingOwned, ConnectInv, DataInv
  <2>4. ASSUME NEW g \in Hosts PROVE QueueInv(g)'
    BY <1>3, QueueFrame DEF ConnectPend, Announced
  <2> QED BY <2>1, <2>2, <2>3, <2>4
<1>4. CASE ConnectAnnounce(d)
  <2>1. RegistrationIsLive'
    BY <1>4 DEF ConnectAnnounce, RegistrationIsLive
  <2>2. PendingOwned'
    BY <1>4 DEF ConnectAnnounce, PendingOwned
  <2>3. ASSUME NEW e \in Downloads PROVE ConnectInv(e)' /\ DataInv(e)'
    BY <1>4 DEF ConnectAnnounce, PendingOwned, ConnectInv, DataInv
  <2>4. ASSUME NEW g \in Hosts PROVE QueueInv(g)'
    <3>1. \A e \in Downloads : Announced(e, g) => Announced(e, g)'
      BY <1>4 DEF ConnectAnnounce, Announced
    <3>2. CASE ctrlQ'[g] = ctrlQ[g]
      BY <3>1, <3>2, QueueFrame
    <3>3. CASE g = ctrlOf[d] /\ ctrlQ'[g] = Append(ctrlQ[g], d)
      <4>1. Announced(d, g)' /\ ~Announced(d, g)
        BY <1>4, <3>3 DEF ConnectAnnounce, Announced, ConnectInv
      <4>2. \A i \in 1..Len(ctrlQ[g]) : ctrlQ[g][i] \in Downloads /\ ctrlQ[g][i] # d
        BY <4>1 DEF QueueInv
      <4>3. /\ Len(ctrlQ'[g]) = Len(ctrlQ[g]) + 1
            /\ Len(ctrlQ[g]) \in Nat
            /\ \A i \in 1..Len(ctrlQ[g]) : ctrlQ'[g][i] = ctrlQ[g][i]
            /\ ctrlQ'[g][Len(ctrlQ[g]) + 1] = d
        BY <3>3
      <4> DEFINE n == Len(ctrlQ[g])
                 Stays(x) == /\ conPc'[x] \in {"wait", "giveup", "closed"}
                             /\ datPc'[x] = "none"
                             /\ ctrlOf'[x] = g
      <4>4. \A i \in 1..n : Stays(ctrlQ[g][i])
        BY <3>1, <4>2 DEF QueueInv, Announced
      <4>5. \A i \in 1..n + 1 : Stays(ctrlQ'[g][i])
        <5> SUFFICES ASSUME NEW i \in 1..n + 1 PROVE Stays(ctrlQ'[g][i])
          OBVIOUS
        <5>1. CASE i = n + 1
          BY <4>1, <4>3, <5>1 DEF Announced
        <5>2. CASE i \in 1..n
          BY <4>3, <4>4, <5>2 DEF Announced
        <5> QED BY <4>3, <5>1, <5>2
      <4>6. \A i, j \in 1..n + 1 : i # j => ctrlQ'[g][i] # ctrlQ'[g][j]
        <5> SUFFICES ASSUME NEW i \in 1..n + 1, NEW j \in 1..n + 1, i # j
                     PROVE  ctrlQ'[g][i] # ctrlQ'[g][j]
          OBVIOUS
        <5>0. (i \in 1..n \/ i = n + 1) /\ (j \in 1..n \/ j = n + 1)
          BY <4>3, LastOrBefore
        <5>1. CASE i \in 1..n /\ j \in 1..n
          BY <4>3, <5>1 DEF QueueInv
        <5>2. CASE i = n + 1 /\ j \in 1..n
          BY <4>2, <4>3, <5>2
        <5>3. CASE j = n + 1 /\ i \in 1..n
          BY <4>2, <4>3, <5>3
        <5> QED BY <5>0, <5>1, <5>2, <5>3
      <4> QED BY <4>3, <4>5, <4>6 DEF QueueInv, Announced
    <3> QED BY <1>4, <3>2, <3>3 DEF ConnectAnnounce
  <2> QED BY <2>1, <2>2, <2>3, <2>4
<1>5. CASE ConnectAnnounceFails(d)
  <2>1. RegistrationIsLive'
    BY <1>5 DEF ConnectAnnounceFails, RegistrationIsLive
  <2>2. PendingOwned'
    BY <1>5 DEF ConnectAnnounceFails, PendingOwned
  <2>3. ASSUME NEW e \in Downloads PROVE ConnectInv(e)' /\ DataInv(e)'
    BY <1>5 DEF ConnectAnnounceFails, PendingOwned, ConnectInv, DataInv
  <2>4. ASSUME NEW g \in Hosts PROVE QueueInv(g)'
    BY <1>5, QueueFrame DEF ConnectAnnounceFails, Announced
  <2> QED BY <2>1, <2>2, <2>3, <2>4
<1>6. CASE ConnectTimeout(d)
  <2>1. RegistrationIsLive'
    BY <1>6 DEF ConnectTimeout, RegistrationIsLive
  <2>2. PendingOwned'
    BY <1>6 DEF ConnectTimeout, PendingOwned
  <2>3. ASSUME NEW e \in Downloads PROVE ConnectInv(e)' /\ DataInv(e)'
    BY <1>6 DEF ConnectTimeout, PendingOwned, ConnectInv, DataInv
  <2>4. ASSUME NEW g \in Hosts PROVE QueueInv(g)'
    BY <1>6, QueueFrame DEF ConnectTimeout, Announced
  <2> QED BY <2>1, <2>2, <2>3, <2>4
<1>7. CASE ConnectGiveUp(d)
  <2>1. RegistrationIsLive'
    BY <1>7 DEF ConnectGiveUp, RegistrationIsLive
  <2>2. PendingOwned'
    BY <1>7 DEF ConnectGiveUp, PendingOwned
  <2>3. ASSUME NEW e \in Downloads PROVE ConnectInv(e)' /\ DataInv(e)'
    BY <1>7 DEF ConnectGiveUp, PendingOwned, ConnectInv, DataInv
  <2>4. ASSUME NEW g \in Hosts PROVE QueueInv(g)'
    BY <1>7, QueueFrame DEF ConnectGiveUp, Announced
  <2> QED BY <2>1, <2>2, <2>3, <2>4
<1>8. CASE ConnectPair(d)
  <2>1. RegistrationIsLive'
    BY <1>8 DEF ConnectPair, RegistrationIsLive
  <2>2. PendingOwned'
    BY <1>8 DEF ConnectPair, PendingOwned, DataInv, ConnectInv
  <2>3. ASSUME NEW e \in Downloads PROVE ConnectInv(e)' /\ DataInv(e)'
    BY <1>8 DEF ConnectPair, PendingOwned, ConnectInv, DataInv
  <2>4. ASSUME NEW g \in Hosts PROVE QueueInv(g)'
    BY <1>8, QueueFrame DEF ConnectPair, Announced, DataInv
  <2> QED BY <2>1, <2>2, <2>3, <2>4
<1>9. CASE ConnectFinish(d)
  <2>1. RegistrationIsLive'
    BY <1>9 DEF ConnectFinish, RegistrationIsLive
  <2>2. PendingOwned'
    BY <1>9 DEF ConnectFinish, PendingOwned
  <2>3. ASSUME NEW e \in Downloads PROVE ConnectInv(e)' /\ DataInv(e)'
    BY <1>9 DEF ConnectFinish, PendingOwned, ConnectInv, DataInv
  <2>4. ASSUME NEW g \in Hosts PROVE QueueInv(g)'
    BY <1>9, QueueFrame DEF ConnectFinish, Announced
  <2> QED BY <2>1, <2>2, <2>3, <2>4
<1> QED BY <1>1, <1>2, <1>3, <1>4, <1>5, <1>6, <1>7, <1>8, <1>9 DEF ConnectHandler

LEMMA DataHandlerInv ==
  ASSUME TypeOK, RelayInv, NEW d \in Downloads, DataHandler(d)
  PROVE  RelayInv'
<1> USE DEF TypeOK, RelayInv
<1>1. CASE DataPop(d)
  <2>1. RegistrationIsLive'
    BY <1>1 DEF DataPop, RegistrationIsLive
  <2>2. PendingOwned'
    BY <1>1 DEF DataPop, PendingOwned
  <2>3. ASSUME NEW e \in Downloads PROVE ConnectInv(e)' /\ DataInv(e)'
    BY <1>1 DEF DataPop, PendingOwned, ConnectInv, DataInv
  <2>4. ASSUME NEW g \in Hosts PROVE QueueInv(g)'
    BY <1>1, QueueFrame DEF DataPop, Announced
  <2> QED BY <2>1, <2>2, <2>3, <2>4
<1>2. CASE DataAssign(d)
  <2>1. RegistrationIsLive'
    BY <1>2 DEF DataAssign, RegistrationIsLive
  <2>2. PendingOwned'
    BY <1>2 DEF DataAssign, PendingOwned
  <2>3. ASSUME NEW e \in Downloads PROVE ConnectInv(e)' /\ DataInv(e)'
    BY <1>2 DEF DataAssign, PendingOwned, ConnectInv, DataInv
  <2>4. ASSUME NEW g \in Hosts PROVE QueueInv(g)'
    BY <1>2, QueueFrame DEF DataAssign, Announced
  <2> QED BY <2>1, <2>2, <2>3, <2>4
<1>3. CASE DataReady(d)
  <2>1. RegistrationIsLive'
    BY <1>3 DEF DataReady, RegistrationIsLive
  <2>2. PendingOwned'
    BY <1>3 DEF DataReady, PendingOwned
  <2>3. ASSUME NEW e \in Downloads PROVE ConnectInv(e)' /\ DataInv(e)'
    BY <1>3 DEF DataReady, PendingOwned, ConnectInv, DataInv
  <2>4. ASSUME NEW g \in Hosts PROVE QueueInv(g)'
    BY <1>3, QueueFrame DEF DataReady, Announced
  <2> QED BY <2>1, <2>2, <2>3, <2>4
<1>4. CASE DataRelease(d)
  <2>1. RegistrationIsLive'
    BY <1>4 DEF DataRelease, RegistrationIsLive
  <2>2. PendingOwned'
    BY <1>4 DEF DataRelease, PendingOwned
  <2>3. ASSUME NEW e \in Downloads PROVE ConnectInv(e)' /\ DataInv(e)'
    BY <1>4 DEF DataRelease, PendingOwned, ConnectInv, DataInv
  <2>4. ASSUME NEW g \in Hosts PROVE QueueInv(g)'
    BY <1>4, QueueFrame DEF DataRelease, Announced
  <2> QED BY <2>1, <2>2, <2>3, <2>4
<1> QED BY <1>1, <1>2, <1>3, <1>4 DEF DataHandler

LEMMA PipeInv ==
  ASSUME TypeOK, RelayInv, NEW d \in Downloads, PipeUp(d) \/ PipeDown(d)
  PROVE  RelayInv'
<1> USE DEF TypeOK, RelayInv
<1>1. CASE PipeUpForward(d) \/ PipeDownForward(d)
  BY <1>1, RelayInvFrame DEF PipeUpForward, PipeDownForward
<1>2. CASE PipeUpEnd(d)
  <2>1. RegistrationIsLive'
    BY <1>2 DEF PipeUpEnd, RegistrationIsLive
  <2>2. PendingOwned'
    BY <1>2 DEF PipeUpEnd, PendingOwned
  <2>3. ASSUME NEW e \in Downloads PROVE ConnectInv(e)' /\ DataInv(e)'
    BY <1>2 DEF PipeUpEnd, PendingOwned, ConnectInv, DataInv
  <2>4. ASSUME NEW g \in Hosts PROVE QueueInv(g)'
    BY <1>2, QueueFrame DEF PipeUpEnd, Announced
  <2> QED BY <2>1, <2>2, <2>3, <2>4
<1>3. CASE PipeDownEnd(d)
  <2>1. RegistrationIsLive'
    BY <1>3 DEF PipeDownEnd, RegistrationIsLive
  <2>2. PendingOwned'
    BY <1>3 DEF PipeDownEnd, PendingOwned
  <2>3. ASSUME NEW e \in Downloads PROVE ConnectInv(e)' /\ DataInv(e)'
    BY <1>3 DEF PipeDownEnd, PendingOwned, ConnectInv, DataInv
  <2>4. ASSUME NEW g \in Hosts PROVE QueueInv(g)'
    BY <1>3, QueueFrame DEF PipeDownEnd, Announced
  <2> QED BY <2>1, <2>2, <2>3, <2>4
<1> QED BY <1>1, <1>2, <1>3 DEF PipeUp, PipeDown

LEMMA HostInv ==
  ASSUME TypeOK, RelayInv, NEW h \in Hosts, HostLoop(h) \/ HostRegister(h) \/ HostExit(h) \/ CutControl(h)
  PROVE  RelayInv'
<1> USE DEF TypeOK, RelayInv
<1>1. CASE HostRegister(h) \/ CutControl(h)
  BY <1>1, RelayInvFrame DEF HostRegister, CutControl
<1>2. CASE HostDialBack(h)
  <2>0. Head(ctrlQ[h]) \in Downloads /\ Announced(Head(ctrlQ[h]), h)
    <3>1. 1 \in 1..Len(ctrlQ[h]) /\ Head(ctrlQ[h]) = ctrlQ[h][1] /\ ctrlQ[h][1] \in Downloads
      BY <1>2 DEF HostDialBack
    <3> QED BY <3>1 DEF QueueInv
  <2>1. RegistrationIsLive'
    BY <1>2 DEF HostDialBack, RegistrationIsLive
  <2>2. PendingOwned'
    BY <1>2, <2>0 DEF HostDialBack, PendingOwned, Announced
  <2>3. ASSUME NEW e \in Downloads PROVE ConnectInv(e)' /\ DataInv(e)'
    <3> DEFINE n == Head(ctrlQ[h])
    <3>1. /\ servedBy' = [servedBy EXCEPT ![n] = h]
          /\ datPc' = [datPc EXCEPT ![n] = "hello"]
          /\ UNCHANGED <<conPc, ctrlOf, cliPc, regPc, pipeUp, pipeDown, ready, done, dataConn>>
      BY <1>2 DEF HostDialBack
    <3> HIDE DEF n
    <3>2. CASE e = n
      BY <2>0, <3>1, <3>2, NoneAssumption DEF n, Announced, ConnectInv, DataInv
    <3>3. CASE e # n
      BY <3>1, <3>3 DEF ConnectInv, DataInv
    <3> QED BY <3>2, <3>3
  <2>4. ASSUME NEW g \in Hosts PROVE QueueInv(g)'
    <3> DEFINE n == Head(ctrlQ[h])
    <3>1. ctrlQ[h] # <<>> /\ n \in Downloads /\ n = ctrlQ[h][1] /\ 1 \in 1..Len(ctrlQ[h])
      BY <1>2 DEF HostDialBack
    <3>2. \A e \in Downloads : e # n /\ Announced(e, g) => Announced(e, g)'
      BY <1>2 DEF HostDialBack, Announced
    <3>3. CASE g # h
      <4>1. ~Announced(n, g)
        BY <3>1, <3>3 DEF QueueInv, Announced
      <4> QED BY <1>2, <3>2, <3>3, <4>1, QueueFrame DEF HostDialBack
    <3>4. CASE g = h
      <4>1. /\ Len(ctrlQ[h]) \in Nat
            /\ ctrlQ'[h] = Tail(ctrlQ[h])
            /\ Len(ctrlQ'[h]) = Len(ctrlQ[h]) - 1
            /\ \A i \in 1..Len(ctrlQ'[h]) :
                 ctrlQ'[h][i] = ctrlQ[h][i + 1] /\ ctrlQ[h][i + 1] \in Downloads
        <5>1. ctrlQ[h] \in Seq(Downloads) /\ ctrlQ[h] # <<>>
          BY <3>1 DEF TypeOK
        <5>2. ctrlQ'[h] = Tail(ctrlQ[h])
          BY <1>2 DEF HostDialBack, TypeOK
        <5>3. Len(ctrlQ'[h]) = Len(ctrlQ[h]) - 1 /\ Len(ctrlQ[h]) \in Nat
          BY <5>1, <5>2, HeadTailProperties, LenProperties
        <5>4. \A i \in 1..Len(ctrlQ'[h]) : ctrlQ'[h][i] = ctrlQ[h][i + 1]
          BY <5>1, <5>2, HeadTailProperties
        <5>5. ASSUME NEW i \in 1..Len(ctrlQ'[h]) PROVE ctrlQ[h][i + 1] \in Downloads
          <6>1. i + 1 \in 1..Len(ctrlQ[h])
            BY <5>3, NextIndex
          <6> QED BY <5>1, <6>1, ElementOfSeq
        <5> QED BY <5>2, <5>3, <5>4, <5>5
      <4>2. \A i \in 1..Len(ctrlQ'[h]) : ctrlQ[h][i + 1] # n
        <5> SUFFICES ASSUME NEW i \in 1..Len(ctrlQ'[h]) PROVE ctrlQ[h][i + 1] # n
          OBVIOUS
        <5>1. i + 1 \in 1..Len(ctrlQ[h]) /\ i + 1 # 1
          BY <4>1, NextIndex
        <5> QED BY <3>1, <5>1 DEF QueueInv
      <4> DEFINE Stays(x) == /\ conPc'[x] \in {"wait", "giveup", "closed"}
                             /\ datPc'[x] = "none"
                             /\ ctrlOf'[x] = h
      <4>3. \A i \in 1..Len(ctrlQ'[h]) : Stays(ctrlQ'[h][i])
        <5> SUFFICES ASSUME NEW i \in 1..Len(ctrlQ'[h]) PROVE Stays(ctrlQ'[h][i])
          OBVIOUS
        <5>1. i + 1 \in 1..Len(ctrlQ[h])
          BY <4>1, NextIndex
        <5>2. Announced(ctrlQ[h][i + 1], h)
          BY <5>1 DEF QueueInv
        <5>3. Stays(ctrlQ[h][i + 1])
          BY <3>2, <3>4, <4>1, <4>2, <5>2 DEF Announced
        <5> QED BY <4>1, <5>3
      <4>4. \A i, j \in 1..Len(ctrlQ'[h]) : i # j => ctrlQ'[h][i] # ctrlQ'[h][j]
        <5> SUFFICES ASSUME NEW i \in 1..Len(ctrlQ'[h]), NEW j \in 1..Len(ctrlQ'[h]), i # j
                     PROVE  ctrlQ'[h][i] # ctrlQ'[h][j]
          OBVIOUS
        <5>1. i + 1 \in 1..Len(ctrlQ[h]) /\ j + 1 \in 1..Len(ctrlQ[h]) /\ i + 1 # j + 1
          BY <4>1, NextIndex
        <5> QED BY <4>1, <5>1 DEF QueueInv
      <4> QED BY <3>4, <4>3, <4>4 DEF QueueInv, Announced
    <3> QED BY <3>3, <3>4
  <2> QED BY <2>1, <2>2, <2>3, <2>4
<1>3. CASE HostDialBackFails(h) \/ HostControlLost(h) \/ HostExit(h)
  <2>1. /\ UNCHANGED <<relayVars, servedBy, cliPc>>
        /\ ctrlQ' = [ctrlQ EXCEPT ![h] = <<>>]
    BY <1>3 DEF HostDialBackFails, HostControlLost, HostExit
  <2>2. RegistrationIsLive' /\ PendingOwned'
    BY <2>1 DEF RegistrationIsLive, PendingOwned
  <2>3. ASSUME NEW e \in Downloads PROVE ConnectInv(e)' /\ DataInv(e)'
    BY <2>1 DEF ConnectInv, DataInv
  <2>4. ASSUME NEW g \in Hosts PROVE QueueInv(g)'
    BY <2>1, QueueFrame, EmptyQueue DEF Announced
  <2> QED BY <2>2, <2>3, <2>4
<1> QED BY <1>1, <1>2, <1>3 DEF HostLoop

LEMMA EndsInv ==
  ASSUME TypeOK, RelayInv, NEW d \in Downloads, Session(d) \/ Client(d) \/ ClientConnect(d)
  PROVE  RelayInv'
<1> USE DEF TypeOK, RelayInv
<1>1. CASE Session(d) \/ Client(d)
  BY <1>1, RelayInvFrame
     DEF Session, SessionServe, SessionEnds, Client, ClientRequest, ClientReply, ClientLeave,
         Leave, ClientOpen
<1>2. CASE ClientConnect(d)
  <2>1. RegistrationIsLive'
    BY <1>2 DEF ClientConnect, RegistrationIsLive
  <2>2. PendingOwned'
    BY <1>2 DEF ClientConnect, PendingOwned, ConnectInv
  <2>3. ASSUME NEW e \in Downloads PROVE ConnectInv(e)' /\ DataInv(e)'
    BY <1>2 DEF ClientConnect, PendingOwned, ConnectInv, DataInv
  <2>4. ASSUME NEW g \in Hosts PROVE QueueInv(g)'
    BY <1>2, QueueFrame DEF ClientConnect, Announced, ConnectInv
  <2> QED BY <2>1, <2>2, <2>3, <2>4
<1> QED BY <1>1, <1>2 DEF Client

\* The strengthening is inductive.
LEMMA RelayStep == TypeOK /\ RelayInv /\ [Next]_vars => RelayInv'
<1> SUFFICES ASSUME TypeOK, RelayInv, [Next]_vars PROVE RelayInv'
  OBVIOUS
<1>1. CASE UNCHANGED vars
  BY <1>1, RelayInvFrame DEF vars
<1>2. CASE Next
  BY <1>2, RegisterInv, HostInv, ConnectHandlerInv, DataHandlerInv, PipeInv, EndsInv DEF Next
<1> QED BY <1>1, <1>2

LEMMA RelayInit == Init => RelayInv
  BY NoneAssumption
     DEF Init, RelayInv, RegistrationIsLive, PendingOwned, ConnectInv, DataInv, QueueInv

\* The strengthening holds in every reachable state.
THEOREM RelayInvariant == Spec => []RelayInv
<1> QED BY RelayInit, RelayStep, TypeCorrect, PTL DEF Spec

\* A lookup only ever finds a connection whose handler still watches it.
THEOREM NothingLingers == Spec => []RegistrationIsLive
<1>1. RelayInv => RegistrationIsLive
  BY DEF RelayInv
<1> QED BY <1>1, RelayInvariant, PTL

\* A stream id stays redeemable exactly while its CONNECT handler is there.
THEOREM NoLeakedStream == Spec => []PendingOwned
<1>1. RelayInv => PendingOwned
  BY DEF RelayInv
<1> QED BY <1>1, RelayInvariant, PTL

\* No handler returns, closing its socket, while a pipe still uses it.
THEOREM PipesOutliveNobody == Spec => []NoEarlyClose
<1>1. TypeOK /\ RelayInv => NoEarlyClose
  BY DEF TypeOK, ConStates, PipeStates, RelayInv, ConnectInv, DataInv, NoEarlyClose
<1> QED BY <1>1, TypeCorrect, RelayInvariant, PTL

\* A paired downloader is connected to the host that was looked up for it.
THEOREM NoCrossedLines == Spec => []RightHost
<1>1. TypeOK /\ RelayInv => RightHost
  BY DEF TypeOK, RelayInv, ConnectInv, DataInv, RightHost
<1> QED BY <1>1, TypeCorrect, RelayInvariant, PTL

\* A registration is only ever removed by its own handler.
THEOREM RegistrationsKept == Spec => OnlyOwnEntryRemoved
<1> DEFINE Kept == \A t \in Tokens :
             registrations[t] # None /\ registrations'[t] = None
               => regPc'[registrations[t]] = "closed"
<1>1. TypeOK /\ [Next]_vars => [Kept]_vars
  <2> SUFFICES ASSUME TypeOK, Next PROVE Kept
    BY DEF vars
  <2>1. ASSUME NEW h \in Hosts, Register(h) PROVE Kept
    BY <2>1, NoneAssumption, TokenAssumption DEF TypeOK, Register
  <2>2. ASSUME NEW h \in Hosts, Unregister(h) PROVE Kept
    BY <2>2, TokenAssumption DEF TypeOK, Unregister
  <2>3. CASE registrations' = registrations
    BY <2>3
  <2>4. CASE \E h \in Hosts : RegisterHandler(h) \/ HostLoop(h)
                              \/ HostRegister(h) \/ HostExit(h) \/ CutControl(h)
    <3>1. PICK h \in Hosts : RegisterHandler(h) \/ HostLoop(h)
                              \/ HostRegister(h) \/ HostExit(h) \/ CutControl(h)
      BY <2>4
    <3>2. HostLoop(h) \/ HostRegister(h) \/ HostExit(h) \/ CutControl(h)
            => registrations' = registrations
      BY DEF HostLoop, HostDialBack, HostDialBackFails, HostControlLost,
             HostRegister, HostExit, CutControl
    <3> QED BY <2>1, <2>2, <2>3, <3>1, <3>2 DEF RegisterHandler
  <2>5. CASE \E e \in Downloads : ConnectHandler(e) \/ DataHandler(e) \/ PipeUp(e) \/ PipeDown(e)
                                  \/ Session(e) \/ Client(e) \/ ClientConnect(e)
    <3>1. PICK e \in Downloads : ConnectHandler(e) \/ DataHandler(e) \/ PipeUp(e) \/ PipeDown(e)
                                  \/ Session(e) \/ Client(e) \/ ClientConnect(e)
      BY <2>5
    <3>2. ConnectHandler(e) => registrations' = registrations
      BY DEF ConnectHandler, ConnectLookup, ConnectRefuse, ConnectPend, ConnectAnnounce,
             ConnectAnnounceFails, ConnectTimeout, ConnectGiveUp, ConnectPair, ConnectFinish
    <3>3. DataHandler(e) => registrations' = registrations
      BY DEF DataHandler, DataPop, DataAssign, DataReady, DataRelease
    <3>4. PipeUp(e) \/ PipeDown(e) => registrations' = registrations
      BY DEF PipeUp, PipeUpForward, PipeUpEnd, PipeDown, PipeDownForward, PipeDownEnd
    <3>5. Session(e) \/ Client(e) \/ ClientConnect(e) => registrations' = registrations
      BY DEF Session, SessionServe, SessionEnds, Client, ClientRequest, ClientReply, ClientLeave,
             ClientConnect
    <3> QED BY <2>3, <3>1, <3>2, <3>3, <3>4, <3>5
  <2> QED BY <2>4, <2>5 DEF Next
<1> QED BY <1>1, TypeCorrect, PTL DEF Spec, OnlyOwnEntryRemoved
-----------------------------------------------------------------------------
(***************************************************************************)
(* What the channels of a stream hold.                                     *)
(***************************************************************************)

\* Putting messages behind one another.
LEMMA TwoMessages ==
  ASSUME NEW a \in Messages, NEW b \in Messages
  PROVE  <<a>> \o <<b>> = <<a, b>>
<1> DEFINE s == <<a>> \o <<b>>
<1>1. <<a>> \in Seq(Messages) /\ <<b>> \in Seq(Messages) /\ <<a, b>> \in Seq(Messages)
  OBVIOUS
<1>2. s \in Seq(Messages) /\ Len(s) = 2 /\ s[1] = a /\ s[2] = b
  BY <1>1, ConcatProperties
<1> HIDE DEF s
<1>3. Len(s) = Len(<<a, b>>) /\ \A i \in 1..Len(s) : s[i] = <<a, b>>[i]
  BY <1>2
<1>4. s = <<a, b>>
  BY <1>1, <1>2, <1>3, SeqEqual
<1> QED BY <1>4 DEF s

LEMMA ThreeMessages ==
  ASSUME NEW a \in Messages, NEW b \in Messages, NEW c \in Messages
  PROVE  <<a, b>> \o <<c>> = <<a, b, c>>
<1> DEFINE s == <<a, b>> \o <<c>>
<1>1. <<a, b>> \in Seq(Messages) /\ <<c>> \in Seq(Messages) /\ <<a, b, c>> \in Seq(Messages)
  OBVIOUS
<1>2. s \in Seq(Messages) /\ Len(s) = 3 /\ s[1] = a /\ s[2] = b /\ s[3] = c
  BY <1>1, ConcatProperties
<1> HIDE DEF s
<1>3. Len(s) = Len(<<a, b, c>>) /\ \A i \in 1..Len(s) : s[i] = <<a, b, c>>[i]
  BY <1>2
<1>4. s = <<a, b, c>>
  BY <1>1, <1>2, <1>3, SeqEqual
<1> QED BY <1>4 DEF s

LEMMA NoMessages ==
  ASSUME NEW s \in Seq(Messages)
  PROVE  s \o <<>> = s /\ <<>> \o s = s
  BY ConcatEmptySeq

\* What a channel with at most one message and the end of the stream does
\* when it is read and written.
LEMMA Channels ==
  ASSUME NEW n \in Messages
  PROVE  /\ <<n>> # <<>> /\ <<n, EOF>> # <<>> /\ <<EOF>> # <<>>
         /\ Head(<<n>>) = n /\ Head(<<n, EOF>>) = n /\ Head(<<EOF>>) = EOF
         /\ Tail(<<n>>) = <<>> /\ Tail(<<n, EOF>>) = <<EOF>> /\ Tail(<<EOF>>) = <<>>
         /\ <<>> \o <<n>> = <<n>> /\ <<>> \o <<EOF>> = <<EOF>>
         /\ <<n>> \o <<EOF>> = <<n, EOF>>
         /\ <<>> \o <<Err, EOF>> = <<Err, EOF>>
         /\ <<n>> \o <<>> = <<n>> /\ <<n, EOF>> \o <<>> = <<n, EOF>>
         /\ <<EOF>> \o <<>> = <<EOF>> /\ <<>> \o <<>> = <<>>
<1>1. Hello \in Messages /\ EOF \in Messages /\ Err \in Messages
  BY DEF Messages
<1>2. /\ <<>> \in Seq(Messages) /\ <<EOF>> \in Seq(Messages) /\ <<n>> \in Seq(Messages)
      /\ <<n, EOF>> \in Seq(Messages) /\ <<Err, EOF>> \in Seq(Messages)
  BY <1>1
<1>3. /\ <<n>> # <<>> /\ <<n, EOF>> # <<>> /\ <<EOF>> # <<>>
      /\ Head(<<n>>) = n /\ Head(<<n, EOF>>) = n /\ Head(<<EOF>>) = EOF
      /\ Tail(<<n>>) = <<>> /\ Tail(<<n, EOF>>) = <<EOF>> /\ Tail(<<EOF>>) = <<>>
  OBVIOUS
<1>4. <<n>> \o <<EOF>> = <<n, EOF>>
  BY <1>1, TwoMessages
<1>5. /\ <<>> \o <<n>> = <<n>> /\ <<>> \o <<EOF>> = <<EOF>>
      /\ <<>> \o <<Err, EOF>> = <<Err, EOF>>
      /\ <<n>> \o <<>> = <<n>> /\ <<n, EOF>> \o <<>> = <<n, EOF>>
      /\ <<EOF>> \o <<>> = <<EOF>> /\ <<>> \o <<>> = <<>>
  BY <1>2, NoMessages
<1> QED BY <1>3, <1>4, <1>5

\* The CONNECT line stays in front while more is sent, and is read first.
LEMMA BehindHello ==
  ASSUME NEW q \in Seq(Messages), NEW m \in Seq(Messages)
  PROVE  /\ Behind(Hello, q) # <<>>
         /\ Tail(Behind(Hello, q)) = q
         /\ Behind(Hello, q) \o m = Behind(Hello, q \o m)
<1>1. Hello \in Messages
  BY DEF Messages
<1>2. <<Hello>> \in Seq(Messages)
  BY <1>1
<1>3. Behind(Hello, q) \o m = Behind(Hello, q \o m)
  BY <1>2, ConcatAssociative DEF Behind
<1> DEFINE s == <<Hello>> \o q
<1>4. /\ s \in Seq(Messages) /\ Len(s) = 1 + Len(q)
      /\ \A i \in 1..Len(s) : s[i] = IF i <= 1 THEN Hello ELSE q[i - 1]
  <2>1. Len(<<Hello>>) = 1 /\ <<Hello>>[1] = Hello
    OBVIOUS
  <2>2. \A i \in 1..Len(s) : i <= 1 => i = 1
    BY <1>2, ConcatProperties
  <2> QED BY <1>2, <2>1, <2>2, ConcatProperties
<1>5. s # <<>>
  BY <1>2, ConcatEqualIffEmpty
<1> HIDE DEF s
<1>6. /\ Tail(s) \in Seq(Messages) /\ Len(Tail(s)) = Len(q)
      /\ \A i \in 1..Len(q) : Tail(s)[i] = q[i]
  <2>1. /\ Tail(s) \in Seq(Messages) /\ Len(Tail(s)) = Len(s) - 1
        /\ \A i \in 1..Len(Tail(s)) : Tail(s)[i] = s[i + 1]
    BY <1>4, <1>5, HeadTailProperties
  <2>2. Len(q) \in Nat
    BY LenProperties
  <2> QED BY <1>4, <2>1, <2>2
<1>7. Tail(s) = q
  BY <1>6, SeqEqual
<1> QED BY <1>3, <1>5, <1>7 DEF s, Behind

\* Steps that leave a channel, and what it depends on, alone.
LEMMA UpFrame ==
  ASSUME NEW e \in Downloads, NEW at, UpFlows(e, at),
         c2r'[e] = c2r[e], r2h'[e] = r2h[e], asked'[e] = asked[e],
         cliPc'[e] = "closed" <=> cliPc[e] = "closed", sesPc'[e] = "open" <=> sesPc[e] = "open",
         \A x \in {"none", "hello", "closed"} : conPc'[e] = x <=> conPc[e] = x,
         datPc'[e] = "closed" <=> datPc[e] = "closed",
         pipeUp'[e] = "ended" <=> pipeUp[e] = "ended", pipeUp'[e] = "off" => pipeUp[e] = "off"
  PROVE  UpFlows(e, at)'
  BY DEF UpFlows, Holds, SessionOpen

\* The way back to the downloader.
LEMMA DownFrame ==
  ASSUME NEW e \in Downloads, NEW at, DownFlows(e, at),
         h2r'[e] = h2r[e], r2c'[e] = r2c[e], asked'[e] = asked[e],
         cliPc'[e] = "open" <=> cliPc[e] = "open", sesPc'[e] = "closed" <=> sesPc[e] = "closed",
         conPc'[e] = "closed" <=> conPc[e] = "closed",
         datPc'[e] = "closed" <=> datPc[e] = "closed",
         pipeUp'[e] = "off" => pipeUp[e] = "off",
         pipeDown'[e] = "ended" <=> pipeDown[e] = "ended"
  PROVE  DownFlows(e, at)'
  BY DEF DownFlows, Holds, ClientOpen

\* The counters of commands and replies.
LEMMA AskedFrame ==
  ASSUME NEW e \in Downloads, NEW at, AskedFlows(e, at),
         asked'[e] = asked[e], got'[e] = got[e], cliPc'[e] = "open" => cliPc[e] = "open",
         sesPc[e] = "closed" => sesPc'[e] = "closed", conPc[e] = "closed" => conPc'[e] = "closed"
  PROVE  AskedFlows(e, at)'
  BY DEF AskedFlows, ClientOpen

\* A step that leaves all of a download's stream alone.
LEMMA ReplyFrame ==
  ASSUME NEW e \in Downloads, ReplyInv(e),
         c2r'[e] = c2r[e], r2h'[e] = r2h[e], h2r'[e] = h2r[e], r2c'[e] = r2c[e],
         asked'[e] = asked[e], got'[e] = got[e], cliPc'[e] = cliPc[e], sesPc'[e] = sesPc[e],
         \A x \in {"none", "hello", "closed"} : conPc'[e] = x <=> conPc[e] = x,
         datPc'[e] = "closed" <=> datPc[e] = "closed",
         pipeUp'[e] = "ended" <=> pipeUp[e] = "ended",
         pipeUp'[e] = "off" => pipeUp[e] = "off",
         pipeDown'[e] = "ended" <=> pipeDown[e] = "ended"
  PROVE  ReplyInv(e)'
<1>1. PICK at \in Places : Flows(e, at)
  BY DEF ReplyInv
<1>2. Flows(e, at)'
  BY <1>1, UpFrame, DownFrame, AskedFrame DEF Flows
<1> QED BY <1>2 DEF ReplyInv

-----------------------------------------------------------------------------
\* A stream that is dialled back had been announced and not dialled back.
LEMMA DialledOnce ==
  ASSUME TypeOK, RelayInv, NEW h \in Hosts, HostDialBack(h)
  PROVE  Head(ctrlQ[h]) \in Downloads /\ Announced(Head(ctrlQ[h]), h)
<1>1. 1 \in 1..Len(ctrlQ[h]) /\ Head(ctrlQ[h]) = ctrlQ[h][1] /\ ctrlQ[h][1] \in Downloads
  BY DEF TypeOK, HostDialBack
<1> QED BY <1>1 DEF RelayInv, QueueInv

\* The DATA connection and the session on it stay one.
LEMMA PairStep ==
  ASSUME TypeOK, RelayInv, \A d \in Downloads : PairInv(d), Next, NEW e \in Downloads
  PROVE  PairInv(e)'
<1>0. ConnectInv(e) /\ DataInv(e) /\ PairInv(e) /\ (e \in pendingStreams =>
        conPc[e] \in {"announce", "wait", "giveup"} /\ datPc[e] \in {"none", "hello"})
  BY DEF RelayInv, PendingOwned
<1>1. ASSUME NEW h \in Hosts, Register(h) PROVE PairInv(e)'
  BY <1>0, <1>1 DEF TypeOK, Register, PairInv, ConnectInv, DataInv
<1>2. ASSUME NEW h \in Hosts, Unregister(h) PROVE PairInv(e)'
  BY <1>0, <1>2 DEF TypeOK, Unregister, PairInv, ConnectInv, DataInv
<1>3. ASSUME NEW h \in Hosts, HostDialBack(h) PROVE PairInv(e)'
  <2> DEFINE n == Head(ctrlQ[h])
  <2>1. n \in Downloads /\ Announced(n, h)
    BY <1>3, DialledOnce
  <2>2. /\ sesPc' = [sesPc EXCEPT ![n] = "open"] /\ datPc' = [datPc EXCEPT ![n] = "hello"]
        /\ UNCHANGED <<conPc, pipeUp, pipeDown, ready, pendingStreams>>
    BY <1>3 DEF HostDialBack
  <2> HIDE DEF n
  <2> QED BY <1>0, <2>1, <2>2 DEF TypeOK, PairInv, Announced
<1>4. ASSUME NEW h \in Hosts, HostDialBackFails(h) PROVE PairInv(e)'
  BY <1>0, <1>4 DEF TypeOK, HostDialBackFails, PairInv, ConnectInv, DataInv
<1>5. ASSUME NEW h \in Hosts, HostControlLost(h) PROVE PairInv(e)'
  BY <1>0, <1>5 DEF TypeOK, HostControlLost, PairInv, ConnectInv, DataInv
<1>6. ASSUME NEW h \in Hosts, HostRegister(h) PROVE PairInv(e)'
  BY <1>0, <1>6 DEF TypeOK, HostRegister, PairInv, ConnectInv, DataInv
<1>7. ASSUME NEW h \in Hosts, HostExit(h) PROVE PairInv(e)'
  BY <1>0, <1>7 DEF HostExit, PairInv, SessionOpen
<1>8. ASSUME NEW h \in Hosts, CutControl(h) PROVE PairInv(e)'
  BY <1>0, <1>8 DEF TypeOK, CutControl, PairInv, ConnectInv, DataInv
<1>9. ASSUME NEW d \in Downloads, ConnectLookup(d) PROVE PairInv(e)'
  BY <1>0, <1>9 DEF TypeOK, ConnectLookup, PairInv, ConnectInv, DataInv
<1>10. ASSUME NEW d \in Downloads, ConnectRefuse(d) PROVE PairInv(e)'
  BY <1>0, <1>10 DEF TypeOK, ConnectRefuse, PairInv, ConnectInv, DataInv
<1>11. ASSUME NEW d \in Downloads, ConnectPend(d) PROVE PairInv(e)'
  BY <1>0, <1>11 DEF TypeOK, ConnectPend, PairInv, ConnectInv, DataInv
<1>12. ASSUME NEW d \in Downloads, ConnectAnnounce(d) PROVE PairInv(e)'
  BY <1>0, <1>12 DEF TypeOK, ConnectAnnounce, PairInv, ConnectInv, DataInv
<1>13. ASSUME NEW d \in Downloads, ConnectAnnounceFails(d) PROVE PairInv(e)'
  BY <1>0, <1>13 DEF TypeOK, ConnectAnnounceFails, PairInv, ConnectInv, DataInv
<1>14. ASSUME NEW d \in Downloads, ConnectTimeout(d) PROVE PairInv(e)'
  BY <1>0, <1>14 DEF TypeOK, ConnectTimeout, PairInv, ConnectInv, DataInv
<1>15. ASSUME NEW d \in Downloads, ConnectGiveUp(d) PROVE PairInv(e)'
  BY <1>0, <1>15 DEF TypeOK, ConnectGiveUp, PairInv, ConnectInv, DataInv
<1>16. ASSUME NEW d \in Downloads, ConnectPair(d) PROVE PairInv(e)'
  BY <1>0, <1>16 DEF TypeOK, ConnectPair, PairInv, ConnectInv, DataInv
<1>17. ASSUME NEW d \in Downloads, ConnectFinish(d) PROVE PairInv(e)'
  BY <1>0, <1>17 DEF TypeOK, ConnectFinish, PairInv, ConnectInv, DataInv
<1>18. ASSUME NEW d \in Downloads, DataPop(d) PROVE PairInv(e)'
  <2>1. d # e => datPc'[e] = datPc[e] /\ (e \in pendingStreams' <=> e \in pendingStreams)
    BY <1>18 DEF TypeOK, DataPop
  <2>2. d = e => /\ datPc[e] = "hello" /\ datPc'[e] \in {"popped", "closed"}
                 /\ datPc'[e] = "closed" => e \notin pendingStreams
    BY <1>18 DEF TypeOK, DataPop
  <2>3. d = e /\ datPc'[e] = "closed" => conPc[e] = "closed"
    BY <1>0, <2>2 DEF TypeOK, ConStates, PairInv, ConnectInv, DataInv
  <2> QED BY <1>0, <1>18, <2>1, <2>2, <2>3 DEF DataPop, PairInv
<1>19. ASSUME NEW d \in Downloads, DataAssign(d) PROVE PairInv(e)'
  BY <1>0, <1>19 DEF TypeOK, DataAssign, PairInv, ConnectInv, DataInv
<1>20. ASSUME NEW d \in Downloads, DataReady(d) PROVE PairInv(e)'
  BY <1>0, <1>20 DEF TypeOK, DataReady, PairInv, ConnectInv, DataInv
<1>21. ASSUME NEW d \in Downloads, DataRelease(d) PROVE PairInv(e)'
  BY <1>0, <1>21 DEF TypeOK, DataRelease, PairInv, ConnectInv, DataInv
<1>22. ASSUME NEW d \in Downloads, PipeUpForward(d) PROVE PairInv(e)'
  BY <1>0, <1>22 DEF TypeOK, PipeUpForward, PairInv, ConnectInv, DataInv
<1>23. ASSUME NEW d \in Downloads, PipeUpEnd(d) PROVE PairInv(e)'
  BY <1>0, <1>23 DEF TypeOK, PipeUpEnd, PairInv, ConnectInv, DataInv
<1>24. ASSUME NEW d \in Downloads, PipeDownForward(d) PROVE PairInv(e)'
  BY <1>0, <1>24 DEF TypeOK, PipeDownForward, PairInv, ConnectInv, DataInv
<1>25. ASSUME NEW d \in Downloads, PipeDownEnd(d) PROVE PairInv(e)'
  BY <1>0, <1>25 DEF TypeOK, PipeDownEnd, PairInv, ConnectInv, DataInv
<1>26. ASSUME NEW d \in Downloads, SessionServe(d) PROVE PairInv(e)'
  <2>1. sesPc'[e] = "none" <=> sesPc[e] = "none"
    BY <1>26 DEF TypeOK, SessionServe, SessionOpen
  <2> QED BY <1>0, <1>26, <2>1 DEF SessionServe, PairInv
<1>31. ASSUME NEW d \in Downloads, SessionEnds(d) PROVE PairInv(e)'
  <2>1. sesPc'[e] = "none" <=> sesPc[e] = "none"
    BY <1>31 DEF TypeOK, SessionEnds, SessionOpen
  <2> QED BY <1>0, <1>31, <2>1 DEF SessionEnds, PairInv
<1>27. ASSUME NEW d \in Downloads, ClientRequest(d) PROVE PairInv(e)'
  BY <1>0, <1>27 DEF TypeOK, ClientRequest, PairInv, ConnectInv, DataInv
<1>28. ASSUME NEW d \in Downloads, ClientReply(d) PROVE PairInv(e)'
  BY <1>0, <1>28 DEF TypeOK, ClientReply, PairInv, ConnectInv, DataInv
<1>29. ASSUME NEW d \in Downloads, ClientLeave(d) PROVE PairInv(e)'
  BY <1>0, <1>29 DEF TypeOK, ClientLeave, PairInv, ConnectInv, DataInv
<1>30. ASSUME NEW d \in Downloads, ClientConnect(d) PROVE PairInv(e)'
  BY <1>0, <1>30 DEF TypeOK, ClientConnect, PairInv, ConnectInv, DataInv
<1> QED BY <1>1, <1>2, <1>3, <1>4, <1>5, <1>6, <1>7, <1>8, <1>9, <1>10, <1>11, <1>12, <1>13, <1>14, <1>15,
          <1>16, <1>17, <1>18, <1>19, <1>20, <1>21, <1>22, <1>23, <1>24, <1>25, <1>26, <1>27, <1>28, <1>29, <1>30,
          <1>31
  DEF Next, RegisterHandler, HostLoop, ConnectHandler, DataHandler, PipeUp, PipeDown, Session, Client

\* No step ends a direction of a stream whose two ends are there.
LEMMA StreamsEndStep ==
  ASSUME TypeOK, RelayInv, StreamInv, Next
  PROVE  StreamsEndAtTheirEnds'
<1> SUFFICES ASSUME NEW e \in Downloads
             PROVE  /\ pipeDown'[e] = "ended" /\ cliPc'[e] = "open" => sesPc'[e] # "open"
                    /\ pipeUp'[e] = "ended" /\ sesPc'[e] = "open" => cliPc'[e] # "open"
  BY DEF StreamsEndAtTheirEnds, ClientOpen, SessionOpen
<1>0. /\ pipeDown[e] = "ended" /\ cliPc[e] = "open" => sesPc[e] # "open"
      /\ pipeUp[e] = "ended" /\ sesPc[e] = "open" => cliPc[e] # "open"
      /\ ConnectInv(e) /\ DataInv(e) /\ PairInv(e)
  BY DEF StreamInv, StreamsEndAtTheirEnds, RelayInv, ClientOpen, SessionOpen
<1> DEFINE Kept == UNCHANGED <<pipeUp, pipeDown>>
           EndsLeave == /\ cliPc'[e] = cliPc[e] \/ cliPc'[e] = "closed"
                        /\ sesPc'[e] = sesPc[e] \/ sesPc'[e] = "closed"
<1>1. CASE Kept /\ EndsLeave
  BY <1>0, <1>1
<1>2. CASE pipeUp'[e] # "ended" /\ pipeDown'[e] # "ended"
  BY <1>2
<1>3. ASSUME NEW h \in Hosts, HostDialBack(h)
      PROVE  Kept /\ (EndsLeave \/ (pipeUp'[e] # "ended" /\ pipeDown'[e] # "ended"))
  <2>1. CASE e = Head(ctrlQ[h])
    <3>1. datPc[e] = "none"
      BY <1>3, <2>1, DialledOnce DEF Announced
    <3> QED BY <1>0, <1>3, <3>1 DEF HostDialBack, DataInv, PairInv
  <2>2. CASE e # Head(ctrlQ[h])
    BY <1>3, <2>2 DEF TypeOK, HostDialBack
  <2> QED BY <2>1, <2>2
<1>4. ASSUME NEW h \in Hosts, HostExit(h) PROVE Kept /\ EndsLeave
  BY <1>4 DEF HostExit
<1>5. ASSUME NEW d \in Downloads, ConnectPair(d)
      PROVE  (d = e => pipeUp'[e] # "ended" /\ pipeDown'[e] # "ended")
             /\ (d # e => UNCHANGED <<pipeUp[e], pipeDown[e]>>) /\ EndsLeave
  BY <1>5 DEF TypeOK, ConnectPair
<1>6. ASSUME NEW d \in Downloads, Session(d) PROVE Kept /\ EndsLeave
  BY <1>6 DEF TypeOK, Session, SessionServe, SessionEnds
<1>7. ASSUME NEW d \in Downloads, ClientReply(d) \/ ClientLeave(d) PROVE Kept /\ EndsLeave
  BY <1>7 DEF TypeOK, ClientReply, ClientLeave, Leave
<1>8. ASSUME NEW d \in Downloads, ClientConnect(d)
      PROVE  Kept /\ (EndsLeave \/ (pipeUp'[e] # "ended" /\ pipeDown'[e] # "ended"))
  BY <1>0, <1>8 DEF TypeOK, ClientConnect, ConnectInv
<1>9. ASSUME NEW d \in Downloads, PipeUpEnd(d)
      PROVE  /\ pipeDown' = pipeDown /\ EndsLeave /\ UNCHANGED <<cliPc, sesPc>>
             /\ pipeUp'[e] = pipeUp[e] \/ (cliPc[e] = "open" => sesPc[e] # "open")
  <2>1. CASE d # e
    BY <1>9, <2>1 DEF PipeUpEnd
  <2>2. CASE d = e
    <3>1. conPc[e] = "pipe" /\ datPc[e] # "closed"
      BY <1>0, <1>9, <2>2 DEF PipeUpEnd, TypeOK, ConStates, ConnectInv, PairInv
    <3>2. Arrives(c2r, e) /\ Head(c2r[e]) = EOF => cliPc[e] = "closed"
      <4>1. PICK at \in Places : UpFlows(e, at)
        BY DEF StreamInv, ReplyInv, Flows
      <4>2. asked[e] \in Messages /\ asked[e] # EOF
        BY RequestsAssumption DEF TypeOK, Messages, Requests, Hello, EOF
      <4> QED BY <3>1, <4>1, <4>2, Channels DEF UpFlows, Holds, Arrives
    <3> QED BY <1>9, <2>2, <3>1, <3>2
         DEF PipeUpEnd, UpBroken, RelayConOpen, RelayDataOpen, ClientOpen, SessionOpen
  <2> QED BY <2>1, <2>2
<1>10. ASSUME NEW d \in Downloads, PipeDownEnd(d)
      PROVE  /\ pipeUp' = pipeUp /\ EndsLeave /\ UNCHANGED <<cliPc, sesPc>>
             /\ pipeDown'[e] = pipeDown[e] \/ (cliPc[e] = "open" => sesPc[e] # "open")
  <2>1. CASE d # e
    BY <1>10, <2>1 DEF PipeDownEnd
  <2>2. CASE d = e
    <3>1. conPc[e] = "pipe" /\ datPc[e] # "closed"
      BY <1>0, <1>10, <2>2 DEF PipeDownEnd, TypeOK, ConStates, ConnectInv, PairInv
    <3>2. Arrives(h2r, e) /\ Head(h2r[e]) = EOF => sesPc[e] = "closed"
      <4>1. PICK at \in Places : DownFlows(e, at)
        BY DEF StreamInv, ReplyInv, Flows
      <4>2. asked[e] \in Messages /\ asked[e] # EOF
        BY RequestsAssumption DEF TypeOK, Messages, Requests, Hello, EOF
      <4> QED BY <3>1, <4>1, <4>2, Channels DEF DownFlows, Holds, Arrives
    <3> QED BY <1>10, <2>2, <3>1, <3>2
         DEF PipeDownEnd, DownBroken, RelayConOpen, RelayDataOpen, ClientOpen, SessionOpen
  <2> QED BY <2>1, <2>2
<1>11. \/ Kept /\ EndsLeave
       \/ \E h \in Hosts : HostDialBack(h) \/ HostExit(h)
       \/ \E d \in Downloads : \/ ConnectPair(d) \/ Session(d) \/ ClientReply(d)
                               \/ ClientLeave(d) \/ ClientConnect(d)
                               \/ PipeUpEnd(d) \/ PipeDownEnd(d)
  <2>1. ASSUME NEW h \in Hosts, RegisterHandler(h) \/ HostLoop(h) \/ HostRegister(h) \/ CutControl(h)
        PROVE  HostDialBack(h) \/ (Kept /\ EndsLeave)
    BY <2>1 DEF RegisterHandler, Register, Unregister, HostLoop, HostDialBackFails,
                HostControlLost, HostRegister, CutControl
  <2>2. ASSUME NEW d \in Downloads, ConnectHandler(d)
        PROVE  ConnectPair(d) \/ (Kept /\ EndsLeave)
    BY <2>2 DEF ConnectHandler, ConnectLookup, ConnectRefuse, ConnectPend, ConnectAnnounce,
                ConnectAnnounceFails, ConnectTimeout, ConnectGiveUp, ConnectFinish
  <2>3. ASSUME NEW d \in Downloads, DataHandler(d) PROVE Kept /\ EndsLeave
    BY <2>3 DEF DataHandler, DataPop, DataAssign, DataReady, DataRelease
  <2>4. ASSUME NEW d \in Downloads, PipeUp(d) \/ PipeDown(d)
        PROVE  PipeUpEnd(d) \/ PipeDownEnd(d) \/ (Kept /\ EndsLeave)
    BY <2>4 DEF PipeUp, PipeUpForward, PipeDown, PipeDownForward
  <2>5. ASSUME NEW d \in Downloads, Client(d)
        PROVE  ClientReply(d) \/ ClientLeave(d) \/ (Kept /\ EndsLeave)
    BY <2>5 DEF Client, ClientRequest
  <2> HIDE DEF Kept, EndsLeave
  <2> QED BY <2>1, <2>2, <2>3, <2>4, <2>5 DEF Next
<1> HIDE DEF Kept, EndsLeave
<1>12. ASSUME NEW d \in Downloads, ConnectPair(d)
       PROVE  \/ pipeUp'[e] # "ended" /\ pipeDown'[e] # "ended"
              \/ /\ pipeUp'[e] = pipeUp[e] /\ pipeDown'[e] = pipeDown[e]
                 /\ EndsLeave
  BY <1>5, <1>12
<1>13. CASE \E d \in Downloads : ConnectPair(d)
  BY <1>0, <1>12, <1>13 DEF EndsLeave
<1>14. CASE \E d \in Downloads : PipeUpEnd(d)
  BY <1>0, <1>9, <1>14
<1>15. CASE \E d \in Downloads : PipeDownEnd(d)
  BY <1>0, <1>10, <1>15
<1> QED BY <1>1, <1>2, <1>3, <1>4, <1>6, <1>7, <1>8, <1>11, <1>13, <1>14, <1>15

-----------------------------------------------------------------------------
\* What is known of one download before a step.
Before(e) ==
  /\ ConnectInv(e) /\ DataInv(e) /\ PairInv(e) /\ ReplyInv(e)
  /\ conPc[e] \in ConStates /\ datPc[e] \in DatStates /\ pipeUp[e] \in PipeStates
  /\ pipeDown[e] \in PipeStates /\ sesPc[e] \in EndStates /\ cliPc[e] \in EndStates
  /\ asked[e] \in 0..MaxRequests /\ got[e] \in 0..MaxRequests
  /\ asked[e] \in Messages /\ asked[e] # EOF /\ asked[e] # Err
  /\ c2r[e] \in Seq(Messages) /\ r2h[e] \in Seq(Messages)
  /\ h2r[e] \in Seq(Messages) /\ r2c[e] \in Seq(Messages)

\* Before(e) is what the invariants say of one download.
LEMMA BeforeStep ==
  ASSUME TypeOK, RelayInv, StreamInv, NEW e \in Downloads
  PROVE  Before(e)
  BY RequestsAssumption
     DEF TypeOK, RelayInv, StreamInv, Before, Messages, Requests, Hello, EOF, Err

\* The CONNECT handler: the lookup takes the CONNECT line and nothing else
\* off the stream.
LEMMA LookupReply ==
  ASSUME TypeOK, NEW e \in Downloads, Before(e), ConnectLookup(e)
  PROVE  ReplyInv(e)'
<1>1. PICK at \in Places : Flows(e, at)
  BY DEF Before, ReplyInv
<1>2. /\ conPc[e] = "hello" /\ conPc'[e] = "found" /\ c2r'[e] = Tail(c2r[e])
      /\ UNCHANGED <<datPc, pipeUp, pipeDown, sesPc, cliPc, asked, got, r2h, h2r, r2c>>
  BY DEF TypeOK, ConnectLookup, Received
<1>3. UpFlows(e, at)'
  BY <1>1, <1>2 DEF Flows, UpFlows, Holds, SessionOpen
<1>4. DownFlows(e, at)' /\ AskedFlows(e, at)'
  BY <1>1, <1>2, DownFrame, AskedFrame DEF Flows
<1> QED BY <1>2, <1>3, <1>4 DEF Before, ReplyInv, Flows

\* The handler returns: what was still to be read on its socket is lost.
LEMMA CloseReply ==
  ASSUME TypeOK, NEW e \in Downloads, Before(e),
         ConnectRefuse(e) \/ ConnectGiveUp(e) \/ ConnectFinish(e)
  PROVE  ReplyInv(e)'
<1>1. PICK at \in Places : Flows(e, at)
  BY DEF Before, ReplyInv
<1> DEFINE to == IF at = "c2r" THEN "nowhere" ELSE at
<1>2. /\ conPc[e] \notin {"none", "closed"} /\ conPc'[e] = "closed" /\ c2r'[e] = <<>>
      /\ UNCHANGED <<datPc, pipeUp, pipeDown, sesPc, cliPc, asked, got, r2h, h2r>>
  BY DEF TypeOK, ConnectRefuse, ConnectGiveUp, ConnectFinish, RelayClosesCon, Dropped
<1>3. \/ cliPc[e] # "open" /\ r2c'[e] = r2c[e]
      \/ cliPc[e] = "open" /\ pipeUp[e] = "off" /\ r2c'[e] = r2c[e] \o <<Err, EOF>>
      \/ cliPc[e] = "open" /\ pipeDown[e] = "ended" /\ r2c'[e] = r2c[e] \o <<>>
      \/ cliPc[e] = "open" /\ pipeDown[e] # "ended" /\ r2c'[e] = r2c[e] \o <<EOF>>
  <2>1. CASE ConnectRefuse(e)
    <3>1. pipeUp[e] = "off" /\ r2c' = Sent(r2c, e, <<Err, EOF>>, ClientOpen(e))
      BY <2>1 DEF ConnectRefuse, Before, ConnectInv
    <3>2. r2c'[e] = IF ClientOpen(e) THEN r2c[e] \o <<Err, EOF>> ELSE r2c[e]
      <4>1. r2c \in [Downloads -> Seq(Messages)]
        BY DEF TypeOK
      <4> QED BY <3>1, <4>1 DEF Sent
    <3> QED BY <3>1, <3>2 DEF ClientOpen
  <2>2. CASE ConnectGiveUp(e) \/ ConnectFinish(e)
    <3> DEFINE msgs == IF pipeDown[e] = "ended" THEN <<>> ELSE <<EOF>>
    <3>1. r2c' = Sent(r2c, e, msgs, ClientOpen(e))
      BY <2>2 DEF ConnectGiveUp, ConnectFinish, RelayClosesCon
    <3>2. r2c'[e] = IF ClientOpen(e) THEN r2c[e] \o msgs ELSE r2c[e]
      <4>1. r2c \in [Downloads -> Seq(Messages)]
        BY DEF TypeOK
      <4> HIDE DEF msgs
      <4> QED BY <3>1, <4>1 DEF Sent
    <3> QED BY <3>2 DEF ClientOpen
  <2> QED BY <2>1, <2>2
<1>4. UpFlows(e, to)'
  BY <1>1, <1>2 DEF Flows, UpFlows, Holds, SessionOpen
<1>5. DownFlows(e, to)'
  <2>1. /\ Holds(h2r[e], asked[e], at = "h2r", sesPc[e] = "closed" /\ datPc[e] # "closed")
        /\ Holds(r2c[e], asked[e], at = "r2c", cliPc[e] = "open" /\ pipeDown[e] = "ended")
        /\ at = "h2r" => datPc[e] # "closed" /\ pipeUp[e] # "off"
        /\ at = "r2c" => cliPc[e] = "open" /\ pipeUp[e] # "off"
        /\ pipeUp[e] = "off" <=> pipeDown[e] = "off"
        /\ asked[e] \in Messages
    BY <1>1, <1>2 DEF Before, PairInv, Flows, DownFlows, Holds, ClientOpen
  <2>2. /\ Holds(h2r'[e], asked[e], to = "h2r", sesPc[e] = "closed" /\ datPc[e] # "closed")
        /\ to = "h2r" => datPc[e] # "closed" /\ pipeUp[e] # "off"
        /\ to = "r2c" => cliPc[e] = "open" /\ pipeUp[e] # "off"
    BY <1>2, <2>1 DEF Holds
  <2>3. \/ Holds(r2c'[e], asked[e], to = "r2c", cliPc[e] = "open")
        \/ r2c'[e] = <<Err, EOF>> /\ to = "nowhere" /\ cliPc[e] = "open"
    <3>1. CASE cliPc[e] # "open" /\ r2c'[e] = r2c[e]
      BY <2>1, <3>1 DEF Holds
    <3>2. CASE cliPc[e] = "open" /\ pipeUp[e] = "off" /\ r2c'[e] = r2c[e] \o <<Err, EOF>>
      <4>1. r2c[e] = <<>> /\ at \notin {"h2r", "r2c"}
        BY <2>1, <3>2 DEF Holds
      <4>2. at # "r2h"
        BY <1>1, <3>2 DEF Flows, UpFlows
      <4> QED BY <2>1, <3>2, <4>1, <4>2, Channels DEF Places
    <3>3. CASE cliPc[e] = "open" /\ pipeDown[e] = "ended" /\ r2c'[e] = r2c[e] \o <<>>
      BY <2>1, <3>3, Channels DEF Holds
    <3>4. CASE cliPc[e] = "open" /\ pipeDown[e] # "ended" /\ r2c'[e] = r2c[e] \o <<EOF>>
      BY <2>1, <3>4, Channels DEF Holds
    <3> QED BY <1>3, <3>1, <3>2, <3>3, <3>4
  <2> HIDE DEF to
  <2> QED BY <1>2, <2>2, <2>3 DEF DownFlows, Holds, ClientOpen
<1>6. AskedFlows(e, to)'
  BY <1>1, <1>2 DEF Flows, AskedFlows
<1>7. to \in Places
  BY DEF Places
<1> HIDE DEF to
<1> QED BY <1>2, <1>4, <1>5, <1>6, <1>7 DEF Before, ReplyInv, Flows

\* The DATA handler returns: its CONNECT handler has, or never met it.
LEMMA ReleaseReply ==
  ASSUME TypeOK, NEW e \in Downloads, Before(e), PairInv(e)', datPc'[e] = "closed",
         DataPop(e) \/ DataRelease(e)
  PROVE  ReplyInv(e)'
<1>1. PICK at \in Places : Flows(e, at)
  BY DEF Before, ReplyInv
<1> DEFINE to == IF at = "h2r" THEN "nowhere" ELSE at
<1>2. /\ datPc[e] \notin {"none", "closed"} /\ datPc'[e] = "closed"
      /\ h2r'[e] = <<>> /\ conPc[e] = "closed"
      /\ UNCHANGED <<conPc, pipeUp, pipeDown, sesPc, cliPc, asked, got, c2r, r2c>>
  <2>1. RelayClosesData(e)
    BY DEF TypeOK, DataPop, DataRelease
  <2> QED BY <2>1 DEF TypeOK, DataPop, DataRelease, RelayClosesData, Dropped, PairInv
<1>3. \/ sesPc[e] # "open" /\ r2h'[e] = r2h[e]
      \/ sesPc[e] = "open" /\ pipeUp[e] = "ended" /\ r2h'[e] = r2h[e] \o <<>>
      \/ sesPc[e] = "open" /\ pipeUp[e] # "ended" /\ r2h'[e] = r2h[e] \o <<EOF>>
  <2> DEFINE msgs == IF pipeUp[e] = "ended" THEN <<>> ELSE <<EOF>>
  <2>1. r2h' = Sent(r2h, e, msgs, SessionOpen(e))
    BY DEF TypeOK, DataPop, DataRelease, RelayClosesData
  <2>2. r2h'[e] = IF SessionOpen(e) THEN r2h[e] \o msgs ELSE r2h[e]
    <3>1. r2h \in [Downloads -> Seq(Messages)]
      BY DEF TypeOK
    <3> HIDE DEF msgs
    <3> QED BY <2>1, <3>1 DEF Sent
  <2> QED BY <2>2 DEF SessionOpen
<1>4. UpFlows(e, to)'
  <2>1. /\ Holds(r2h[e], asked[e], at = "r2h", sesPc[e] = "open" /\ pipeUp[e] = "ended")
        /\ at = "r2h" => sesPc[e] = "open" /\ pipeUp[e] # "off"
        /\ asked[e] \in Messages
    BY <1>1, <1>2 DEF Before, Flows, UpFlows, Holds, SessionOpen
  <2>2. Holds(r2h'[e], asked[e], to = "r2h", sesPc[e] = "open")
    <3>1. CASE sesPc[e] # "open" /\ r2h'[e] = r2h[e]
      BY <2>1, <3>1 DEF Holds
    <3>2. CASE sesPc[e] = "open" /\ pipeUp[e] = "ended" /\ r2h'[e] = r2h[e] \o <<>>
      BY <2>1, <3>2, Channels DEF Holds
    <3>3. CASE sesPc[e] = "open" /\ pipeUp[e] # "ended" /\ r2h'[e] = r2h[e] \o <<EOF>>
      BY <2>1, <3>3, Channels DEF Holds
    <3> QED BY <1>3, <3>1, <3>2, <3>3
  <2> QED BY <1>1, <1>2, <2>1, <2>2 DEF Flows, UpFlows, Holds, SessionOpen
<1>5. DownFlows(e, to)'
  BY <1>1, <1>2 DEF Flows, DownFlows, Holds, ClientOpen
<1>6. AskedFlows(e, to)'
  BY <1>1, <1>2 DEF Flows, AskedFlows
<1>7. to \in Places
  BY DEF Places
<1> HIDE DEF to
<1> QED BY <1>2, <1>4, <1>5, <1>6, <1>7 DEF Before, ReplyInv, Flows

\* A running pipe: neither handler has returned.
LEMMA PipeRuns ==
  ASSUME NEW e \in Downloads, Before(e), pipeUp[e] = "run" \/ pipeDown[e] = "run"
  PROVE  /\ conPc[e] = "pipe" /\ datPc[e] = "waitdone"
         /\ pipeUp[e] # "off" /\ pipeDown[e] # "off" /\ sesPc[e] # "none"
  BY DEF Before, ConStates, PipeStates, ConnectInv, DataInv, PairInv

\* pipe(conn, data_conn) passes one command on, to the session or to nobody.
LEMMA UpReply ==
  ASSUME TypeOK, NEW e \in Downloads, Before(e), PipeUpForward(e)
  PROVE  ReplyInv(e)'
<1>1. PICK at \in Places : Flows(e, at)
  BY DEF Before, ReplyInv
<1>2. /\ pipeUp[e] = "run" /\ c2r[e] # <<>> /\ Head(c2r[e]) # EOF /\ c2r'[e] = Tail(c2r[e])
      /\ UNCHANGED <<conPc, datPc, pipeUp, pipeDown, sesPc, cliPc, asked, got, h2r, r2c>>
  BY DEF TypeOK, PipeUpForward, Received, Arrives
<1>3. conPc[e] = "pipe" /\ datPc[e] = "waitdone" /\ sesPc[e] # "none"
  BY <1>2, PipeRuns
<1>4. at = "c2r" /\ Head(c2r[e]) = asked[e] /\ Holds(c2r'[e], asked[e], FALSE, cliPc[e] = "closed")
  BY <1>1, <1>2, <1>3, Channels DEF Before, Flows, UpFlows, Holds
<1>5. r2h[e] = <<>>
  BY <1>1, <1>2, <1>3, <1>4 DEF Flows, UpFlows, Holds
<1>6. CASE sesPc[e] = "open"
  <2>1. r2h'[e] = <<asked[e]>>
    BY <1>4, <1>5, <1>6, Channels DEF PipeUpForward, Sent, SessionOpen, TypeOK, Before
  <2>2. UpFlows(e, "r2h")'
    BY <1>2, <1>3, <1>4, <1>6, <2>1 DEF UpFlows, Holds, SessionOpen
  <2>3. DownFlows(e, "r2h")' /\ AskedFlows(e, "r2h")'
    BY <1>1, <1>2, <1>4 DEF Flows, DownFlows, AskedFlows, Holds, ClientOpen
  <2> QED BY <1>2, <2>2, <2>3 DEF Before, ReplyInv, Flows, Places
<1>7. CASE sesPc[e] # "open"
  <2>1. r2h'[e] = <<>> /\ sesPc[e] = "closed"
    BY <1>3, <1>5, <1>7 DEF PipeUpForward, Sent, SessionOpen, TypeOK, Before, EndStates
  <2>2. UpFlows(e, "nowhere")'
    BY <1>2, <1>3, <1>4, <1>7, <2>1 DEF UpFlows, Holds, SessionOpen
  <2>3. DownFlows(e, "nowhere")' /\ AskedFlows(e, "nowhere")'
    BY <1>1, <1>2, <1>4, <2>1 DEF Flows, DownFlows, AskedFlows, Holds, ClientOpen
  <2> QED BY <1>2, <2>2, <2>3 DEF Before, ReplyInv, Flows, Places
<1> QED BY <1>6, <1>7

\* pipe(data_conn, conn) passes one reply on, to the downloader or to nobody.
LEMMA DownReply ==
  ASSUME TypeOK, NEW e \in Downloads, Before(e), PipeDownForward(e)
  PROVE  ReplyInv(e)'
<1>1. PICK at \in Places : Flows(e, at)
  BY DEF Before, ReplyInv
<1>2. /\ pipeDown[e] = "run" /\ h2r[e] # <<>> /\ Head(h2r[e]) # EOF /\ h2r'[e] = Tail(h2r[e])
      /\ UNCHANGED <<conPc, datPc, pipeUp, pipeDown, sesPc, cliPc, asked, got, c2r, r2h>>
  BY DEF TypeOK, PipeDownForward, Received, Arrives
<1>3. conPc[e] = "pipe" /\ datPc[e] = "waitdone" /\ sesPc[e] # "none" /\ pipeUp[e] # "off"
  BY <1>2, PipeRuns
<1>4. at = "h2r" /\ Head(h2r[e]) = asked[e] /\ Holds(h2r'[e], asked[e], FALSE, sesPc[e] = "closed")
  BY <1>1, <1>2, <1>3, Channels DEF Before, Flows, DownFlows, Holds
<1>5. r2c[e] = <<>>
  BY <1>1, <1>2, <1>3, <1>4 DEF Flows, DownFlows, Holds
<1>6. CASE cliPc[e] = "open"
  <2>1. r2c'[e] = <<asked[e]>>
    BY <1>4, <1>5, <1>6, Channels DEF PipeDownForward, Sent, ClientOpen, TypeOK, Before
  <2>2. DownFlows(e, "r2c")'
    BY <1>2, <1>3, <1>4, <1>6, <2>1 DEF DownFlows, Holds, ClientOpen
  <2>3. UpFlows(e, "r2c")' /\ AskedFlows(e, "r2c")'
    BY <1>1, <1>2, <1>4 DEF Flows, UpFlows, AskedFlows, Holds, SessionOpen
  <2> QED BY <1>2, <2>2, <2>3 DEF Before, ReplyInv, Flows, Places
<1>7. CASE cliPc[e] # "open"
  <2>1. r2c'[e] = <<>>
    BY <1>5, <1>7 DEF PipeDownForward, Sent, ClientOpen, TypeOK
  <2>2. DownFlows(e, "nowhere")'
    BY <1>2, <1>3, <1>4, <1>7, <2>1 DEF DownFlows, Holds, ClientOpen
  <2>3. UpFlows(e, "nowhere")' /\ AskedFlows(e, "nowhere")'
    BY <1>1, <1>2, <1>4, <1>7 DEF Flows, UpFlows, AskedFlows, Holds, SessionOpen, ClientOpen
  <2> QED BY <1>2, <2>2, <2>3 DEF Before, ReplyInv, Flows, Places
<1> QED BY <1>6, <1>7

\* A pipe ends: it shuts the writing side of the socket it wrote to.
LEMMA EndReply ==
  ASSUME TypeOK, NEW e \in Downloads, Before(e), PipeUpEnd(e) \/ PipeDownEnd(e)
  PROVE  ReplyInv(e)'
<1>1. PICK at \in Places : Flows(e, at)
  BY DEF Before, ReplyInv
<1>2. UNCHANGED <<conPc, datPc, sesPc, cliPc, asked, got>>
  BY DEF PipeUpEnd, PipeDownEnd
<1>3. /\ conPc[e] = "pipe" /\ datPc[e] = "waitdone" /\ sesPc[e] # "none"
      /\ pipeUp[e] # "off" /\ pipeDown[e] # "off"
  BY PipeRuns DEF PipeUpEnd, PipeDownEnd
<1>4. AskedFlows(e, at)'
  BY <1>1, <1>2, AskedFrame DEF Flows
<1>5. CASE PipeUpEnd(e)
  <2>1. /\ pipeUp[e] = "run" /\ pipeUp'[e] = "ended"
        /\ UNCHANGED <<pipeDown, c2r, h2r, r2c>>
        /\ r2h'[e] = IF sesPc[e] = "open" THEN r2h[e] \o <<EOF>> ELSE r2h[e]
    BY <1>3, <1>5 DEF TypeOK, PipeUpEnd, Sent, SessionOpen, RelayDataOpen
  <2>2. /\ Holds(r2h[e], asked[e], at = "r2h", FALSE)
        /\ at = "r2h" => sesPc[e] = "open"
    BY <1>1, <1>3, <2>1 DEF Flows, UpFlows, Holds, SessionOpen
  <2>3. Holds(r2h'[e], asked[e], at = "r2h", sesPc[e] = "open")
    BY <2>1, <2>2, Channels DEF Before, Holds
  <2>4. UpFlows(e, at)'
    BY <1>1, <1>2, <1>3, <2>1, <2>3 DEF Flows, UpFlows, Holds, SessionOpen
  <2>5. DownFlows(e, at)'
    BY <1>1, <1>2, <1>3, <2>1 DEF Flows, DownFlows, Holds, ClientOpen
  <2> QED BY <1>2, <1>4, <2>4, <2>5 DEF Before, ReplyInv, Flows
<1>6. CASE PipeDownEnd(e)
  <2>1. /\ pipeDown[e] = "run" /\ pipeDown'[e] = "ended"
        /\ UNCHANGED <<pipeUp, c2r, r2h, h2r>>
        /\ r2c'[e] = IF cliPc[e] = "open" THEN r2c[e] \o <<EOF>> ELSE r2c[e]
    BY <1>3, <1>6 DEF TypeOK, PipeDownEnd, Sent, ClientOpen, RelayConOpen
  <2>2. /\ Holds(r2c[e], asked[e], at = "r2c", FALSE)
        /\ at = "r2c" => cliPc[e] = "open"
    BY <1>1, <1>3, <2>1 DEF Flows, DownFlows, Holds, ClientOpen
  <2>3. Holds(r2c'[e], asked[e], at = "r2c", cliPc[e] = "open")
    BY <2>1, <2>2, Channels DEF Before, Holds
  <2>4. DownFlows(e, at)'
    BY <1>1, <1>2, <1>3, <2>1, <2>3 DEF Flows, DownFlows, Holds, ClientOpen
  <2>5. UpFlows(e, at)'
    BY <1>1, <1>2, <1>3, <2>1 DEF Flows, UpFlows, Holds, SessionOpen
  <2> QED BY <1>2, <1>4, <2>4, <2>5 DEF Before, ReplyInv, Flows
<1> QED BY <1>5, <1>6

\* serve_session answers the command it reads, or leaves at the end.
LEMMA ServeReply ==
  ASSUME TypeOK, NEW e \in Downloads, Before(e), SessionServe(e)
  PROVE  ReplyInv(e)'
<1>1. PICK at \in Places : Flows(e, at)
  BY DEF Before, ReplyInv
<1>2. /\ sesPc[e] = "open" /\ r2h[e] # <<>> /\ r2h'[e] = Tail(r2h[e])
      /\ UNCHANGED <<conPc, datPc, pipeUp, pipeDown, cliPc, asked, got, c2r, r2c>>
  BY DEF TypeOK, SessionServe, SessionOpen, Received, Arrives
<1>3. CASE at = "r2h"
  <2>1. /\ Head(r2h[e]) = asked[e] /\ asked[e] # EOF /\ h2r[e] = <<>> /\ pipeUp[e] # "off"
        /\ Holds(r2h'[e], asked[e], FALSE, pipeUp[e] = "ended" \/ datPc[e] = "closed")
    BY <1>1, <1>2, <1>3, Channels DEF Before, Flows, UpFlows, DownFlows, Holds, SessionOpen
  <2>2. /\ sesPc' = sesPc
        /\ h2r'[e] = IF datPc[e] # "closed" THEN <<asked[e]>> ELSE <<>>
    BY <2>1, Channels DEF TypeOK, Before, SessionServe, Sent, RelayDataOpen
  <2>3. CASE datPc[e] # "closed"
    <3>1. DownFlows(e, "h2r")'
      BY <1>1, <1>2, <1>3, <2>1, <2>2, <2>3 DEF Flows, DownFlows, Holds, ClientOpen
    <3>2. UpFlows(e, "h2r")' /\ AskedFlows(e, "h2r")'
      BY <1>1, <1>2, <1>3, <2>1, <2>2 DEF Flows, UpFlows, AskedFlows, Holds, SessionOpen
    <3> QED BY <1>2, <3>1, <3>2 DEF Before, ReplyInv, Flows, Places
  <2>4. CASE datPc[e] = "closed"
    <3>1. DownFlows(e, "nowhere")'
      BY <1>1, <1>2, <1>3, <2>1, <2>2, <2>4 DEF Flows, DownFlows, Holds, ClientOpen
    <3>2. UpFlows(e, "nowhere")' /\ AskedFlows(e, "nowhere")'
      BY <1>1, <1>2, <1>3, <2>1, <2>2, <2>4
         DEF Before, PairInv, Flows, UpFlows, AskedFlows, Holds, SessionOpen
    <3> QED BY <1>2, <3>1, <3>2 DEF Before, ReplyInv, Flows, Places
  <2> QED BY <2>3, <2>4
<1>4. CASE at # "r2h"
  <2>1. /\ Head(r2h[e]) = EOF /\ r2h'[e] = <<>>
        /\ Holds(h2r[e], asked[e], at = "h2r", FALSE)
    BY <1>1, <1>2, <1>4, Channels DEF Before, Flows, UpFlows, DownFlows, Holds, SessionOpen
  <2>2. /\ sesPc'[e] = "closed"
        /\ h2r'[e] = IF datPc[e] # "closed" THEN h2r[e] \o <<EOF>> ELSE h2r[e]
    <3>1. /\ sesPc' = [sesPc EXCEPT ![e] = "closed"] /\ h2r' = Sent(h2r, e, <<EOF>>, RelayDataOpen(e))
          /\ sesPc[e] # "closed"
      BY <2>1 DEF SessionServe, SessionOpen
    <3>2. sesPc \in [Downloads -> EndStates] /\ h2r \in [Downloads -> Seq(Messages)]
      BY DEF TypeOK
    <3>3. sesPc'[e] = "closed"
      BY <3>1, <3>2
    <3>4. h2r'[e] = IF RelayDataOpen(e) THEN h2r[e] \o <<EOF>> ELSE h2r[e]
      BY <3>1, <3>2 DEF Sent
    <3> QED BY <3>3, <3>4 DEF RelayDataOpen
  <2>3. Holds(h2r'[e], asked[e], at = "h2r", datPc[e] # "closed")
    <3>1. h2r[e] = IF at = "h2r" THEN <<asked[e]>> ELSE <<>>
      BY <2>1 DEF Holds
    <3>2. asked[e] \in Messages
      BY DEF Before
    <3>3. CASE datPc[e] = "closed"
      BY <2>2, <3>1, <3>3 DEF Holds
    <3>4. CASE datPc[e] # "closed" /\ at = "h2r"
      <4>1. h2r'[e] = <<asked[e], EOF>>
        BY <2>2, <3>1, <3>2, <3>4, Channels
      <4> QED BY <3>4, <4>1 DEF Holds
    <3>5. CASE datPc[e] # "closed" /\ at # "h2r"
      <4>1. h2r'[e] = <<EOF>>
        BY <2>2, <3>1, <3>2, <3>5, Channels
      <4> QED BY <3>5, <4>1 DEF Holds
    <3> QED BY <3>3, <3>4, <3>5
  <2>4. DownFlows(e, at)'
    BY <1>1, <1>2, <2>2, <2>3 DEF Flows, DownFlows, Holds, ClientOpen
  <2>5. UpFlows(e, at)' /\ AskedFlows(e, at)'
    BY <1>1, <1>2, <1>4, <2>1, <2>2 DEF Flows, UpFlows, AskedFlows, Holds, SessionOpen
  <2> QED BY <1>2, <2>4, <2>5 DEF Before, ReplyInv, Flows
<1> QED BY <1>3, <1>4

\* request(): the next command, when the last one is answered.
LEMMA AskReply ==
  ASSUME TypeOK, NEW e \in Downloads, Before(e), ClientRequest(e)
  PROVE  ReplyInv(e)'
<1>1. PICK at \in Places : Flows(e, at)
  BY DEF Before, ReplyInv
<1>2. /\ cliPc[e] = "open" /\ asked[e] = got[e] /\ asked'[e] = asked[e] + 1
      /\ asked[e] + 1 \in Messages
      /\ UNCHANGED <<conPc, datPc, pipeUp, pipeDown, sesPc, cliPc, got, r2h, h2r, r2c>>
      /\ c2r'[e] = IF conPc[e] # "closed" THEN c2r[e] \o <<asked[e] + 1>> ELSE c2r[e]
  BY RequestsAssumption DEF TypeOK, ClientRequest, ClientOpen, Sent, RelayConOpen, Messages, Requests
<1>3. at = "nowhere" /\ conPc[e] # "none" /\ asked[e] + 1 # got[e]
  BY <1>1, <1>2 DEF Before, ConnectInv, Flows, AskedFlows
<1>4. /\ r2h'[e] = r2h[e] /\ Holds(r2h[e], asked[e] + 1, FALSE,
           SessionOpen(e) /\ (pipeUp[e] = "ended" \/ datPc[e] = "closed"))
      /\ Holds(h2r[e], asked[e] + 1, FALSE, sesPc[e] = "closed" /\ datPc[e] # "closed")
      /\ \/ Holds(r2c[e], asked[e] + 1, FALSE,
                  ClientOpen(e) /\ (pipeDown[e] = "ended" \/ conPc[e] = "closed"))
         \/ r2c[e] = <<Err, EOF>> /\ ClientOpen(e) /\ conPc[e] = "closed"
  BY <1>1, <1>2, <1>3 DEF Flows, UpFlows, DownFlows, Holds
<1>5. CASE conPc[e] = "hello"
  <2>1. c2r[e] = Behind(Hello, <<>>)
    BY <1>1, <1>2, <1>3, <1>5 DEF Flows, UpFlows, Holds
  <2>2. <<asked[e] + 1>> \in Seq(Messages) /\ <<>> \in Seq(Messages)
    BY <1>2
  <2>3. c2r'[e] = Behind(Hello, <<asked[e] + 1>>)
    BY <1>2, <1>5, <2>1, <2>2, BehindHello, Channels
  <2>4. Tail(c2r'[e]) = <<asked[e] + 1>>
    BY <2>2, <2>3, BehindHello
  <2>5. UpFlows(e, "c2r")'
    BY <1>2, <1>4, <1>5, <2>3, <2>4 DEF UpFlows, Holds, SessionOpen
  <2>6. DownFlows(e, "c2r")' /\ AskedFlows(e, "c2r")'
    BY <1>2, <1>3, <1>4, <1>5 DEF DownFlows, AskedFlows, Holds, ClientOpen
  <2> QED BY <1>2, <2>5, <2>6 DEF Before, ReplyInv, Flows, Places
<1>6. CASE conPc[e] \notin {"hello", "closed"}
  <2>1. c2r'[e] = <<asked[e] + 1>>
    BY <1>1, <1>2, <1>3, <1>6, Channels DEF Flows, UpFlows, Holds
  <2>2. UpFlows(e, "c2r")'
    BY <1>2, <1>3, <1>4, <1>6, <2>1 DEF UpFlows, Holds, SessionOpen
  <2>3. DownFlows(e, "c2r")' /\ AskedFlows(e, "c2r")'
    BY <1>2, <1>3, <1>4, <1>6 DEF DownFlows, AskedFlows, Holds, ClientOpen
  <2> QED BY <1>2, <2>2, <2>3 DEF Before, ReplyInv, Flows, Places
<1>7. CASE conPc[e] = "closed"
  <2>1. UpFlows(e, "nowhere")'
    BY <1>1, <1>2, <1>3, <1>4, <1>7 DEF Flows, UpFlows, Holds, SessionOpen
  <2>2. DownFlows(e, "nowhere")' /\ AskedFlows(e, "nowhere")'
    BY <1>2, <1>3, <1>4, <1>7 DEF DownFlows, AskedFlows, Holds, ClientOpen
  <2> QED BY <1>2, <2>1, <2>2 DEF Before, ReplyInv, Flows, Places
<1> QED BY <1>5, <1>6, <1>7

\* The downloader leaves: replies to it are lost from now on.
LEMMA LeaveReply ==
  ASSUME TypeOK, NEW e \in Downloads, Before(e), ClientOpen(e), Leave(e),
         UNCHANGED <<relayVars, hostVars, asked, got, r2h, h2r>>
  PROVE  ReplyInv(e)'
<1>1. PICK at \in Places : Flows(e, at)
  BY DEF Before, ReplyInv
<1> DEFINE to == IF at = "r2c" THEN "nowhere" ELSE at
<1>2. /\ cliPc[e] = "open" /\ cliPc'[e] = "closed" /\ r2c'[e] = <<>> /\ conPc[e] # "none"
      /\ UNCHANGED <<conPc, datPc, pipeUp, pipeDown, sesPc, asked, got, r2h, h2r>>
      /\ c2r'[e] = IF conPc[e] # "closed" THEN c2r[e] \o <<EOF>> ELSE c2r[e]
  BY DEF TypeOK, Before, ConnectInv, Leave, ClientOpen, Dropped, Sent, RelayConOpen
<1>3. /\ to = "c2r" <=> at = "c2r"
      /\ to = "r2h" <=> at = "r2h"
      /\ to = "h2r" <=> at = "h2r"
      /\ to # "r2c" /\ to \in Places
  BY DEF Places
<1>4. asked[e] = got[e] => to = "nowhere"
  BY <1>1 DEF Flows, AskedFlows
<1> HIDE DEF to
<1>5. UpFlows(e, to)'
  <2>1. CASE conPc[e] = "hello"
    <3> DEFINE q == Tail(c2r[e])
    <3>1. c2r[e] = Behind(Hello, q) /\ Holds(q, asked[e], at = "c2r", FALSE)
      BY <1>1, <1>2, <2>1 DEF Flows, UpFlows, Holds
    <3> HIDE DEF q
    <3>2. q \in Seq(Messages) /\ asked[e] \in Messages
      <4>1. asked[e] \in Messages /\ (q = <<>> \/ q = <<asked[e]>>)
        BY <3>1 DEF Before, Holds
      <4>2. <<asked[e]>> \in Seq(Messages) /\ <<>> \in Seq(Messages)
        BY <4>1
      <4> QED BY <4>1, <4>2
    <3>3. Holds(q \o <<EOF>>, asked[e], at = "c2r", TRUE)
      BY <3>1, <3>2, Channels DEF Holds
    <3>4. <<EOF>> \in Seq(Messages) /\ q \o <<EOF>> \in Seq(Messages)
      BY <3>2, MarkerType, ConcatProperties
    <3>5. c2r'[e] = Behind(Hello, q \o <<EOF>>) /\ Tail(c2r'[e]) = q \o <<EOF>>
      <4>1. c2r'[e] = Behind(Hello, q) \o <<EOF>>
        BY <1>2, <2>1, <3>1
      <4>2. c2r'[e] = Behind(Hello, q \o <<EOF>>)
        BY <3>2, <3>4, <4>1, BehindHello
      <4> QED BY <3>4, <4>2, BehindHello
    <3> QED BY <1>1, <1>2, <1>3, <2>1, <3>3, <3>5 DEF Flows, UpFlows, Holds, SessionOpen
  <2>2. CASE conPc[e] \notin {"hello", "closed"}
    <3>1. Holds(c2r[e], asked[e], at = "c2r", FALSE) /\ asked[e] \in Messages
      BY <1>1, <1>2, <2>2 DEF Before, Flows, UpFlows, Holds
    <3>2. Holds(c2r'[e], asked[e], at = "c2r", TRUE)
      BY <1>2, <2>2, <3>1, Channels DEF Holds
    <3> QED BY <1>1, <1>2, <1>3, <2>2, <3>2 DEF Flows, UpFlows, Holds, SessionOpen
  <2>3. CASE conPc[e] = "closed"
    BY <1>1, <1>2, <1>3, <2>3 DEF Flows, UpFlows, Holds, SessionOpen
  <2> QED BY <2>1, <2>2, <2>3
<1>6. DownFlows(e, to)'
  BY <1>1, <1>2, <1>3 DEF Flows, DownFlows, Holds, ClientOpen
<1>7. AskedFlows(e, to)'
  BY <1>2, <1>4 DEF AskedFlows, ClientOpen
<1> QED BY <1>2, <1>3, <1>5, <1>6, <1>7 DEF Before, ReplyInv, Flows

\* What recv_line can return to the downloader: the reply to its command.
LEMMA ReplyIsNext ==
  ASSUME NEW e \in Downloads, Before(e), Arrives(r2c, e), Head(r2c[e]) \in Requests,
         NEW at \in Places, Flows(e, at)
  PROVE  /\ at = "r2c" /\ cliPc[e] = "open" /\ pipeUp[e] # "off"
         /\ Head(r2c[e]) = asked[e] /\ asked[e] = got[e] + 1
         /\ Holds(Tail(r2c[e]), asked[e], FALSE, pipeDown[e] = "ended" \/ conPc[e] = "closed")
<1>1. r2c[e] # <<>> /\ Head(r2c[e]) # EOF /\ Head(r2c[e]) # Err
  BY RequestsAssumption DEF Arrives, Requests, EOF, Err
<1>2. r2c[e] # <<Err, EOF>>
  BY <1>1
<1>3. /\ Holds(r2c[e], asked[e], at = "r2c",
               ClientOpen(e) /\ (pipeDown[e] = "ended" \/ conPc[e] = "closed"))
      /\ at = "r2c" => cliPc[e] = "open" /\ pipeUp[e] # "off"
  BY <1>2 DEF Flows, DownFlows, ClientOpen
<1>4. at = "r2c"
  BY <1>1, <1>3, Channels DEF Before, Holds
<1>5. Head(r2c[e]) = asked[e]
  BY <1>3, <1>4, Channels DEF Before, Holds
<1>6. asked[e] = got[e] + 1
  BY <1>4 DEF Before, ReplyInv, Flows, AskedFlows
<1>7. Holds(Tail(r2c[e]), asked[e], FALSE, pipeDown[e] = "ended" \/ conPc[e] = "closed")
  BY <1>3, <1>4, Channels DEF Before, Holds, ClientOpen
<1> QED BY <1>3, <1>4, <1>5, <1>6, <1>7

\* recv_line of the reply: counted, or the downloader leaves.
LEMMA ReadReply ==
  ASSUME TypeOK, NEW e \in Downloads, Before(e), ClientReply(e)
  PROVE  ReplyInv(e)'
<1>1. PICK at \in Places : Flows(e, at)
  BY DEF Before, ReplyInv
<1>2. CASE Head(r2c[e]) \in Requests
  <2>1. /\ Arrives(r2c, e) /\ got'[e] = Head(r2c[e]) /\ r2c'[e] = Tail(r2c[e])
        /\ UNCHANGED <<conPc, datPc, pipeUp, pipeDown, sesPc, cliPc, asked, c2r, r2h, h2r>>
    BY <1>2 DEF TypeOK, ClientReply, Received
  <2>2. /\ at = "r2c" /\ cliPc[e] = "open" /\ Head(r2c[e]) = asked[e]
        /\ Holds(Tail(r2c[e]), asked[e], FALSE, pipeDown[e] = "ended" \/ conPc[e] = "closed")
    BY <1>1, <1>2, <2>1, ReplyIsNext
  <2>3. DownFlows(e, "nowhere")'
    BY <1>1, <2>1, <2>2 DEF Flows, DownFlows, Holds, ClientOpen
  <2>4. UpFlows(e, "nowhere")' /\ AskedFlows(e, "nowhere")'
    BY <1>1, <2>1, <2>2 DEF Flows, UpFlows, AskedFlows, Holds, SessionOpen
  <2> QED BY <2>1, <2>2, <2>3, <2>4 DEF Before, ReplyInv, Flows, Places
<1>3. CASE Head(r2c[e]) \notin Requests
  BY <1>3, LeaveReply DEF ClientReply
<1> QED BY <1>2, <1>3

\* connect_via_tunnel: a new stream carries the CONNECT line alone.
LEMMA ConnectReply ==
  ASSUME TypeOK, NEW e \in Downloads, Before(e), ClientConnect(e)
  PROVE  ReplyInv(e)'
<1>1. PICK at \in Places : Flows(e, at)
  BY DEF Before, ReplyInv
<1>2. /\ cliPc[e] = "none" /\ conPc[e] = "none" /\ cliPc'[e] = "open" /\ conPc'[e] = "hello"
      /\ c2r'[e] = <<Hello>> /\ asked[e] = got[e] /\ pipeDown[e] # "ended"
      /\ UNCHANGED <<datPc, pipeUp, pipeDown, sesPc, asked, got, r2h, h2r, r2c>>
  BY DEF TypeOK, Before, ReplyInv, ConnectInv, ClientConnect
<1>3. at = "nowhere"
  BY <1>1, <1>2 DEF Flows, AskedFlows
<1>4. c2r'[e] = Behind(Hello, <<>>) /\ Tail(c2r'[e]) = <<>>
  BY <1>2, Channels DEF Before, Behind, Messages
<1>5. UpFlows(e, at)'
  BY <1>1, <1>2, <1>3, <1>4 DEF Flows, UpFlows, Holds, SessionOpen
<1>6. DownFlows(e, at)' /\ AskedFlows(e, at)'
  BY <1>1, <1>2, <1>3 DEF Flows, DownFlows, AskedFlows, Holds, ClientOpen
<1> QED BY <1>2, <1>5, <1>6 DEF Before, ReplyInv, Flows

\* The host dials back: a session opens on a stream that carries nothing yet.
LEMMA DialReply ==
  ASSUME TypeOK, NEW e \in Downloads, Before(e), NEW h \in Hosts, HostDialBack(h),
         datPc[e] = "none", e = Head(ctrlQ[h])
  PROVE  ReplyInv(e)'
<1>1. PICK at \in Places : Flows(e, at)
  BY DEF Before, ReplyInv
<1>2. /\ sesPc[e] = "none" /\ sesPc'[e] = "open" /\ datPc'[e] = "hello" /\ pipeUp[e] = "off"
      /\ UNCHANGED <<conPc, pipeUp, pipeDown, cliPc, asked, got, c2r, r2h, h2r, r2c>>
  BY DEF TypeOK, HostDialBack, Before, DataInv, PairInv
<1>3. UpFlows(e, at)'
  BY <1>1, <1>2 DEF Flows, UpFlows, Holds, SessionOpen
<1>4. DownFlows(e, at)' /\ AskedFlows(e, at)'
  BY <1>1, <1>2 DEF Flows, DownFlows, AskedFlows, Holds, ClientOpen
<1> QED BY <1>2, <1>3, <1>4 DEF Before, ReplyInv, Flows

\* The host process ends: what its sessions had not read is lost.
LEMMA ExitReply ==
  ASSUME TypeOK, NEW e \in Downloads, Before(e), NEW h \in Hosts, HostExit(h),
         servedBy[e] = h, sesPc[e] = "open"
  PROVE  ReplyInv(e)'
<1>1. PICK at \in Places : Flows(e, at)
  BY DEF Before, ReplyInv
<1> DEFINE to == IF at = "r2h" THEN "nowhere" ELSE at
<1>2. /\ sesPc'[e] = "closed" /\ r2h'[e] = <<>>
      /\ h2r'[e] = IF datPc[e] # "closed" THEN Append(h2r[e], EOF) ELSE h2r[e]
      /\ UNCHANGED <<conPc, datPc, pipeUp, pipeDown, cliPc, asked, got, c2r, r2c>>
  BY DEF TypeOK, HostExit, SessionOpen, RelayDataOpen
<1>3. EOF \in Messages /\ Append(h2r[e], EOF) = h2r[e] \o <<EOF>>
  BY AppendIsConcat DEF Before, Messages
<1>4. /\ to = "c2r" <=> at = "c2r"
      /\ to = "r2c" <=> at = "r2c"
      /\ to = "h2r" <=> at = "h2r"
      /\ to # "r2h" /\ to \in Places /\ (at = "nowhere" => to = "nowhere")
  BY DEF Places
<1> HIDE DEF to
<1>5. Holds(h2r[e], asked[e], at = "h2r", FALSE)
  BY <1>1 DEF Flows, DownFlows, Holds
<1>6. Holds(h2r'[e], asked[e], at = "h2r", datPc[e] # "closed")
  BY <1>2, <1>3, <1>5, Channels DEF Before, Holds
<1>7. DownFlows(e, to)'
  BY <1>1, <1>2, <1>4, <1>6 DEF Flows, DownFlows, Holds, ClientOpen
<1>8. UpFlows(e, to)' /\ AskedFlows(e, to)'
  BY <1>1, <1>2, <1>4 DEF Flows, UpFlows, AskedFlows, Holds, SessionOpen, ClientOpen
<1> QED BY <1>2, <1>4, <1>7, <1>8 DEF Before, ReplyInv, Flows

\* A session ends by itself: what it had not read is lost, and what it had
\* sent may be.
LEMMA EndsReply ==
  ASSUME TypeOK, NEW e \in Downloads, Before(e), SessionEnds(e)
  PROVE  ReplyInv(e)'
<1>1. PICK at \in Places : Flows(e, at)
  BY DEF Before, ReplyInv
<1>2. /\ sesPc[e] = "open" /\ sesPc'[e] = "closed" /\ r2h'[e] = <<>>
      /\ UNCHANGED <<conPc, datPc, pipeUp, pipeDown, cliPc, asked, got, c2r, r2c>>
  BY DEF TypeOK, SessionEnds, SessionOpen, Dropped
<1>3. Holds(h2r[e], asked[e], at = "h2r", FALSE) /\ (at = "h2r" => datPc[e] # "closed")
  BY <1>1, <1>2 DEF Flows, DownFlows, Holds
<1>4. \/ h2r'[e] = IF datPc[e] # "closed" THEN h2r[e] \o <<EOF>> ELSE h2r[e]
      \/ h2r'[e] = IF datPc[e] # "closed" THEN <<>> \o <<EOF>> ELSE <<>>
  <2>1. h2r \in [Downloads -> Seq(Messages)] /\ Dropped(h2r, e) \in [Downloads -> Seq(Messages)]
    BY DroppedType DEF TypeOK
  <2>2. Dropped(h2r, e)[e] = <<>>
    BY <2>1 DEF Dropped
  <2>3. ASSUME NEW chan \in [Downloads -> Seq(Messages)]
        PROVE  Sent(chan, e, <<EOF>>, RelayDataOpen(e))[e]
                 = IF datPc[e] # "closed" THEN chan[e] \o <<EOF>> ELSE chan[e]
    BY DEF Sent, RelayDataOpen
  <2> QED BY <2>1, <2>2, <2>3 DEF SessionEnds
<1>5. EOF \in Messages /\ <<>> \o <<EOF>> = <<EOF>>
  BY Channels DEF Messages
<1>6. CASE h2r'[e] = IF datPc[e] # "closed" THEN h2r[e] \o <<EOF>> ELSE h2r[e]
  <2> DEFINE to == IF at = "r2h" THEN "nowhere" ELSE at
  <2>1. /\ to = "c2r" <=> at = "c2r"
        /\ to = "r2c" <=> at = "r2c"
        /\ to = "h2r" <=> at = "h2r"
        /\ to # "r2h" /\ to \in Places /\ (at = "nowhere" => to = "nowhere")
    BY DEF Places
  <2> HIDE DEF to
  <2>2. Holds(h2r'[e], asked[e], at = "h2r", datPc[e] # "closed")
    BY <1>3, <1>5, <1>6, Channels DEF Before, Holds
  <2>3. DownFlows(e, to)'
    BY <1>1, <1>2, <2>1, <2>2 DEF Flows, DownFlows, Holds, ClientOpen
  <2>4. UpFlows(e, to)' /\ AskedFlows(e, to)'
    BY <1>1, <1>2, <2>1 DEF Flows, UpFlows, AskedFlows, Holds, SessionOpen, ClientOpen
  <2> QED BY <1>2, <2>1, <2>3, <2>4 DEF Before, ReplyInv, Flows
<1>7. CASE h2r'[e] = IF datPc[e] # "closed" THEN <<>> \o <<EOF>> ELSE <<>>
  <2> DEFINE to == IF at \in {"r2h", "h2r"} THEN "nowhere" ELSE at
  <2>1. /\ to = "c2r" <=> at = "c2r"
        /\ to = "r2c" <=> at = "r2c"
        /\ to \notin {"r2h", "h2r"} /\ to \in Places
        /\ to = "nowhere" <=> at \in {"r2h", "h2r", "nowhere"}
    BY DEF Places
  <2> HIDE DEF to
  <2>2. Holds(h2r'[e], asked[e], FALSE, datPc[e] # "closed")
    BY <1>5, <1>7 DEF Holds
  <2>3. DownFlows(e, to)'
    BY <1>1, <1>2, <2>1, <2>2 DEF Flows, DownFlows, Holds, ClientOpen, Places
  <2>4. UpFlows(e, to)' /\ AskedFlows(e, to)'
    BY <1>1, <1>2, <2>1 DEF Flows, UpFlows, AskedFlows, Holds, SessionOpen, ClientOpen
  <2> QED BY <1>2, <2>1, <2>3, <2>4 DEF Before, ReplyInv, Flows
<1> QED BY <1>4, <1>6, <1>7

\* Every step keeps the stream of a download as it should be.
LEMMA ReplyStep ==
  ASSUME TypeOK, RelayInv, StreamInv, Next, NEW e \in Downloads
  PROVE  ReplyInv(e)'
<1>0. Before(e) /\ ReplyInv(e) /\ PairInv(e)'
  BY BeforeStep, PairStep DEF Before, StreamInv
<1> USE DEF TypeOK
<1>1. ASSUME NEW h \in Hosts, RegisterHandler(h) \/ HostLoop(h) \/ HostRegister(h)
                              \/ HostExit(h) \/ CutControl(h)
      PROVE  ReplyInv(e)'
  <2>1. CASE RegisterHandler(h) \/ HostRegister(h) \/ CutControl(h)
             \/ HostDialBackFails(h) \/ HostControlLost(h)
    <3>1. UNCHANGED <<c2r, r2h, h2r, r2c, asked, got, cliPc, sesPc, conPc, datPc, pipeUp, pipeDown>>
      BY <2>1 DEF RegisterHandler, Register, Unregister, HostRegister, CutControl,
                  HostDialBackFails, HostControlLost
    <3> QED BY <1>0, <3>1, ReplyFrame
  <2>2. CASE HostDialBack(h)
    <3>1. CASE e = Head(ctrlQ[h])
      BY <1>0, <2>2, <3>1, DialledOnce, DialReply DEF Announced
    <3>2. CASE e # Head(ctrlQ[h])
      <4>1. /\ UNCHANGED <<c2r, r2h, h2r, r2c, asked, got, cliPc, conPc, pipeUp, pipeDown>>
            /\ sesPc'[e] = sesPc[e] /\ datPc'[e] = datPc[e]
        BY <2>2, <3>2 DEF HostDialBack
      <4> QED BY <1>0, <4>1, ReplyFrame
    <3> QED BY <3>1, <3>2
  <2>3. CASE HostExit(h)
    <3>1. CASE servedBy[e] = h /\ sesPc[e] = "open"
      BY <1>0, <2>3, <3>1, ExitReply
    <3>2. CASE ~(servedBy[e] = h /\ sesPc[e] = "open")
      <4>1. /\ UNCHANGED <<c2r, r2c, asked, got, cliPc, conPc, datPc, pipeUp, pipeDown>>
            /\ sesPc'[e] = sesPc[e] /\ r2h'[e] = r2h[e] /\ h2r'[e] = h2r[e]
        BY <2>3, <3>2 DEF HostExit, SessionOpen
      <4> QED BY <1>0, <4>1, ReplyFrame
    <3> QED BY <3>1, <3>2
  <2> QED BY <1>1, <2>1, <2>2, <2>3 DEF HostLoop
<1>2. ASSUME NEW d \in Downloads, ConnectHandler(d) PROVE ReplyInv(e)'
  <2>1. CASE ConnectLookup(d) /\ d = e
    BY <1>0, <2>1, LookupReply
  <2>2. CASE (ConnectRefuse(d) \/ ConnectGiveUp(d) \/ ConnectFinish(d)) /\ d = e
    BY <1>0, <2>2, CloseReply
  <2>3. CASE (ConnectLookup(d) \/ ConnectRefuse(d) \/ ConnectGiveUp(d) \/ ConnectFinish(d)) /\ d # e
    <3>1. /\ UNCHANGED <<r2h, h2r, asked, got, cliPc, sesPc, datPc, pipeUp, pipeDown>>
          /\ c2r'[e] = c2r[e] /\ r2c'[e] = r2c[e] /\ conPc'[e] = conPc[e]
      BY <2>3 DEF ConnectLookup, ConnectRefuse, ConnectGiveUp, ConnectFinish, RelayClosesCon,
                  Received, Dropped, Sent
    <3> QED BY <1>0, <3>1, ReplyFrame
  <2>4. CASE ConnectPend(d) \/ ConnectAnnounce(d) \/ ConnectAnnounceFails(d) \/ ConnectTimeout(d)
    <3>1. /\ UNCHANGED <<c2r, r2h, h2r, r2c, asked, got, cliPc, sesPc, datPc, pipeUp, pipeDown>>
          /\ \A x \in {"none", "hello", "closed"} : conPc'[e] = x <=> conPc[e] = x
      BY <2>4 DEF ConnectPend, ConnectAnnounce, ConnectAnnounceFails, ConnectTimeout
    <3> QED BY <1>0, <3>1, ReplyFrame
  <2>5. CASE ConnectPair(d)
    <3>1. /\ UNCHANGED <<c2r, r2h, h2r, r2c, asked, got, cliPc, sesPc, datPc>>
          /\ \A x \in {"none", "hello", "closed"} : conPc'[e] = x <=> conPc[e] = x
          /\ pipeUp'[e] = pipeUp[e] \/ (conPc[e] = "wait" /\ pipeUp'[e] = "run")
          /\ pipeDown'[e] = pipeDown[e] \/ (conPc[e] = "wait" /\ pipeDown'[e] = "run")
      BY <2>5 DEF ConnectPair
    <3>2. conPc[e] = "wait" => pipeUp[e] = "off" /\ pipeDown[e] = "off"
      BY <1>0 DEF Before, ConnectInv
    <3> QED BY <1>0, <3>1, <3>2, ReplyFrame
  <2> QED BY <1>2, <2>1, <2>2, <2>3, <2>4, <2>5 DEF ConnectHandler
<1>3. ASSUME NEW d \in Downloads, DataHandler(d) PROVE ReplyInv(e)'
  <2>1. CASE d = e /\ datPc'[e] = "closed"
    <3>1. DataPop(e) \/ DataRelease(e)
      BY <1>3, <2>1 DEF DataHandler, DataAssign, DataReady
    <3> QED BY <1>0, <2>1, <3>1, ReleaseReply
  <2>2. CASE ~(d = e /\ datPc'[e] = "closed")
    <3>1. /\ UNCHANGED <<c2r, r2c, asked, got, cliPc, sesPc, conPc, pipeUp, pipeDown>>
          /\ r2h'[e] = r2h[e] /\ h2r'[e] = h2r[e]
          /\ datPc'[e] = "closed" <=> datPc[e] = "closed"
      <4>1. CASE DataPop(d)
        BY <2>2, <4>1 DEF DataPop, RelayClosesData, Dropped, Sent
      <4>2. CASE DataAssign(d) \/ DataReady(d)
        BY <2>2, <4>2 DEF DataAssign, DataReady
      <4>3. CASE DataRelease(d)
        BY <2>2, <4>3 DEF DataRelease, RelayClosesData, Dropped, Sent
      <4> QED BY <1>3, <4>1, <4>2, <4>3 DEF DataHandler
    <3> QED BY <1>0, <3>1, ReplyFrame
  <2> QED BY <2>1, <2>2
<1>4. ASSUME NEW d \in Downloads, PipeUp(d) \/ PipeDown(d) PROVE ReplyInv(e)'
  <2>1. CASE d = e
    BY <1>0, <1>4, <2>1, UpReply, DownReply, EndReply DEF PipeUp, PipeDown
  <2>2. CASE d # e
    <3>1. /\ UNCHANGED <<asked, got, cliPc, sesPc, conPc, datPc>>
          /\ c2r'[e] = c2r[e] /\ r2h'[e] = r2h[e] /\ h2r'[e] = h2r[e] /\ r2c'[e] = r2c[e]
          /\ pipeUp'[e] = pipeUp[e] /\ pipeDown'[e] = pipeDown[e]
      BY <1>4, <2>2 DEF PipeUp, PipeDown, PipeUpForward, PipeDownForward, PipeUpEnd, PipeDownEnd,
                        Received, Sent
    <3> QED BY <1>0, <3>1, ReplyFrame
  <2> QED BY <2>1, <2>2
<1>5. ASSUME NEW d \in Downloads, Session(d) \/ Client(d) \/ ClientConnect(d)
      PROVE  ReplyInv(e)'
  <2>1. CASE d = e
    <3>1. CASE ClientLeave(e)
      BY <1>0, <3>1, LeaveReply DEF ClientLeave
    <3> QED BY <1>0, <1>5, <2>1, <3>1, ServeReply, EndsReply, AskReply, ReadReply,
           ConnectReply DEF Client, Session
  <2>2. CASE d # e
    <3>1. /\ UNCHANGED <<datPc, pipeUp, pipeDown>>
          /\ c2r'[e] = c2r[e] /\ r2h'[e] = r2h[e] /\ h2r'[e] = h2r[e] /\ r2c'[e] = r2c[e]
          /\ asked'[e] = asked[e] /\ got'[e] = got[e] /\ cliPc'[e] = cliPc[e]
          /\ sesPc'[e] = sesPc[e] /\ conPc'[e] = conPc[e]
      <4>1. CASE SessionServe(d)
        BY <2>2, <4>1 DEF SessionServe, Received, Sent
      <4>0. CASE SessionEnds(d)
        BY <2>2, <4>0 DEF SessionEnds, Dropped, Sent
      <4>2. CASE ClientRequest(d) \/ ClientConnect(d)
        BY <2>2, <4>2 DEF ClientRequest, ClientConnect, Sent
      <4>3. CASE ClientReply(d) \/ ClientLeave(d)
        BY <2>2, <4>3 DEF ClientReply, ClientLeave, Leave, Received, Dropped, Sent
      <4> QED BY <1>5, <4>1, <4>0, <4>2, <4>3 DEF Client, Session
    <3> QED BY <1>0, <3>1, ReplyFrame
  <2> QED BY <2>1, <2>2
<1> QED BY <1>1, <1>2, <1>3, <1>4, <1>5 DEF Next

\* The stream invariant is preserved.
LEMMA StreamStep == TypeOK /\ RelayInv /\ StreamInv /\ [Next]_vars => StreamInv'
<1> SUFFICES ASSUME TypeOK, RelayInv, StreamInv, [Next]_vars PROVE StreamInv'
  OBVIOUS
<1>1. CASE UNCHANGED vars
  <2>1. StreamsEndAtTheirEnds'
    BY <1>1 DEF vars, StreamInv, StreamsEndAtTheirEnds, ClientOpen, SessionOpen
  <2>2. ASSUME NEW e \in Downloads PROVE PairInv(e)' /\ ReplyInv(e)'
    <3>1. PairInv(e) /\ ReplyInv(e)
      BY DEF StreamInv
    <3>2. UNCHANGED <<c2r, r2h, h2r, r2c, asked, got, cliPc, sesPc, conPc, datPc,
                      pipeUp, pipeDown, ready, pendingStreams>>
      BY <1>1 DEF vars
    <3>3. ReplyInv(e)'
      BY <3>1, <3>2, ReplyFrame
    <3> QED BY <3>1, <3>2, <3>3 DEF PairInv
  <2> QED BY <2>1, <2>2 DEF StreamInv
<1>2. CASE Next
  <2>1. \A e \in Downloads : PairInv(e)'
    BY <1>2, PairStep DEF StreamInv
  <2> QED BY <1>2, <2>1, StreamsEndStep, ReplyStep DEF StreamInv
<1> QED BY <1>1, <1>2

\* It holds before anybody connects.
LEMMA StreamInit == Init => StreamInv
<1> SUFFICES ASSUME Init PROVE StreamInv
  OBVIOUS
<1>1. StreamsEndAtTheirEnds
  BY DEF Init, StreamsEndAtTheirEnds
<1>2. ASSUME NEW e \in Downloads PROVE PairInv(e) /\ ReplyInv(e)
  <2>1. PairInv(e)
    BY DEF Init, PairInv
  <2>2. Flows(e, "nowhere")
    BY DEF Init, Flows, UpFlows, DownFlows, AskedFlows, Holds, SessionOpen, ClientOpen
  <2>3. asked[e] \in {got[e], got[e] + 1} /\ (cliPc[e] = "none" => asked[e] = got[e])
    BY DEF Init
  <2> QED BY <2>1, <2>2, <2>3 DEF ReplyInv, Places
<1> QED BY <1>1, <1>2 DEF StreamInv

\* Every channel holds, in every reachable state, what the handshake, the
\* commands and the ends of the stream have put on it and nothing else.
THEOREM StreamInvariant == Spec => []StreamInv
<1> QED BY StreamInit, StreamStep, TypeCorrect, RelayInvariant, PTL DEF Spec

\* The relay ends a direction of a paired stream only after an endpoint left.
THEOREM EndsAreTheirs == Spec => []StreamsEndAtTheirEnds
<1>1. StreamInv => StreamsEndAtTheirEnds
  BY DEF StreamInv
<1> QED BY <1>1, StreamInvariant, PTL

\* No command or reply is swallowed, duplicated or overtaken on its way
\* through the relay while both ends and the CONNECT handler are there.
THEOREM CommandsArrive == Spec => []NothingSwallowed
<1>1. TypeOK /\ RelayInv /\ StreamInv => NothingSwallowed
  <2> SUFFICES ASSUME TypeOK, RelayInv, StreamInv, NEW d \in Downloads,
                      conPc[d] \notin {"none", "hello", "closed"}, ClientOpen(d),
                      sesPc[d] # "closed"
               PROVE  c2r[d] \o r2h[d] \o h2r[d] \o r2c[d]
                        = IF asked[d] = got[d] THEN <<>> ELSE <<asked[d]>>
    BY DEF NothingSwallowed
  <2>1. Before(d)
    BY BeforeStep
  <2>2. PICK at \in Places : Flows(d, at)
    BY <2>1 DEF Before, ReplyInv
  <2>3. datPc[d] # "closed" /\ cliPc[d] = "open"
    BY <2>1 DEF Before, PairInv, ClientOpen
  <2>4. /\ pipeDown[d] = "ended" => sesPc[d] # "open"
        /\ pipeUp[d] = "ended" => sesPc[d] # "open"
    BY DEF StreamInv, StreamsEndAtTheirEnds, ClientOpen, SessionOpen
  <2>5. pipeDown[d] # "ended"
    BY <2>1, <2>3, <2>4 DEF Before, PairInv, EndStates, DataInv
  <2>6. /\ Holds(c2r[d], asked[d], at = "c2r", FALSE)
        /\ Holds(r2h[d], asked[d], at = "r2h", FALSE)
        /\ Holds(h2r[d], asked[d], at = "h2r", FALSE)
        /\ Holds(r2c[d], asked[d], at = "r2c", FALSE)
    BY <2>2, <2>3, <2>4, <2>5 DEF Flows, UpFlows, DownFlows, Holds, ClientOpen, SessionOpen
  <2>7. asked[d] = got[d] <=> at = "nowhere"
    BY <2>2 DEF Flows, AskedFlows
  <2> DEFINE n == asked[d]
  <2>8. n \in Messages
    BY <2>1 DEF Before
  <2>9. /\ <<n>> \o <<>> = <<n>> /\ <<>> \o <<n>> = <<n>> /\ <<>> \o <<>> = <<>>
    BY <2>8, Channels
  <2> HIDE DEF n
  <2>10. CASE at = "nowhere"
    BY <2>6, <2>7, <2>9, <2>10 DEF Holds, n
  <2>11. CASE at = "c2r"
    BY <2>6, <2>7, <2>9, <2>11 DEF Holds, n
  <2>12. CASE at = "r2h"
    BY <2>6, <2>7, <2>9, <2>12 DEF Holds, n
  <2>13. CASE at = "h2r"
    BY <2>6, <2>7, <2>9, <2>13 DEF Holds, n
  <2>14. CASE at = "r2c"
    BY <2>6, <2>7, <2>9, <2>14 DEF Holds, n
  <2> QED BY <2>10, <2>11, <2>12, <2>13, <2>14 DEF Places
<1> QED BY <1>1, TypeCorrect, RelayInvariant, StreamInvariant, PTL

-----------------------------------------------------------------------------
\* What Rendezvous sees of a state: peer and joined of the mapping.
Peer == [d \in Downloads |-> IF pipeUp[d] = "off" THEN None ELSE dataConn[d]]
Joined == {h \in Hosts : regPc[h] # "none"}

\* A step behind the scenes: Rendezvous sees nothing of it.
LEMMA Unseen ==
  ASSUME TypeOK, UNCHANGED clientVars,
         \A h \in Hosts : regPc'[h] # "none" <=> regPc[h] # "none",
         \A d \in Downloads : /\ pipeUp'[d] = "off" <=> pipeUp[d] = "off"
                              /\ pipeUp[d] # "off" => dataConn'[d] = dataConn[d]
  PROVE  UNCHANGED Abstract!vars
<1>1. Peer' = Peer
  BY DEF Peer
<1>2. Joined' = Joined
  BY DEF Joined
<1> QED BY <1>1, <1>2 DEF Abstract!vars, Peer, Joined

\* Nobody has called, joined or been put through.
LEMMA AbstractInit == Init => Abstract!Init
  BY DEF Init, Abstract!Init

\* Every step is one of Rendezvous or goes unseen there.
LEMMA AbstractStep ==
  ASSUME TypeOK, RelayInv, StreamInv, Next
  PROVE  [Abstract!Next]_(Abstract!vars)
<1> USE DEF TypeOK
<1>1. ASSUME NEW h \in Hosts, Register(h) PROVE Abstract!Join(h)
  <2>1. Joined' = Joined \cup {h} /\ h \notin Joined
    BY <1>1 DEF Register, Joined
  <2>2. Peer' = Peer
    BY <1>1 DEF Register, Peer
  <2> QED BY <1>1, <2>1, <2>2 DEF Register, Abstract!Join, Peer, Joined
<1>2. ASSUME NEW d \in Downloads, ClientConnect(d) PROVE Abstract!Call(d)
  BY <1>2 DEF ClientConnect, Abstract!Call
<1>3. ASSUME NEW d \in Downloads, ConnectPair(d) PROVE Abstract!Next
  <2>1. Before(d)
    BY BeforeStep
  <2>2. /\ pipeUp[d] = "off" /\ ready[d] /\ ~done[d] /\ cliPc[d] # "none" /\ ctrlOf[d] # None
        /\ HostToken[ctrlOf[d]] = WantedToken[d] /\ regPc[ctrlOf[d]] # "none"
    BY <1>3, <2>1 DEF ConnectPair, Before, ConnectInv
  <2>3. PICK h \in Hosts : h = ctrlOf[d]
    BY <2>2
  <2>4. dataConn[d] = h
    BY <2>1, <2>2, <2>3 DEF Before, DataInv
  <2>5. h \in Joined /\ Joined' = Joined
    BY <1>3, <2>2, <2>3 DEF ConnectPair, Joined
  <2>6. Peer' = [Peer EXCEPT ![d] = h]
    BY <1>3, <2>2, <2>4 DEF ConnectPair, Peer
  <2>7. Peer[d] = None
    BY <2>2 DEF Peer
  <2>8. Abstract!PutThrough(d, h)
    BY <1>3, <2>2, <2>3, <2>5, <2>6, <2>7 DEF ConnectPair, Abstract!PutThrough, Peer, Joined
  <2> QED BY <2>8 DEF Abstract!Next
<1>4. ASSUME NEW d \in Downloads, ClientRequest(d) PROVE Abstract!Ask(d)
  BY <1>4 DEF ClientRequest, ClientOpen, Abstract!Ask
<1>5. ASSUME NEW d \in Downloads, ClientLeave(d) PROVE Abstract!HangUp(d)
  BY <1>5 DEF ClientLeave, ClientOpen, Leave, Abstract!HangUp
<1>6. ASSUME NEW d \in Downloads, ClientReply(d) PROVE Abstract!Answer(d) \/ Abstract!HangUp(d)
  <2>1. CASE Head(r2c[d]) \in Requests
    <3>1. Before(d)
      BY BeforeStep
    <3>2. PICK at \in Places : Flows(d, at)
      BY <3>1 DEF Before, ReplyInv
    <3>3. Arrives(r2c, d) /\ got' = [got EXCEPT ![d] = Head(r2c[d])]
      BY <1>6, <2>1 DEF ClientReply
    <3>4. Head(r2c[d]) = got[d] + 1 /\ cliPc[d] = "open" /\ pipeUp[d] # "off"
      BY <2>1, <3>1, <3>2, <3>3, ReplyIsNext
    <3>5. dataConn[d] # None
      BY <3>1, <3>4 DEF Before, DataInv
    <3> QED BY <1>6, <2>1, <3>3, <3>4, <3>5 DEF ClientReply, Abstract!Answer
  <2>2. CASE Head(r2c[d]) \notin Requests
    BY <1>6, <2>2 DEF ClientReply, ClientOpen, Leave, Abstract!HangUp
  <2> QED BY <2>1, <2>2
<1>7. ASSUME NEW h \in Hosts, Unregister(h) \/ HostLoop(h) \/ HostRegister(h) \/ HostExit(h)
                              \/ CutControl(h)
      PROVE  UNCHANGED Abstract!vars
  <2>1. /\ UNCHANGED <<clientVars, pipeUp, dataConn>>
        /\ \A g \in Hosts : regPc'[g] # "none" <=> regPc[g] # "none"
    BY <1>7 DEF Unregister, HostLoop, HostDialBack, HostDialBackFails, HostControlLost,
                HostRegister, HostExit, CutControl
  <2> QED BY <2>1, Unseen
<1>8. ASSUME NEW d \in Downloads, ConnectHandler(d), ~ConnectPair(d)
      PROVE  UNCHANGED Abstract!vars
  <2>1. UNCHANGED <<clientVars, regPc, pipeUp, dataConn>>
    BY <1>8 DEF ConnectHandler, ConnectLookup, ConnectRefuse, ConnectPend, ConnectAnnounce,
                ConnectAnnounceFails, ConnectTimeout, ConnectGiveUp, ConnectFinish
  <2> QED BY <2>1, Unseen
<1>9. ASSUME NEW d \in Downloads, DataHandler(d) PROVE UNCHANGED Abstract!vars
  <2>1. UNCHANGED <<clientVars, regPc, pipeUp>>
    BY <1>9 DEF DataHandler, DataPop, DataAssign, DataReady, DataRelease
  <2>2. ASSUME NEW e \in Downloads, pipeUp[e] # "off" PROVE dataConn'[e] = dataConn[e]
    <3>1. CASE DataAssign(d)
      <4>1. datPc[e] # "popped"
        <5>1. Before(e)
          BY BeforeStep
        <5> QED BY <2>2, <5>1 DEF Before, DataInv, PairInv
      <4> QED BY <3>1, <4>1 DEF DataAssign
    <3>2. CASE ~DataAssign(d)
      BY <1>9, <3>2 DEF DataHandler, DataPop, DataReady, DataRelease
    <3> QED BY <3>1, <3>2
  <2> QED BY <2>1, <2>2, Unseen
<1>10. ASSUME NEW d \in Downloads, PipeUp(d) \/ PipeDown(d) \/ Session(d)
       PROVE  UNCHANGED Abstract!vars
  <2>1. /\ UNCHANGED <<clientVars, regPc, dataConn>>
        /\ \A e \in Downloads : pipeUp'[e] = "off" <=> pipeUp[e] = "off"
    BY <1>10 DEF PipeUp, PipeUpForward, PipeUpEnd, PipeDown, PipeDownForward, PipeDownEnd,
                 Session, SessionServe, SessionEnds
  <2> QED BY <2>1, Unseen
<1>11. ASSUME NEW d \in Downloads, Client(d) \/ ClientConnect(d) PROVE Abstract!Next
  BY <1>2, <1>4, <1>5, <1>6, <1>11 DEF Client, Abstract!Next
<1>12. ASSUME NEW h \in Hosts, Register(h) PROVE Abstract!Next
  BY <1>1, <1>12 DEF Abstract!Next
<1>13. CASE \E h \in Hosts : RegisterHandler(h) \/ HostLoop(h)
                             \/ HostRegister(h) \/ HostExit(h) \/ CutControl(h)
  BY <1>7, <1>12, <1>13 DEF RegisterHandler
<1>14. CASE \E d \in Downloads : ConnectHandler(d) \/ DataHandler(d) \/ PipeUp(d) \/ PipeDown(d)
                                 \/ Session(d) \/ Client(d) \/ ClientConnect(d)
  BY <1>3, <1>8, <1>9, <1>10, <1>11, <1>14
<1> QED BY <1>13, <1>14 DEF Next

\* The relay, the hosts and the downloaders together implement Rendezvous:
\* a downloader is put through at most once, to a host that joined under the
\* token it asked for, and gets one reply per command, in order, from it.
THEOREM RelayImplementsRendezvous == Spec => ImplementsRendezvous
<1>1. TypeOK /\ RelayInv /\ StreamInv /\ [Next]_vars => [Abstract!Next]_(Abstract!vars)
  <2>1. UNCHANGED vars => UNCHANGED Abstract!vars
    BY DEF vars, Abstract!vars
  <2> QED BY <2>1, AbstractStep
<1> QED BY <1>1, AbstractInit, TypeCorrect, RelayInvariant, StreamInvariant, PTL
        DEF Spec, ImplementsRendezvous, Abstract!Spec
=============================================================================
