------------------------------ MODULE TunnelRelay ------------------------------
(***************************************************************************)
(* The NAT-traversal relay (src/tunnel_relay.py) with the two parties that *)
(* meet in it: the host's control loop and sessions (run_host_tunnel and   *)
(* serve_session of src/node.py) and the downloader's tunneled             *)
(* HostConnection.                                                         *)
(*                                                                         *)
(* The relay runs one thread per accepted socket (ThreadingMixIn).  A step *)
(* of a thread is what it does between two points where another thread can *)
(* be seen: a `with _lock` block, a blocking recv or wait, a sendall.      *)
(* When a handler returns, socketserver shuts its socket down, so          *)
(* "handler returned" and "the relay's end of that socket is closed" are   *)
(* one fact: regPc, conPc or datPc is "closed".                            *)
(*                                                                         *)
(* One element of Hosts is one call of run_host_tunnel (a restarted host   *)
(* is another element), one element of Downloads one CONNECT; the stream   *)
(* id that handle_connect draws with secrets.token_hex is the download     *)
(* itself.                                                                 *)
(***************************************************************************)
EXTENDS Integers, Sequences, FiniteSets

CONSTANTS
  Hosts,          \* calls of run_host_tunnel
  Downloads,      \* CONNECT attempts, and so stream ids
  Tokens,         \* rendezvous tokens (content hashes)
  HostToken,      \* [Hosts -> Tokens], the token a host REGISTERs
  WantedToken,    \* [Downloads -> Tokens], the token a downloader CONNECTs to
  MaxRequests,    \* bound: protocol commands per tunneled session
  None            \* Python's None: no registration, no data_conn

ASSUME TokenAssumption ==
  /\ HostToken \in [Hosts -> Tokens]
  /\ WantedToken \in [Downloads -> Tokens]
ASSUME RequestsAssumption == MaxRequests \in Nat \ {0}
ASSUME NoneAssumption == None \notin Hosts

VARIABLES
  registrations,   \* _registrations: token -> control socket (its host)
  pendingStreams,  \* keys of _pending_streams
  regPc,           \* thread of handle_register, per control connection
  hostPc,          \* thread of run_host_tunnel
  cut,             \* the network dropped the control connection
  ctrlQ,           \* NEWSTREAM lines on their way to the host
  conPc,           \* thread of handle_connect
  ctrlOf,          \* its local variable ctrl
  datPc,           \* thread of handle_data for the stream's dial-back
  dataConn,        \* pairing.data_conn (the host that dialled it)
  ready, done,     \* pairing.ready, pairing.done
  pipeUp,          \* pipe(conn, data_conn)
  pipeDown,        \* pipe(data_conn, conn)
  servedBy,        \* the host whose session holds the stream's DATA socket
  sesPc,           \* thread of serve_session for the stream
  cliPc,           \* the downloader's socket
  asked, got,      \* commands sent, replies received by the downloader
  c2r, r2h, h2r, r2c  \* bytes in flight, client -> relay -> host and back

relayVars   == <<registrations, pendingStreams, regPc, conPc, ctrlOf, datPc,
                 dataConn, ready, done, pipeUp, pipeDown>>
hostVars    == <<hostPc, cut, ctrlQ, servedBy, sesPc>>
clientVars  == <<cliPc, asked, got>>
streamVars  == <<c2r, r2h, h2r, r2c>>
vars        == <<relayVars, hostVars, clientVars, streamVars>>

(***************************************************************************)
(* What travels on a stream: the CONNECT line, the commands and replies of *)
(* the tunneled protocol (numbered, serve_session answers one line per     *)
(* line), the relay's refusal, and the end of the stream.                  *)
(***************************************************************************)
Requests == 1..MaxRequests
Hello == 0
Err   == -1
EOF   == -2
Messages == Requests \cup {Hello, Err, EOF}

RegStates  == {"none", "watch", "closed"}
HostStates == {"off", "loop", "dead", "exited"}
ConStates  == {"none", "hello", "found", "announce", "wait", "giveup", "pipe", "closed"}
DatStates  == {"none", "hello", "popped", "assigned", "waitdone", "closed"}
PipeStates == {"off", "run", "ended"}
EndStates  == {"none", "open", "closed"}

TypeOK ==
  /\ registrations \in [Tokens -> Hosts \cup {None}]
  /\ pendingStreams \subseteq Downloads
  /\ regPc \in [Hosts -> RegStates]
  /\ hostPc \in [Hosts -> HostStates]
  /\ cut \in [Hosts -> BOOLEAN]
  /\ ctrlQ \in [Hosts -> Seq(Downloads)]
  /\ conPc \in [Downloads -> ConStates]
  /\ ctrlOf \in [Downloads -> Hosts \cup {None}]
  /\ datPc \in [Downloads -> DatStates]
  /\ dataConn \in [Downloads -> Hosts \cup {None}]
  /\ ready \in [Downloads -> BOOLEAN]
  /\ done \in [Downloads -> BOOLEAN]
  /\ pipeUp \in [Downloads -> PipeStates]
  /\ pipeDown \in [Downloads -> PipeStates]
  /\ servedBy \in [Downloads -> Hosts \cup {None}]
  /\ sesPc \in [Downloads -> EndStates]
  /\ cliPc \in [Downloads -> EndStates]
  /\ asked \in [Downloads -> 0..MaxRequests]
  /\ got \in [Downloads -> 0..MaxRequests]
  /\ c2r \in [Downloads -> Seq(Messages)]
  /\ r2h \in [Downloads -> Seq(Messages)]
  /\ h2r \in [Downloads -> Seq(Messages)]
  /\ r2c \in [Downloads -> Seq(Messages)]

Init ==
  /\ registrations = [t \in Tokens |-> None]
  /\ pendingStreams = {}
  /\ regPc = [h \in Hosts |-> "none"]
  /\ hostPc = [h \in Hosts |-> "off"]
  /\ cut = [h \in Hosts |-> FALSE]
  /\ ctrlQ = [h \in Hosts |-> <<>>]
  /\ conPc = [d \in Downloads |-> "none"]
  /\ ctrlOf = [d \in Downloads |-> None]
  /\ datPc = [d \in Downloads |-> "none"]
  /\ dataConn = [d \in Downloads |-> None]
  /\ ready = [d \in Downloads |-> FALSE]
  /\ done = [d \in Downloads |-> FALSE]
  /\ pipeUp = [d \in Downloads |-> "off"]
  /\ pipeDown = [d \in Downloads |-> "off"]
  /\ servedBy = [d \in Downloads |-> None]
  /\ sesPc = [d \in Downloads |-> "none"]
  /\ cliPc = [d \in Downloads |-> "none"]
  /\ asked = [d \in Downloads |-> 0]
  /\ got = [d \in Downloads |-> 0]
  /\ c2r = [d \in Downloads |-> <<>>]
  /\ r2h = [d \in Downloads |-> <<>>]
  /\ h2r = [d \in Downloads |-> <<>>]
  /\ r2c = [d \in Downloads |-> <<>>]

(***************************************************************************)
(* Sockets.  A byte sent to an endpoint that is closed is lost; an         *)
(* endpoint that closes loses what it had not read and its peer reads EOF. *)
(***************************************************************************)
ClientOpen(d)    == cliPc[d] = "open"
RelayConOpen(d)  == conPc[d] # "closed"
RelayDataOpen(d) == datPc[d] # "closed"
SessionOpen(d)   == sesPc[d] = "open"

\* `chan` after `msgs` are sent on it, `open` saying whether the receiver is.
Sent(chan, d, msgs, open) ==
  IF open THEN [chan EXCEPT ![d] = @ \o msgs] ELSE chan
Received(chan, d) == [chan EXCEPT ![d] = Tail(@)]
Dropped(chan, d)  == [chan EXCEPT ![d] = <<>>]
Arrives(chan, d)  == chan[d] # <<>>

\* The relay's end of the downloader's socket, or of the dial-back, closes.
RelayClosesCon(d) ==
  /\ c2r' = Dropped(c2r, d)
  /\ r2c' = Sent(r2c, d, IF pipeDown[d] = "ended" THEN <<>> ELSE <<EOF>>, ClientOpen(d))
RelayClosesData(d) ==
  /\ h2r' = Dropped(h2r, d)
  /\ r2h' = Sent(r2h, d, IF pipeUp[d] = "ended" THEN <<>> ELSE <<EOF>>, SessionOpen(d))

(***************************************************************************)
(* The host: run_host_tunnel and the serve_session threads it starts.      *)
(***************************************************************************)

\* Dial the relay and send REGISTER.
HostRegister(h) ==
  /\ hostPc[h] = "off"
  /\ hostPc' = [hostPc EXCEPT ![h] = "loop"]
  /\ UNCHANGED <<relayVars, cut, ctrlQ, servedBy, sesPc, clientVars, streamVars>>

\* Read one NEWSTREAM line, dial back, send DATA and start the session.
HostDialBack(h) ==
  /\ hostPc[h] = "loop"
  /\ ctrlQ[h] # <<>>
  /\ LET d == Head(ctrlQ[h]) IN
     /\ ctrlQ' = [ctrlQ EXCEPT ![h] = Tail(@)]
     /\ servedBy' = [servedBy EXCEPT ![d] = h]
     /\ sesPc' = [sesPc EXCEPT ![d] = "open"]
     /\ datPc' = [datPc EXCEPT ![d] = "hello"]
  /\ UNCHANGED <<registrations, pendingStreams, regPc, conPc, ctrlOf, dataConn, ready,
                 done, pipeUp, pipeDown, hostPc, cut, clientVars, streamVars>>

\* The dial-back raises OSError: nothing catches it, so the loop ends and
\* the control socket closes with it.
HostDialBackFails(h) ==
  /\ hostPc[h] = "loop"
  /\ ctrlQ[h] # <<>>
  /\ hostPc' = [hostPc EXCEPT ![h] = "dead"]
  /\ ctrlQ' = [ctrlQ EXCEPT ![h] = <<>>]
  /\ UNCHANGED <<relayVars, cut, servedBy, sesPc, clientVars, streamVars>>

\* The loop finds its control connection gone (EOF, or the reset that
\* answers a PING) and returns.  It never registers again.
HostControlLost(h) ==
  /\ hostPc[h] = "loop"
  /\ cut[h]
  /\ hostPc' = [hostPc EXCEPT ![h] = "dead"]
  /\ ctrlQ' = [ctrlQ EXCEPT ![h] = <<>>]
  /\ UNCHANGED <<relayVars, cut, servedBy, sesPc, clientVars, streamVars>>

\* The host process ends and takes every socket it held with it.
HostExit(h) ==
  /\ hostPc[h] \in {"loop", "dead"}
  /\ LET mine == {d \in Downloads : servedBy[d] = h /\ SessionOpen(d)} IN
     /\ sesPc' = [d \in Downloads |-> IF d \in mine THEN "closed" ELSE sesPc[d]]
     /\ r2h' = [d \in Downloads |-> IF d \in mine THEN <<>> ELSE r2h[d]]
     /\ h2r' = [d \in Downloads |->
                  IF d \in mine /\ RelayDataOpen(d) THEN Append(h2r[d], EOF) ELSE h2r[d]]
  /\ hostPc' = [hostPc EXCEPT ![h] = "exited"]
  /\ ctrlQ' = [ctrlQ EXCEPT ![h] = <<>>]
  /\ UNCHANGED <<relayVars, cut, servedBy, clientVars, c2r, r2c>>

\* serve_session: one reply per command, until the stream ends.
SessionServe(d) ==
  /\ SessionOpen(d)
  /\ Arrives(r2h, d)
  /\ r2h' = Received(r2h, d)
  /\ IF Head(r2h[d]) = EOF
     THEN /\ sesPc' = [sesPc EXCEPT ![d] = "closed"]
          /\ h2r' = Sent(h2r, d, <<EOF>>, RelayDataOpen(d))
     ELSE /\ h2r' = Sent(h2r, d, <<Head(r2h[d])>>, RelayDataOpen(d))
          /\ UNCHANGED sesPc
  /\ UNCHANGED <<relayVars, hostPc, cut, ctrlQ, servedBy, clientVars, c2r, r2c>>

\* A session thread ends by itself while its host lives: an exception nothing
\* catches (an unreadable file, a command that does not parse), which closes
\* the socket behind what was sent; or the data connection is reset, and what
\* was on its way is lost with it (here both ends learn of that at once, and
\* never before the relay has read the DATA line).
SessionEnds(d) ==
  /\ SessionOpen(d)
  /\ sesPc' = [sesPc EXCEPT ![d] = "closed"]
  /\ r2h' = Dropped(r2h, d)
  /\ \/ h2r' = Sent(h2r, d, <<EOF>>, RelayDataOpen(d))
     \/ datPc[d] # "hello" /\ h2r' = Sent(Dropped(h2r, d), d, <<EOF>>, RelayDataOpen(d))
  /\ UNCHANGED <<relayVars, hostPc, cut, ctrlQ, servedBy, clientVars, c2r, r2c>>

\* A middlebox resets the idle control connection; neither end knows yet.
CutControl(h) ==
  /\ hostPc[h] = "loop"
  /\ ~cut[h]
  /\ cut' = [cut EXCEPT ![h] = TRUE]
  /\ UNCHANGED <<relayVars, hostPc, ctrlQ, servedBy, sesPc, clientVars, streamVars>>

(***************************************************************************)
(* The downloader: HostConnection over the tunnel.                         *)
(***************************************************************************)

\* connect_via_tunnel: CONNECT, and no acknowledgement to wait for.
ClientConnect(d) ==
  /\ cliPc[d] = "none"
  /\ cliPc' = [cliPc EXCEPT ![d] = "open"]
  /\ c2r' = [c2r EXCEPT ![d] = <<Hello>>]
  /\ conPc' = [conPc EXCEPT ![d] = "hello"]
  /\ UNCHANGED <<registrations, pendingStreams, regPc, ctrlOf, datPc, dataConn, ready,
                 done, pipeUp, pipeDown, hostVars, asked, got, r2h, h2r, r2c>>

\* request(): the next command goes out when the last one is answered.
ClientRequest(d) ==
  /\ ClientOpen(d)
  /\ asked[d] = got[d]
  /\ asked[d] < MaxRequests
  /\ asked' = [asked EXCEPT ![d] = @ + 1]
  /\ c2r' = Sent(c2r, d, <<asked[d] + 1>>, RelayConOpen(d))
  /\ UNCHANGED <<relayVars, hostVars, cliPc, got, r2h, h2r, r2c>>

\* The downloader closes its end of the stream, at once or on an ERR or EOF.
Leave(d) ==
  /\ cliPc' = [cliPc EXCEPT ![d] = "closed"]
  /\ c2r' = Sent(c2r, d, <<EOF>>, RelayConOpen(d))
  /\ r2c' = Dropped(r2c, d)

\* recv_line of the reply.  An ERR or an empty reply makes the caller raise.
ClientReply(d) ==
  /\ ClientOpen(d)
  /\ got[d] < asked[d]
  /\ Arrives(r2c, d)
  /\ IF Head(r2c[d]) \in Requests
     THEN /\ got' = [got EXCEPT ![d] = Head(r2c[d])]
          /\ r2c' = Received(r2c, d)
          /\ UNCHANGED <<cliPc, c2r>>
     ELSE Leave(d) /\ UNCHANGED got
  /\ UNCHANGED <<relayVars, hostVars, asked, r2h, h2r>>

\* Finished with the session, timed out after 10s, or killed.
ClientLeave(d) ==
  /\ ClientOpen(d)
  /\ Leave(d)
  /\ UNCHANGED <<relayVars, hostVars, asked, got, r2h, h2r>>

(***************************************************************************)
(* The relay's handler of a control connection.                            *)
(***************************************************************************)

\* TunnelHandler reads the REGISTER line; the last host to register wins.
Register(h) ==
  /\ regPc[h] = "none"
  /\ hostPc[h] # "off"
  /\ regPc' = [regPc EXCEPT ![h] = "watch"]
  /\ registrations' = [registrations EXCEPT ![HostToken[h]] = h]
  /\ UNCHANGED <<pendingStreams, conPc, ctrlOf, datPc, dataConn, ready, done,
                 pipeUp, pipeDown, hostVars, clientVars, streamVars>>

ControlGone(h) == hostPc[h] \in {"dead", "exited"} \/ cut[h]

\* Mutants of Unregister: the entry is left behind; whoever's it is, it goes.
UnregisterNothing(h) ==
  /\ regPc[h] = "watch"
  /\ ControlGone(h)
  /\ regPc' = [regPc EXCEPT ![h] = "closed"]
  /\ UNCHANGED <<registrations, pendingStreams, conPc, ctrlOf, datPc, dataConn, ready, done,
                 pipeUp, pipeDown, hostVars, clientVars, streamVars>>
UnregisterAny(h) ==
  /\ regPc[h] = "watch"
  /\ ControlGone(h)
  /\ regPc' = [regPc EXCEPT ![h] = "closed"]
  /\ registrations' = [registrations EXCEPT ![HostToken[h]] = None]
  /\ UNCHANGED <<pendingStreams, conPc, ctrlOf, datPc, dataConn, ready, done,
                 pipeUp, pipeDown, hostVars, clientVars, streamVars>>

\* The blocking recv ends: under the lock the handler takes its own entry
\* out, and only its own, then returns.
Unregister(h) ==
  /\ regPc[h] = "watch"
  /\ ControlGone(h)
  /\ regPc' = [regPc EXCEPT ![h] = "closed"]
  /\ registrations' = IF registrations[HostToken[h]] = h
                      THEN [registrations EXCEPT ![HostToken[h]] = None]
                      ELSE registrations
  /\ UNCHANGED <<pendingStreams, conPc, ctrlOf, datPc, dataConn, ready, done,
                 pipeUp, pipeDown, hostVars, clientVars, streamVars>>

(***************************************************************************)
(* The relay's handler of a downloader's connection.                       *)
(***************************************************************************)

\* Mutants of ConnectLookup: a chunked recv that takes the first command with
\* the CONNECT line; a lookup that settles for any registration.
ConnectLookupChunked(d) ==
  /\ conPc[d] = "hello"
  /\ Arrives(c2r, d)
  /\ registrations[WantedToken[d]] # None
  /\ c2r' = Dropped(c2r, d)
  /\ ctrlOf' = [ctrlOf EXCEPT ![d] = registrations[WantedToken[d]]]
  /\ conPc' = [conPc EXCEPT ![d] = "found"]
  /\ UNCHANGED <<registrations, pendingStreams, regPc, datPc, dataConn, ready, done,
                 pipeUp, pipeDown, hostVars, clientVars, r2h, h2r, r2c>>
ConnectLookupAny(d) ==
  /\ conPc[d] = "hello"
  /\ Arrives(c2r, d)
  /\ \E t \in Tokens : /\ registrations[t] # None
                      /\ ctrlOf' = [ctrlOf EXCEPT ![d] = registrations[t]]
  /\ c2r' = Received(c2r, d)
  /\ conPc' = [conPc EXCEPT ![d] = "found"]
  /\ UNCHANGED <<registrations, pendingStreams, regPc, datPc, dataConn, ready, done,
                 pipeUp, pipeDown, hostVars, clientVars, r2h, h2r, r2c>>

\* recv_line stops at the newline: what the client sent after CONNECT stays
\* in the socket for pipe().  Then the lookup under the lock.
ConnectLookup(d) ==
  /\ conPc[d] = "hello"
  /\ Arrives(c2r, d)
  /\ registrations[WantedToken[d]] # None
  /\ c2r' = Received(c2r, d)
  /\ ctrlOf' = [ctrlOf EXCEPT ![d] = registrations[WantedToken[d]]]
  /\ conPc' = [conPc EXCEPT ![d] = "found"]
  /\ UNCHANGED <<registrations, pendingStreams, regPc, datPc, dataConn, ready, done,
                 pipeUp, pipeDown, hostVars, clientVars, r2h, h2r, r2c>>

\* No registration: ERR no such host, and the handler returns.
ConnectRefuse(d) ==
  /\ conPc[d] = "hello"
  /\ Arrives(c2r, d)
  /\ registrations[WantedToken[d]] = None
  /\ conPc' = [conPc EXCEPT ![d] = "closed"]
  /\ c2r' = Dropped(c2r, d)
  /\ r2c' = Sent(r2c, d, <<Err, EOF>>, ClientOpen(d))
  /\ UNCHANGED <<registrations, pendingStreams, regPc, ctrlOf, datPc, dataConn, ready,
                 done, pipeUp, pipeDown, hostVars, clientVars, r2h, h2r>>

\* The pairing is pending before the host can hear of it.
ConnectPend(d) ==
  /\ conPc[d] = "found"
  /\ pendingStreams' = pendingStreams \cup {d}
  /\ conPc' = [conPc EXCEPT ![d] = "announce"]
  /\ UNCHANGED <<registrations, regPc, ctrlOf, datPc, dataConn, ready, done,
                 pipeUp, pipeDown, hostVars, clientVars, streamVars>>

\* ctrl.sendall(NEWSTREAM) succeeds: the line reaches a loop that still
\* reads, and is lost if the host or the network has gone meanwhile.
ConnectAnnounce(d) ==
  /\ conPc[d] = "announce"
  /\ regPc[ctrlOf[d]] = "watch"
  /\ conPc' = [conPc EXCEPT ![d] = "wait"]
  /\ ctrlQ' = IF ControlGone(ctrlOf[d]) THEN ctrlQ
              ELSE [ctrlQ EXCEPT ![ctrlOf[d]] = Append(@, d)]
  /\ UNCHANGED <<registrations, pendingStreams, regPc, ctrlOf, datPc, dataConn, ready, done,
                 pipeUp, pipeDown, hostPc, cut, servedBy, sesPc, clientVars, streamVars>>

\* ctrl.sendall raises OSError: the control connection is gone.
ConnectAnnounceFails(d) ==
  /\ conPc[d] = "announce"
  /\ ControlGone(ctrlOf[d])
  /\ conPc' = [conPc EXCEPT ![d] = "giveup"]
  /\ UNCHANGED <<registrations, pendingStreams, regPc, ctrlOf, datPc, dataConn, ready, done,
                 pipeUp, pipeDown, hostVars, clientVars, streamVars>>

\* Mutant of ConnectTimeout: ready.wait() without a timeout.
ConnectNeverTimesOut(d) == FALSE

\* ready.wait(timeout=15) returns False.
ConnectTimeout(d) ==
  /\ conPc[d] = "wait"
  /\ ~ready[d]
  /\ conPc' = [conPc EXCEPT ![d] = "giveup"]
  /\ UNCHANGED <<registrations, pendingStreams, regPc, ctrlOf, datPc, dataConn, ready, done,
                 pipeUp, pipeDown, hostVars, clientVars, streamVars>>

\* Mutant of ConnectGiveUp: the pairing stays behind.
ConnectGiveUpLeaks(d) ==
  /\ conPc[d] = "giveup"
  /\ conPc' = [conPc EXCEPT ![d] = "closed"]
  /\ RelayClosesCon(d)
  /\ UNCHANGED <<registrations, pendingStreams, regPc, ctrlOf, datPc, dataConn, ready, done,
                 pipeUp, pipeDown, hostVars, clientVars, r2h, h2r>>

\* Take the pairing back under the lock and return.
ConnectGiveUp(d) ==
  /\ conPc[d] = "giveup"
  /\ pendingStreams' = pendingStreams \ {d}
  /\ conPc' = [conPc EXCEPT ![d] = "closed"]
  /\ RelayClosesCon(d)
  /\ UNCHANGED <<registrations, regPc, ctrlOf, datPc, dataConn, ready, done,
                 pipeUp, pipeDown, hostVars, clientVars, r2h, h2r>>

\* ready.wait returns True: one pipe runs in this thread, one in its own.
ConnectPair(d) ==
  /\ conPc[d] = "wait"
  /\ ready[d]
  /\ conPc' = [conPc EXCEPT ![d] = "pipe"]
  /\ pipeUp' = [pipeUp EXCEPT ![d] = "run"]
  /\ pipeDown' = [pipeDown EXCEPT ![d] = "run"]
  /\ UNCHANGED <<registrations, pendingStreams, regPc, ctrlOf, datPc, dataConn, ready, done,
                 hostVars, clientVars, streamVars>>

\* Mutant of ConnectFinish: done is never set.
ConnectFinishSilently(d) ==
  /\ conPc[d] = "pipe"
  /\ pipeUp[d] = "ended"
  /\ pipeDown[d] = "ended"
  /\ conPc' = [conPc EXCEPT ![d] = "closed"]
  /\ RelayClosesCon(d)
  /\ UNCHANGED <<registrations, pendingStreams, regPc, ctrlOf, datPc, dataConn, ready, done,
                 pipeUp, pipeDown, hostVars, clientVars, r2h, h2r>>

\* Both pipes have ended (t.join): release the DATA handler and return.
ConnectFinish(d) ==
  /\ conPc[d] = "pipe"
  /\ pipeUp[d] = "ended"
  /\ pipeDown[d] = "ended"
  /\ done' = [done EXCEPT ![d] = TRUE]
  /\ conPc' = [conPc EXCEPT ![d] = "closed"]
  /\ RelayClosesCon(d)
  /\ UNCHANGED <<registrations, pendingStreams, regPc, ctrlOf, datPc, dataConn, ready,
                 pipeUp, pipeDown, hostVars, clientVars, r2h, h2r>>

(***************************************************************************)
(* The relay's handler of a dial-back.                                     *)
(***************************************************************************)

\* Redeem the stream id under the lock; an unknown one closes the socket.
DataPop(d) ==
  /\ datPc[d] = "hello"
  /\ pendingStreams' = pendingStreams \ {d}
  /\ IF d \in pendingStreams
     THEN /\ datPc' = [datPc EXCEPT ![d] = "popped"]
          /\ UNCHANGED <<r2h, h2r>>
     ELSE /\ datPc' = [datPc EXCEPT ![d] = "closed"]
          /\ RelayClosesData(d)
  /\ UNCHANGED <<registrations, regPc, conPc, ctrlOf, dataConn, ready, done,
                 pipeUp, pipeDown, hostVars, clientVars, c2r, r2c>>

\* pairing.data_conn = conn
DataAssign(d) ==
  /\ datPc[d] = "popped"
  /\ dataConn' = [dataConn EXCEPT ![d] = servedBy[d]]
  /\ datPc' = [datPc EXCEPT ![d] = "assigned"]
  /\ UNCHANGED <<registrations, pendingStreams, regPc, conPc, ctrlOf, ready, done,
                 pipeUp, pipeDown, hostVars, clientVars, streamVars>>

\* Mutant of DataReady: the handler returns once the pipes can start.
DataReadyReturns(d) ==
  /\ datPc[d] = "assigned"
  /\ ready' = [ready EXCEPT ![d] = TRUE]
  /\ datPc' = [datPc EXCEPT ![d] = "closed"]
  /\ RelayClosesData(d)
  /\ UNCHANGED <<registrations, pendingStreams, regPc, conPc, ctrlOf, dataConn, done,
                 pipeUp, pipeDown, hostVars, clientVars, c2r, r2c>>

\* pairing.ready.set(), then pairing.done.wait() without a timeout.
DataReady(d) ==
  /\ datPc[d] = "assigned"
  /\ ready' = [ready EXCEPT ![d] = TRUE]
  /\ datPc' = [datPc EXCEPT ![d] = "waitdone"]
  /\ UNCHANGED <<registrations, pendingStreams, regPc, conPc, ctrlOf, dataConn, done,
                 pipeUp, pipeDown, hostVars, clientVars, streamVars>>

\* done is set: the handler returns and its socket closes.
DataRelease(d) ==
  /\ datPc[d] = "waitdone"
  /\ done[d]
  /\ datPc' = [datPc EXCEPT ![d] = "closed"]
  /\ RelayClosesData(d)
  /\ UNCHANGED <<registrations, pendingStreams, regPc, conPc, ctrlOf, dataConn, ready, done,
                 pipeUp, pipeDown, hostVars, clientVars, c2r, r2c>>

(***************************************************************************)
(* pipe(): forward until EOF or OSError, then shut the far side's writes.  *)
(***************************************************************************)
UpBroken(d) ==
  \/ ~ClientOpen(d) \/ ~RelayConOpen(d)
  \/ Arrives(c2r, d) /\ (~SessionOpen(d) \/ ~RelayDataOpen(d))
DownBroken(d) ==
  \/ ~SessionOpen(d) \/ ~RelayDataOpen(d)
  \/ Arrives(h2r, d) /\ (~ClientOpen(d) \/ ~RelayConOpen(d))

PipeUpForward(d) ==
  /\ pipeUp[d] = "run"
  /\ RelayConOpen(d) /\ RelayDataOpen(d)
  /\ Arrives(c2r, d) /\ Head(c2r[d]) # EOF
  /\ c2r' = Received(c2r, d)
  /\ r2h' = Sent(r2h, d, <<Head(c2r[d])>>, SessionOpen(d))
  /\ UNCHANGED <<relayVars, hostVars, clientVars, h2r, r2c>>

PipeUpEnd(d) ==
  /\ pipeUp[d] = "run"
  /\ UpBroken(d) \/ (Arrives(c2r, d) /\ Head(c2r[d]) = EOF)
  /\ pipeUp' = [pipeUp EXCEPT ![d] = "ended"]
  /\ r2h' = Sent(r2h, d, <<EOF>>, SessionOpen(d) /\ RelayDataOpen(d))
  /\ UNCHANGED <<registrations, pendingStreams, regPc, conPc, ctrlOf, datPc, dataConn, ready,
                 done, pipeDown, hostVars, clientVars, c2r, h2r, r2c>>

PipeDownForward(d) ==
  /\ pipeDown[d] = "run"
  /\ RelayConOpen(d) /\ RelayDataOpen(d)
  /\ Arrives(h2r, d) /\ Head(h2r[d]) # EOF
  /\ h2r' = Received(h2r, d)
  /\ r2c' = Sent(r2c, d, <<Head(h2r[d])>>, ClientOpen(d))
  /\ UNCHANGED <<relayVars, hostVars, clientVars, c2r, r2h>>

PipeDownEnd(d) ==
  /\ pipeDown[d] = "run"
  /\ DownBroken(d) \/ (Arrives(h2r, d) /\ Head(h2r[d]) = EOF)
  /\ pipeDown' = [pipeDown EXCEPT ![d] = "ended"]
  /\ r2c' = Sent(r2c, d, <<EOF>>, ClientOpen(d) /\ RelayConOpen(d))
  /\ UNCHANGED <<registrations, pendingStreams, regPc, conPc, ctrlOf, datPc, dataConn, ready,
                 done, pipeUp, hostVars, clientVars, c2r, r2h, h2r>>

-----------------------------------------------------------------------------
RegisterHandler(h) == Register(h) \/ Unregister(h)
HostLoop(h)        == HostDialBack(h) \/ HostDialBackFails(h) \/ HostControlLost(h)
ConnectHandler(d)  ==
  \/ ConnectLookup(d) \/ ConnectRefuse(d) \/ ConnectPend(d)
  \/ ConnectAnnounce(d) \/ ConnectAnnounceFails(d)
  \/ ConnectTimeout(d) \/ ConnectGiveUp(d) \/ ConnectPair(d) \/ ConnectFinish(d)
DataHandler(d)     == DataPop(d) \/ DataAssign(d) \/ DataReady(d) \/ DataRelease(d)
PipeUp(d)          == PipeUpForward(d) \/ PipeUpEnd(d)
PipeDown(d)        == PipeDownForward(d) \/ PipeDownEnd(d)
Session(d)         == SessionServe(d) \/ SessionEnds(d)
Client(d)          == ClientRequest(d) \/ ClientReply(d) \/ ClientLeave(d)

Next ==
  \/ \E h \in Hosts : RegisterHandler(h) \/ HostLoop(h)
                      \/ HostRegister(h) \/ HostExit(h) \/ CutControl(h)
  \/ \E d \in Downloads : ConnectHandler(d) \/ DataHandler(d) \/ PipeUp(d) \/ PipeDown(d)
                          \/ Session(d) \/ Client(d) \/ ClientConnect(d)

Spec == Init /\ [][Next]_vars

(***************************************************************************)
(* Every thread keeps running, a wait with a timeout ends, and a           *)
(* downloader does not hold its socket forever (request() times out after  *)
(* 10 seconds, download() closes).  Starting, stopping and breaking hosts  *)
(* is the environment's choice and never owed.                             *)
(***************************************************************************)
Fairness ==
  /\ \A h \in Hosts : WF_vars(RegisterHandler(h)) /\ WF_vars(HostLoop(h))
  /\ \A d \in Downloads :
       /\ WF_vars(ConnectHandler(d)) /\ WF_vars(DataHandler(d))
       /\ WF_vars(PipeUp(d)) /\ WF_vars(PipeDown(d))
       /\ WF_vars(SessionServe(d)) /\ WF_vars(ClientLeave(d))

FairSpec == Spec /\ Fairness

(***************************************************************************)
(* Safety.                                                                 *)
(***************************************************************************)

\* While a pipe runs, neither of the two handlers whose sockets it reads and
\* writes has returned: ThreadingMixIn would close the socket under it (the
\* reason for _Pairing's two events).
NoEarlyClose ==
  \A d \in Downloads :
    pipeUp[d] = "run" \/ pipeDown[d] = "run" => conPc[d] = "pipe" /\ datPc[d] = "waitdone"

\* The relay ends a direction of a paired stream only because an endpoint
\* left: a downloader that is still there never reads an EOF the host did
\* not cause, nor a session one the downloader did not.
StreamsEndAtTheirEnds ==
  \A d \in Downloads :
    /\ pipeDown[d] = "ended" /\ ClientOpen(d) => ~SessionOpen(d)
    /\ pipeUp[d] = "ended" /\ SessionOpen(d) => ~ClientOpen(d)

\* Until the CONNECT handler returns, and while both ends are there, the
\* outstanding command or its reply is in exactly one place on the way: none
\* is swallowed with the handshake line, duplicated or reordered.
NothingSwallowed ==
  \A d \in Downloads :
    /\ conPc[d] \notin {"none", "hello", "closed"}
    /\ ClientOpen(d)
    /\ sesPc[d] # "closed"
    => c2r[d] \o r2h[d] \o h2r[d] \o r2c[d] = IF asked[d] = got[d] THEN <<>> ELSE <<asked[d]>>

\* A paired downloader talks to the host whose control connection was looked
\* up for it, over the connection that host dialled, and that host
\* registered the token the downloader asked for.
RightHost ==
  \A d \in Downloads :
    pipeUp[d] # "off" =>
      /\ dataConn[d] # None
      /\ dataConn[d] = ctrlOf[d]
      /\ dataConn[d] = servedBy[d]
      /\ HostToken[dataConn[d]] = WantedToken[d]

\* A stream id is redeemable only while its CONNECT handler will still come
\* back for it, and only once.
PendingOwned ==
  \A d \in pendingStreams :
    /\ conPc[d] \in {"announce", "wait", "giveup"}
    /\ datPc[d] \in {"none", "hello"}

\* What a lookup finds is the connection of a host that registered that
\* token and whose handler still watches it: nothing lingers.
RegistrationIsLive ==
  \A t \in Tokens :
    registrations[t] # None =>
      /\ HostToken[registrations[t]] = t
      /\ regPc[registrations[t]] = "watch"

\* A handler that ends never takes away the registration of another host
\* (the `is conn` test): an entry disappears only with its own connection.
OnlyOwnEntryRemoved ==
  [][\A t \in Tokens :
       registrations[t] # None /\ registrations'[t] = None
         => regPc'[registrations[t]] = "closed"]_vars

(***************************************************************************)
(* Why they hold: the strengthening that is preserved by every step.       *)
(***************************************************************************)

\* How far the CONNECT handler is says what it has looked up and started.
ConnectInv(d) ==
  /\ cliPc[d] = "none" <=> conPc[d] = "none"
  /\ conPc[d] \in {"none", "hello"} => datPc[d] = "none"
  /\ conPc[d] \in {"found", "announce"} => datPc[d] = "none"
  /\ conPc[d] \in {"found", "announce", "wait", "giveup", "pipe"} => ctrlOf[d] # None
  /\ ctrlOf[d] # None => HostToken[ctrlOf[d]] = WantedToken[d] /\ regPc[ctrlOf[d]] # "none"
  /\ conPc[d] \notin {"pipe", "closed"} => pipeUp[d] = "off" /\ pipeDown[d] = "off"
  /\ conPc[d] = "pipe" => pipeUp[d] # "off" /\ pipeDown[d] # "off" /\ ready[d]
  /\ conPc[d] = "closed" => pipeUp[d] # "run" /\ pipeDown[d] # "run"
  /\ done[d] => conPc[d] = "closed"

\* How far the DATA handler is says what it has handed over; it cannot leave
\* with the pairing before the CONNECT handler has set done.
DataInv(d) ==
  /\ datPc[d] # "none" => servedBy[d] # None /\ servedBy[d] = ctrlOf[d]
  /\ datPc[d] \in {"assigned", "waitdone"} => dataConn[d] = servedBy[d]
  /\ ready[d] => datPc[d] = "waitdone" \/ (datPc[d] = "closed" /\ done[d])
  /\ pipeUp[d] # "off" => dataConn[d] # None /\ dataConn[d] = servedBy[d] /\ datPc[d] # "none"

\* A NEWSTREAM line is on its way to one host, once, before any dial-back.
Announced(d, h) ==
  conPc[d] \in {"wait", "giveup", "closed"} /\ datPc[d] = "none" /\ ctrlOf[d] = h
QueueInv(h) ==
  \A i \in 1..Len(ctrlQ[h]) :
    /\ Announced(ctrlQ[h][i], h)
    /\ \A j \in 1..Len(ctrlQ[h]) : i # j => ctrlQ[h][i] # ctrlQ[h][j]

RelayInv ==
  /\ RegistrationIsLive
  /\ PendingOwned
  /\ \A d \in Downloads : ConnectInv(d) /\ DataInv(d)
  /\ \A h \in Hosts : QueueInv(h)

\* The DATA handler and the session it serves are one connection, which the
\* relay does not close before the CONNECT side has.
PairInv(d) ==
  /\ sesPc[d] = "none" <=> datPc[d] = "none"
  /\ pipeUp[d] = "off" <=> pipeDown[d] = "off"
  /\ pipeUp[d] # "off" => ready[d]
  /\ datPc[d] = "closed" => conPc[d] = "closed"
  /\ conPc[d] \in {"announce", "wait", "giveup"} /\ datPc[d] \in {"none", "hello"}
       => d \in pendingStreams

\* The channel q holds the command or reply n if it is `here`, then the end
\* of the stream if it is `over`, and nothing else.
Holds(q, n, here, over) ==
  q = IF here THEN (IF over THEN <<n, EOF>> ELSE <<n>>)
              ELSE (IF over THEN <<EOF>> ELSE <<>>)
Behind(m, q) == <<m>> \o q

Places == {"c2r", "r2h", "h2r", "r2c", "nowhere"}

\* The outstanding command, or the reply to it, is at `at`, and each channel
\* holds what its two ends have done to it and nothing else.
UpFlows(d, at) ==
  LET leaving == cliPc[d] = "closed" /\ conPc[d] # "closed"
      body    == IF conPc[d] = "hello" THEN Tail(c2r[d]) ELSE c2r[d] IN
  /\ conPc[d] = "hello" => c2r[d] = Behind(Hello, Tail(c2r[d]))
  /\ Holds(body, asked[d], at = "c2r", leaving)
  /\ Holds(r2h[d], asked[d], at = "r2h",
           SessionOpen(d) /\ (pipeUp[d] = "ended" \/ datPc[d] = "closed"))
  /\ at = "c2r" => conPc[d] \notin {"none", "closed"}
  /\ at = "r2h" => SessionOpen(d) /\ pipeUp[d] # "off"

DownFlows(d, at) ==
  /\ Holds(h2r[d], asked[d], at = "h2r", sesPc[d] = "closed" /\ datPc[d] # "closed")
  /\ \/ Holds(r2c[d], asked[d], at = "r2c",
              ClientOpen(d) /\ (pipeDown[d] = "ended" \/ conPc[d] = "closed"))
     \/ r2c[d] = <<Err, EOF>> /\ at = "nowhere" /\ ClientOpen(d) /\ conPc[d] = "closed"
  /\ at = "h2r" => datPc[d] # "closed" /\ pipeUp[d] # "off"
  /\ at = "r2c" => ClientOpen(d) /\ pipeUp[d] # "off"

\* While both ends are there, an unanswered command is somewhere on the way.
AskedFlows(d, at) ==
  /\ asked[d] = got[d] => at = "nowhere"
  /\ asked[d] # got[d] /\ ClientOpen(d) /\ sesPc[d] # "closed" /\ conPc[d] # "closed"
       => at # "nowhere"

Flows(d, at) == UpFlows(d, at) /\ DownFlows(d, at) /\ AskedFlows(d, at)

ReplyInv(d) ==
  /\ asked[d] \in {got[d], got[d] + 1}
  /\ cliPc[d] = "none" => asked[d] = got[d]
  /\ \E at \in Places : Flows(d, at)

StreamInv ==
  /\ StreamsEndAtTheirEnds
  /\ \A d \in Downloads : PairInv(d) /\ ReplyInv(d)

(***************************************************************************)
(* Liveness, under FairSpec.                                               *)
(***************************************************************************)

\* No CONNECT handler is stuck: refused, timed out or piped, it returns.
ConnectReturns == \A d \in Downloads : conPc[d] = "hello" ~> conPc[d] = "closed"

\* A DATA handler whose CONNECT handler was still waiting for it returns.
MetDataReturns ==
  \A d \in Downloads :
    (datPc[d] = "waitdone" /\ conPc[d] \in {"wait", "pipe"}) ~> datPc[d] = "closed"

\* A host that is gone ends up not being handed out any more, for ever.
GoneHostForgotten ==
  \A h \in Hosts :
    (regPc[h] = "watch" /\ ControlGone(h)) ~> [](registrations[HostToken[h]] # h)

(***************************************************************************)
(* What the documentation says and the code does not do.                   *)
(***************************************************************************)

\* handle_data: "block here until the CONNECT side has fully finished".
DataReturns == \A d \in Downloads : datPc[d] = "waitdone" ~> datPc[d] = "closed"

\* REGISTER: "whatever the host wants to be found under", over a persistent
\* connection.  While that connection stands, its token can be found.
FoundWhileRegistered ==
  \A h \in Hosts :
    regPc[h] = "watch" /\ ~ControlGone(h) => registrations[HostToken[h]] # None

\* run_host_tunnel: the control connection "stays open for the lifetime of
\* hosting": only its loss ends the loop of a host that is still running.
LoopOutlivesDialBack == \A h \in Hosts : hostPc[h] = "dead" => cut[h]

(***************************************************************************)
(* What the relay promises: Rendezvous.                                    *)
(***************************************************************************)
Abstract ==
  INSTANCE Rendezvous WITH
    line   <- cliPc,
    peer   <- [d \in Downloads |-> IF pipeUp[d] = "off" THEN None ELSE dataConn[d]],
    joined <- {h \in Hosts : regPc[h] # "none"}

\* Handshake, threads, sockets and queues together implement Rendezvous.
ImplementsRendezvous == Abstract!Spec
=============================================================================
