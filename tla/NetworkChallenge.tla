-------------------------- MODULE NetworkChallenge --------------------------
(***************************************************************************)
(* src/poc_network_challenge.py: servers that take one connection at a     *)
(* time (a holder answers by itself, the relay by fetching the chunk from  *)
(* its holder first) and verifiers that wait for their ports, challenge    *)
(* them in turn and report the latencies.  No call but wait_for_port's has *)
(* a timeout.  A nonce is new in every challenge and a server's hash is    *)
(* the right one when it had the chunk, so an answer is only its kind.     *)
(***************************************************************************)
EXTENDS Integers, SequencesExt

CONSTANTS
  Verifiers,
  Holders,    \* run_holder processes
  Relay,      \* the run_relay process
  Upstream,   \* its holder_host:holder_port
  Baseline,   \* b_host:b_port, a holder
  NSamples,   \* N_STATS_SAMPLES
  MaxKills    \* bound on servers terminated from outside

Servers == Holders \cup {Relay}
Callers == Verifiers \cup {Relay}

ASSUME NetworkAssumption ==
  /\ Upstream \in Holders /\ Baseline \in Holders
  /\ Relay \notin Holders /\ Verifiers \cap Servers = {}
  /\ {"idle", "closed"} \cap Callers = {}
  /\ NSamples \in Nat \ {0} /\ MaxKills \in Nat

VARIABLES
  up,       \* server -> "starting", "up", "killed" or "crashed"
  backlog,  \* server -> the callers its kernel has accepted and it has not
  serving,  \* server -> the caller it reads from or answers, or "idle"
  sent,     \* caller -> its request line is in the socket
  answer,   \* caller -> what recv_line will give it
  got,      \* the relay, about its own call: "no", "up" or "data"
  pc,       \* verifier -> where it is in run_remote_stats
  step,     \* verifier -> the next port to wait for, then target to challenge
  samples   \* verifier -> whether each collected time's answer was right

servers == <<up, backlog, serving, got>>
verifiers == <<pc, step, samples>>
vars == <<servers, sent, answer, verifiers>>

\* In a socket's place: a probe of wait_for_port, or a caller that ended.
Closed == "closed"

\* The ports waited for; collect_samples' targets, then the baseline's.
Ports == <<Upstream, Relay, Baseline>>
Targets == [i \in 1..3 * NSamples |->
              IF i > 2 * NSamples THEN Baseline
              ELSE IF i % 2 = 1 THEN Upstream ELSE Relay]

TypeOK ==
  /\ up \in [Servers -> {"starting", "up", "killed", "crashed"}]
  /\ backlog \in [Servers -> Seq(Callers \cup {Closed})]
  /\ serving \in [Servers -> Callers \cup {Closed, "idle"}]
  /\ sent \in [Callers -> BOOLEAN]
  /\ answer \in [Callers -> {"none", "hash", "data", "eof", "reset"}]
  /\ got \in {"no", "up", "data"}
  /\ pc \in [Verifiers -> {"wait", "ready", "connected", "asked",
                           "gave up", "crashed", "reported"}]
  /\ step \in [Verifiers -> 1..3 * NSamples + 1]
  /\ samples \in [Verifiers -> Seq(BOOLEAN)]

Init ==
  /\ up = [s \in Servers |-> "starting"]
  /\ backlog = [s \in Servers |-> <<>>]
  /\ serving = [s \in Servers |-> "idle"]
  /\ sent = [c \in Callers |-> FALSE]
  /\ answer = [c \in Callers |-> "none"]
  /\ got = "no"
  /\ pc = [v \in Verifiers |-> "wait"]
  /\ step = [v \in Verifiers |-> 1]
  /\ samples = [v \in Verifiers |-> <<>>]

-----------------------------------------------------------------------------
(* Servers *)

\* Callers that a server's end cuts off: the served one may see the end of
\* the stream, those still in the backlog are reset.
CutOff(s) == Range(backlog[s]) \cup {serving[s]}
HangupServed(s, last) ==  \* mutant: the backlog hears nothing
  answer' = [c \in Callers |-> IF c = serving[s] THEN last ELSE answer[c]]
Hangup(s, last) ==
  answer' = [c \in Callers |-> IF c \notin CutOff(s) THEN answer[c]
                               ELSE IF c = serving[s] THEN last ELSE "reset"]

\* Server s ends: its sockets close, a call the relay has out included.
End(s, how, last) ==
  LET rest(c) == IF s = Relay /\ c = Relay /\ ~sent[Relay] THEN Closed ELSE c IN
  /\ up' = [up EXCEPT ![s] = how]
  /\ backlog' = [t \in Servers |-> IF t = s THEN <<>>
                   ELSE [i \in DOMAIN backlog[t] |-> rest(backlog[t][i])]]
  /\ serving' = [t \in Servers |-> IF t = s THEN "idle" ELSE rest(serving[t])]
  /\ got' = IF s = Relay THEN "no" ELSE got
  /\ Hangup(s, last)
  /\ UNCHANGED <<sent, verifiers>>

Listen(s) ==
  /\ up[s] = "starting"
  /\ up' = [up EXCEPT ![s] = "up"]
  /\ UNCHANGED <<backlog, serving, got, sent, answer, verifiers>>

\* The process or its container is stopped, the caller's line read or not.
Kill(s) ==
  /\ up[s] = "up"
  /\ Cardinality({t \in Servers : up[t] = "killed"}) < MaxKills
  /\ \E last \in {"eof", "reset"} : End(s, "killed", last)

Accept(s) ==
  /\ up[s] = "up" /\ serving[s] = "idle" /\ backlog[s] # <<>>
  /\ serving' = [serving EXCEPT ![s] = Head(backlog[s])]
  /\ backlog' = [backlog EXCEPT ![s] = Tail(@)]
  /\ UNCHANGED <<up, got, sent, answer, verifiers>>

\* Mutant: recv_line without its break never returns.
EmptyLineSpins(s) == up[s] = "up" /\ serving[s] = Closed /\ UNCHANGED vars

\* recv_line came back empty: the connection is closed unanswered.
EmptyLine(s) ==
  /\ up[s] = "up" /\ serving[s] = Closed
  /\ serving' = [serving EXCEPT ![s] = "idle"]
  /\ UNCHANGED <<up, backlog, got, sent, answer, verifiers>>

\* A holder reads a line and answers it, a CHALLENGE or the relay's FETCH.
HolderAnswer(s) ==
  LET c == serving[s] IN
  /\ s \in Holders /\ up[s] = "up" /\ c \in Callers /\ sent[c]
  /\ serving' = [serving EXCEPT ![s] = "idle"]
  /\ answer' = [answer EXCEPT ![c] = IF c = Relay THEN "data" ELSE "hash"]
  /\ UNCHANGED <<up, backlog, got, sent, verifiers>>

-----------------------------------------------------------------------------
(* The relay, once it has read a CHALLENGE: a call of its own in between *)

Challenged == up[Relay] = "up" /\ serving[Relay] \in Verifiers /\ sent[serving[Relay]]

\* An exception leaves run_relay and closes the challenger's connection.
RelayCrash == End(Relay, "crashed", "eof")

Enqueue(c, s) ==
  /\ backlog' = [backlog EXCEPT ![s] = Append(@, c)]
  /\ answer' = [answer EXCEPT ![c] = "none"]
  /\ sent' = [sent EXCEPT ![c] = FALSE]

RelayConnect ==
  /\ Challenged /\ got = "no"
  /\ \/ /\ up[Upstream] = "up"
        /\ got' = "up"
        /\ Enqueue(Relay, Upstream)
        /\ UNCHANGED <<up, serving, verifiers>>
     \/ up[Upstream] # "up" /\ RelayCrash

RelaySend ==
  /\ Challenged /\ got = "up" /\ ~sent[Relay]
  /\ sent' = [sent EXCEPT ![Relay] = TRUE]
  /\ UNCHANGED <<servers, answer, verifiers>>

\* An empty answer has no [1] to take, a reset raises in recv.
RelayReceive ==
  /\ Challenged /\ got = "up" /\ sent[Relay]
  /\ \/ /\ answer[Relay] = "data"
        /\ got' = "data"
        /\ UNCHANGED <<up, backlog, serving, sent, answer, verifiers>>
     \/ answer[Relay] \in {"eof", "reset"} /\ RelayCrash

RelayAnswer ==
  /\ Challenged /\ got = "data"
  /\ answer' = [answer EXCEPT ![serving[Relay]] = "hash"]
  /\ serving' = [serving EXCEPT ![Relay] = "idle"]
  /\ got' = "no"
  /\ UNCHANGED <<up, backlog, sent, verifiers>>

-----------------------------------------------------------------------------
(* A verifier *)

At(v, where) == pc[v] = where
Go(v, where) == pc' = [pc EXCEPT ![v] = where]

\* wait_for_port: connected, and closed at once.
Probe(v) ==
  /\ At(v, "wait") /\ step[v] <= Len(Ports) /\ up[Ports[step[v]]] = "up"
  /\ backlog' = [backlog EXCEPT ![Ports[step[v]]] = Append(@, Closed)]
  /\ step' = [step EXCEPT ![v] = @ + 1]
  /\ UNCHANGED <<up, serving, got, sent, answer, pc, samples>>

\* wait_for_port: the deadline.
GiveUp(v) ==
  /\ At(v, "wait") /\ step[v] <= Len(Ports) /\ up[Ports[step[v]]] # "up"
  /\ Go(v, "gave up")
  /\ UNCHANGED <<servers, sent, answer, step, samples>>

AllUp(v) ==
  /\ At(v, "wait") /\ step[v] > Len(Ports)
  /\ Go(v, "ready") /\ step' = [step EXCEPT ![v] = 1]
  /\ UNCHANGED <<servers, sent, answer, samples>>

\* challenge: an exception of connect ends the verifier.
Connect(v) ==
  /\ At(v, "ready") /\ step[v] <= Len(Targets)
  /\ LET s == Targets[step[v]] IN
       \/ up[s] = "up" /\ Enqueue(v, s) /\ Go(v, "connected")
       \/ up[s] # "up" /\ Go(v, "crashed") /\ UNCHANGED <<backlog, sent, answer>>
  /\ UNCHANGED <<up, serving, got, step, samples>>

Send(v) ==
  /\ At(v, "connected")
  /\ sent' = [sent EXCEPT ![v] = TRUE]
  /\ Go(v, "asked")
  /\ UNCHANGED <<servers, answer, step, samples>>

\* challenge returns (elapsed, ok) and collect_samples keeps the elapsed.
Receive(v) ==
  /\ At(v, "asked") /\ answer[v] # "none"
  /\ \/ /\ answer[v] = "reset"
        /\ Go(v, "crashed") /\ UNCHANGED <<step, samples>>
     \/ /\ answer[v] # "reset"
        /\ samples' = [samples EXCEPT ![v] = Append(@, answer[v] = "hash")]
        /\ step' = [step EXCEPT ![v] = @ + 1]
        /\ Go(v, "ready")
  /\ UNCHANGED <<servers, sent, answer>>

Report(v) ==
  /\ At(v, "ready") /\ step[v] > Len(Targets)
  /\ Go(v, "reported")
  /\ UNCHANGED <<servers, sent, answer, step, samples>>

-----------------------------------------------------------------------------
ServerStep(s) == Listen(s) \/ Accept(s) \/ EmptyLine(s) \/ HolderAnswer(s)
RelayStep == RelayConnect \/ RelaySend \/ RelayReceive \/ RelayAnswer
VerifierStep(v) ==
  Probe(v) \/ GiveUp(v) \/ AllUp(v) \/ Connect(v) \/ Send(v) \/ Receive(v) \/ Report(v)

Next ==
  \/ \E s \in Servers : ServerStep(s) \/ Kill(s)
  \/ RelayStep
  \/ \E v \in Verifiers : VerifierStep(v)

Spec == Init /\ [][Next]_vars

\* Processes that are scheduled; nothing makes anybody kill a server.
FairSpec ==
  /\ Spec
  /\ \A s \in Servers : WF_vars(ServerStep(s))
  /\ WF_vars(RelayStep)
  /\ \A v \in Verifiers : WF_vars(VerifierStep(v))

-----------------------------------------------------------------------------
(* Properties *)

Places(c) == {s \in Servers : c \in CutOff(s)}
Waits(v) == pc[v] \in {"connected", "asked"} /\ answer[v] = "none"

\* No call is lost and none is answered twice: a verifier that waits for an
\* answer is in the queue or the hands of the running server it called and of
\* no other, one that does not wait is nowhere, and so for the relay's call.
WaitingIsQueued ==
  /\ \A v \in Verifiers :
       Places(v) = IF Waits(v) THEN {s \in Servers : s = Targets[step[v]] /\ up[s] = "up"}
                   ELSE {}
  /\ \A v \in Verifiers : Waits(v) => Places(v) # {}
  /\ got = "up" /\ answer[Relay] = "none" => Places(Relay) = {Upstream}

\* Servers without timeouts that answer one connection at a time, one of them
\* by calling another: a verifier's run still ends, with a report or without.
EveryRunEnds ==
  \A v \in Verifiers : <>(pc[v] \in {"gave up", "crashed", "reported"})

\* src/poc_network_challenge.py:92-115 and 11-13: every time the relay's
\* figures rest on is that of two chained exchanges, that is of an answer.
ReportRestsOnAnswers ==
  \A v \in Verifiers : pc[v] = "reported" => FALSE \notin Range(samples[v])

-----------------------------------------------------------------------------
(* The strengthening that the proofs use *)

\* Who does not run has no connections, and a caller has one at most.
QueueInv(s) ==
  /\ up[s] # "up" => backlog[s] = <<>> /\ serving[s] = "idle"
  /\ serving[s] \in Callers => serving[s] \notin Range(backlog[s])
  /\ \A i, k \in DOMAIN backlog[s] :
       backlog[s][i] = backlog[s][k] /\ backlog[s][i] \in Callers => i = k
CallInv(v) ==
  /\ pc[v] \in {"connected", "asked"} => step[v] \in DOMAIN Targets
  /\ Places(v) = IF Waits(v) THEN {Targets[step[v]]} ELSE {}
\* A relay that has ended may have left a request behind.
RelayInv ==
  /\ up[Relay] # "up" => got = "no"
  /\ Places(Relay) \subseteq {Upstream}
  /\ up[Relay] \in {"starting", "up"} =>
       (Upstream \in Places(Relay) <=> got = "up" /\ answer[Relay] = "none")

NetworkInv ==
  TypeOK /\ RelayInv /\ (\A s \in Servers : QueueInv(s)) /\ \A v \in Verifiers : CallInv(v)
=============================================================================
