--------------------------- MODULE WebClientProofs ---------------------------
(***************************************************************************)
(* Theorems about the page and its server: any jobs, hosts and streams,    *)
(* any content, any number of requests under way.                          *)
(***************************************************************************)
EXTENDS WebClient, TLAPS

USE ServerAssumption

(***************************************************************************)
(* The server's steps.                                                     *)
(***************************************************************************)

\* What a step of a job's thread leaves to the rest: the statuses that are
\* final stay, and only the job's own file changes.
JobMoves(j) ==
  /\ \A k \in Jobs : status[k] \in Ended => status'[k] = status[k]
  /\ UNCHANGED <<host, stream, restarted>>

LEMMA PostKeeps ==
  ASSUME ServerTypeOK, ServerInv, NEW j \in Jobs, Post(j)
  PROVE  ServerTypeOK' /\ ServerInv' /\ JobMoves(j)
<1>1. ServerTypeOK'
  BY DEF ServerTypeOK, Post, Ended, UnderWay
<1>2. ServerInv'
  BY DEF ServerTypeOK, ServerInv, Post, Ended, UnderWay
<1>3. JobMoves(j)
  BY DEF ServerTypeOK, Post, Ended, JobMoves
<1> QED BY <1>1, <1>2, <1>3

LEMMA JobStepKeeps ==
  ASSUME ServerTypeOK, ServerInv, NEW j \in Jobs, JobStep(j)
  PROVE  ServerTypeOK' /\ ServerInv' /\ JobMoves(j)
<1>1. CASE Open(j)
  <2>1. ServerTypeOK'
    BY <1>1 DEF ServerTypeOK, Open, Blank, UnderWay
  <2>2. ServerInv' /\ JobMoves(j)
    BY <1>1 DEF ServerTypeOK, ServerInv, JobMoves, Open, Blank, Ended, UnderWay
  <2> QED BY <2>1, <2>2
<1>2. CASE Write(j)
  <2>1. idx[j] \in 0..N /\ idx[j] < N /\ file[j] \in Blank..N /\ status[j] = "running"
    BY <1>2 DEF ServerTypeOK, ServerInv, Write, UnderWay
  <2>2. ServerTypeOK'
    <3>1. pc' \in [Jobs -> {"none", "over"} \cup UnderWay]
      BY <1>2 DEF ServerTypeOK, Write, UnderWay
    <3>2. idx' \in [Jobs -> 0..N]
      BY <1>2, <2>1 DEF ServerTypeOK, Write
    <3>3. file' \in [Jobs -> Blank..N]
      BY <1>2, <2>1 DEF ServerTypeOK, Write, Blank
    <3> QED BY <1>2, <3>1, <3>2, <3>3 DEF ServerTypeOK, Write
  <2>3. ServerInv'
    <3> SUFFICES ASSUME NEW k \in Jobs
        PROVE  /\ pc'[k] \in UnderWay => status'[k] = "running"
               /\ status'[k] = "none" => idx'[k] = 0
               /\ pc'[k] \in {"auction", "write"} => idx'[k] < N
               /\ pc'[k] = "record" \/ status'[k] = "done" => file'[k] = N \/ k \in shared'
      BY DEF ServerInv
    <3>1. CASE k # j
      BY <1>2, <3>1 DEF ServerTypeOK, ServerInv, Write
    <3>2. CASE k = j
      BY <1>2, <2>1, <3>2 DEF ServerTypeOK, Write, UnderWay
    <3> QED BY <3>1, <3>2
  <2> QED BY <1>2, <2>2, <2>3 DEF JobMoves, Write
<1>3. ASSUME NEW claimed \in {N, N + 1}, Check(j, claimed)
      PROVE  ServerTypeOK' /\ ServerInv' /\ JobMoves(j)
  <2>1. status[j] = "running" /\ file[j] \in Blank..N
    BY <1>3 DEF ServerTypeOK, ServerInv, Check, UnderWay
  <2>2. file[j] = claimed => file[j] = N
    BY <2>1 DEF Blank
  <2>3. ServerTypeOK'
    BY <1>3 DEF ServerTypeOK, Check, Ends, Ended, Blank, UnderWay
  <2>4. ServerInv'
    BY <1>3, <2>1, <2>2 DEF ServerTypeOK, ServerInv, Check, Ends, UnderWay
  <2>5. JobMoves(j)
    BY <1>3, <2>1 DEF ServerTypeOK, Check, Ends, Ended, JobMoves
  <2> QED BY <2>3, <2>4, <2>5
<1>4. CASE Fails(j)
  <2>1. status[j] = "running"
    BY <1>4 DEF ServerInv, Fails
  <2> QED BY <1>4, <2>1 DEF ServerTypeOK, ServerInv, JobMoves, Fails, Ends, Caught, Ended, UnderWay
<1>5. CASE Record(j)
  <2>1. status[j] = "running" /\ (file[j] = N \/ j \in shared)
    BY <1>5 DEF ServerInv, Record, UnderWay
  <2> QED BY <1>5, <2>1 DEF ServerTypeOK, ServerInv, JobMoves, Record, Ends, Ended, UnderWay
<1> QED BY <1>1, <1>2, <1>3, <1>4, <1>5 DEF JobStep

LEMMA OtherJobKeeps ==
  ASSUME ServerTypeOK, ServerInv, NEW j \in Jobs, OtherJob(j)
  PROVE  ServerTypeOK' /\ ServerInv' /\ JobMoves(j) /\ shared \subseteq shared'
<1>1. ServerTypeOK'
  BY DEF ServerTypeOK, OtherJob, Blank
<1>2. ServerInv'
  BY DEF ServerTypeOK, ServerInv, OtherJob
<1> QED BY <1>1, <1>2 DEF OtherJob, JobMoves

LEMMA HostKeeps ==
  ASSUME ServerTypeOK, ServerInv, NEW h \in Hosts, PostHost(h) \/ HostJob(h)
  PROVE  /\ ServerTypeOK' /\ ServerInv'
         /\ UNCHANGED <<pc, status, idx, file, stream, restarted, shared>>
<1>1. UNCHANGED <<pc, status, idx, file, stream, restarted, shared>>
  BY DEF PostHost, HostJob
<1>2. host' \in [Hosts -> HostStatus]
  BY DEF ServerTypeOK, PostHost, HostJob, HostStatus
<1> QED BY <1>1, <1>2 DEF ServerTypeOK, ServerInv

(***************************************************************************)
(* Streams.                                                                *)
(***************************************************************************)

\* PlayedIsAsked and PageInv of one stream in state st.
Fine(s, st) ==
  /\ st.at \notin {"new", "refused"} => status[JobOf[s]] = "done"
  /\ st.at # "new" /\ JobOf[s] \notin shared =>
       /\ st.at # "short"
       /\ st.at # "refused" => st.first <= st.last /\ st.last < N
       /\ st.range = Whole \/ st.range.from # Blank =>
            IF st.at = "refused" THEN Asked(st.range) = {} \/ restarted
            ELSE st.first..st.last = Asked(st.range)
StreamState ==
  [at : {"new", "refused", "promised", "sending", "sent", "short", "gone"},
   range : Asks \cup {Whole}, first : 0..N, last : -1..N, pos : 0..N+1]

\* The blocks from the first to the last that the handler computes are those
\* the range asks for, when the file is whole and the range has a start or is
\* the whole.
LEMMA RangeIsAsked ==
  ASSUME NEW r \in Asks, r = Whole \/ r.from # Blank
  PROVE  /\ First(r) \in Nat /\ Last(r, N) \in -1..N-1
         /\ First(r) > Last(r, N) \/ First(r) >= N => Asked(r) = {}
         /\ ~(First(r) > Last(r, N) \/ First(r) >= N) =>
              First(r)..Last(r, N) = Asked(r)
<1>1. /\ r.from \in {Blank} \cup Nat /\ r.to \in {Blank} \cup Nat
      /\ r.from = Blank => r.to = Blank
  BY DEF Ranges, Whole
<1>2. First(r) \in Nat /\ Last(r, N) \in -1..N-1
  BY <1>1 DEF First, Last, Blank
<1>3. \A i \in Int : i \in Asked(r) <=> i \in 0..N-1 /\ i >= First(r) /\ i <= Last(r, N)
  BY <1>1, <1>2 DEF First, Last, Blank, Asked
<1>4. Asked(r) \subseteq Int
  BY DEF Asked
<1>5. First(r) > Last(r, N) \/ First(r) >= N => Asked(r) = {}
  BY <1>2, <1>3, <1>4
<1>6. ASSUME ~(First(r) > Last(r, N) \/ First(r) >= N)
      PROVE  First(r)..Last(r, N) = Asked(r)
  <2>1. \A i \in Int : i \in First(r)..Last(r, N) <=> i \in Asked(r)
    BY <1>2, <1>3
  <2>2. First(r)..Last(r, N) \subseteq Int
    BY <1>2
  <2> QED BY <1>4, <2>1, <2>2, Zenon
<1> QED BY <1>2, <1>5, <1>6

\* A stream that takes a fine step leaves the rest fine.
LEMMA StreamKeeps ==
  ASSUME ServerTypeOK, WebInv, NEW s \in Streams, NEW next \in StreamState,
         Streaming(s, next), Fine(s, next), UNCHANGED page
  PROVE  ServerTypeOK' /\ WebInv'
<1>1. stream' = [stream EXCEPT ![s] = next] /\ stream \in [Streams -> StreamState]
  BY DEF Streaming, ServerTypeOK, StreamState
<1>2. UNCHANGED <<pc, status, idx, file, host, restarted, shared>>
  BY DEF Streaming
<1>3. ServerTypeOK' /\ ServerInv'
  BY <1>1, <1>2 DEF ServerTypeOK, WebInv, ServerInv, StreamState
<1>4. \A t \in Streams : Fine(t, stream[t])
  BY DEF WebInv, PageInv, PlayedIsAsked, Fine
<1>5. \A t \in Streams : Fine(t, stream'[t])
  BY <1>1, <1>4
<1>6. PageInv' /\ PlayedIsAsked'
  BY <1>2, <1>5 DEF WebInv, PageInv, PlayedIsAsked, Fine, page
<1> QED BY <1>3, <1>6 DEF WebInv

\* Playing a row: it says done, so the file is whole or shared.
LEMMA PlayKeeps ==
  ASSUME TypeOK, WebInv, NEW s \in Streams, Play(s)
  PROVE  ServerTypeOK' /\ WebInv'
<1> DEFINE j == JobOf[s]
<1>1. PICK r \in Asks : Head(s, r)
  BY DEF Play
<1>2. j \in Jobs /\ row[j] = "done" /\ UNCHANGED page
  BY DEF Play
<1>3. status[j] = "done" /\ (file[j] = N \/ j \in shared)
  BY <1>2 DEF WebInv, PageInv, ServerInv, Ended
<1>4. /\ ServerTypeOK /\ stream[s] \in StreamState /\ file[j] \in -1..N
  BY <1>2 DEF TypeOK, ServerTypeOK, StreamState, Blank
<1>5. r.from \in {Blank} \cup Nat /\ r.to \in {Blank} \cup Nat
  BY DEF Ranges
<1>6. /\ First(r) \in Nat
      /\ First(r) <= Last(r, file[j]) /\ file[j] # Blank => Last(r, file[j]) \in 0..N-1
  BY <1>4, <1>5 DEF First, Last, Blank
<1>7. CASE restarted \/ status[j] # "done" \/ file[j] = Blank
           \/ First(r) > Last(r, file[j]) \/ First(r) >= file[j]
  <2> DEFINE next == [stream[s] EXCEPT !.at = "refused", !.range = r]
  <2>1. Streaming(s, next)
    BY <1>1, <1>7 DEF Head
  <2>2. next \in StreamState
    BY <1>4 DEF StreamState
  <2>3. next.at = "refused" /\ next.range = r
    BY <1>4 DEF StreamState
  <2>4. ASSUME j \notin shared, r = Whole \/ r.from # Blank
        PROVE  Asked(r) = {} \/ restarted
    BY <1>3, <1>7, <2>4, RangeIsAsked DEF Blank
  <2>5. Fine(s, next)
    BY <2>3, <2>4 DEF Fine
  <2> HIDE DEF next
  <2> QED BY <1>2, <1>4, <2>1, <2>2, <2>5, StreamKeeps
<1>8. CASE ~(restarted \/ status[j] # "done" \/ file[j] = Blank
           \/ First(r) > Last(r, file[j]) \/ First(r) >= file[j])
  <2> DEFINE next == [at |-> "promised", range |-> r, first |-> First(r),
                      last |-> Last(r, file[j]), pos |-> First(r)]
  <2>1. Streaming(s, next)
    BY <1>1, <1>8 DEF Head
  <2>2. First(r) \in 0..N /\ Last(r, file[j]) \in -1..N /\ First(r) \in 0..N+1
    <3>1. First(r) <= Last(r, file[j]) /\ Last(r, file[j]) \in 0..N-1
      <4>1. file[j] \in 0..N /\ Last(r, file[j]) \in Int
        BY <1>4, <1>5, <1>8 DEF Last, Blank
      <4>2. First(r) <= Last(r, file[j])
        BY <1>6, <1>8, <4>1
      <4> QED BY <1>6, <1>8, <4>2
    <3> QED BY <1>6, <3>1
  <2>3. next \in StreamState
    BY <2>2 DEF StreamState
  <2>4. ASSUME j \notin shared, r = Whole \/ r.from # Blank
        PROVE  First(r)..Last(r, file[j]) = Asked(r)
    BY <1>3, <1>8, <2>4, RangeIsAsked
  <2>5. First(r) <= Last(r, file[j]) /\ (j \notin shared => Last(r, file[j]) < N)
    <3>1. file[j] \in 0..N /\ Last(r, file[j]) \in Int
      BY <1>4, <1>5, <1>8 DEF Last, Blank
    <3>2. First(r) <= Last(r, file[j])
      BY <1>6, <1>8, <3>1
    <3>3. Last(r, file[j]) \in 0..N-1
      BY <1>6, <1>8, <3>2
    <3> QED BY <3>2, <3>3
  <2>6. Fine(s, next)
    BY <1>3, <2>4, <2>5 DEF Fine
  <2> HIDE DEF next
  <2> QED BY <1>2, <1>4, <2>1, <2>3, <2>6, StreamKeeps
<1> QED BY <1>7, <1>8

\* A block, and the end of the blocks promised; a stream that runs short has
\* a file that another job emptied.
LEMMA SendKeeps ==
  ASSUME TypeOK, WebInv, NEW s \in Streams, SendBlock(s) \/ Leave(s), UNCHANGED page
  PROVE  ServerTypeOK' /\ WebInv'
<1> DEFINE st == stream[s]
           j == JobOf[s]
<1>1. /\ ServerTypeOK /\ st \in StreamState /\ j \in Jobs
  BY DEF TypeOK, ServerTypeOK, StreamState
<1>2. /\ st.first \in 0..N /\ st.last \in -1..N /\ st.pos \in 0..N+1
      /\ st.range \in Asks \cup {Whole}
  BY <1>1 DEF StreamState
<1>3. st.at \in {"promised", "sending"} /\ Fine(s, st)
  BY DEF SendBlock, Leave, WebInv, PageInv, PlayedIsAsked, Fine
<1>4. status[j] = "done" /\ (file[j] = N \/ j \in shared)
  BY <1>1, <1>3 DEF Fine, WebInv, ServerInv
<1>5. ASSUME NEW at \in {"sending", "sent", "gone"}, Streaming(s, [st EXCEPT !.at = at])
      PROVE  ServerTypeOK' /\ WebInv'
  <2>1. [st EXCEPT !.at = at] \in StreamState
    BY <1>1 DEF StreamState
  <2>2. Fine(s, [st EXCEPT !.at = at])
    BY <1>1, <1>3, <1>4 DEF Fine, StreamState
  <2> QED BY <1>1, <1>5, <2>1, <2>2, StreamKeeps
<1>6. ASSUME st.at = "sending", st.pos <= st.last, Streaming(s, [st EXCEPT !.pos = @ + 1])
      PROVE  ServerTypeOK' /\ WebInv'
  <2>1. [st EXCEPT !.pos = @ + 1] \in StreamState
    <3>1. st.pos + 1 \in 0..N+1
      BY <1>2, <1>6
    <3> QED BY <1>1, <3>1 DEF StreamState
  <2>2. Fine(s, [st EXCEPT !.pos = @ + 1])
    BY <1>1, <1>3, <1>4 DEF Fine, StreamState
  <2> QED BY <1>1, <1>6, <2>1, <2>2, StreamKeeps
<1>7. ASSUME st.at = "sending", st.pos <= st.last, st.pos >= file[j],
             Streaming(s, [st EXCEPT !.at = "short"])
      PROVE  ServerTypeOK' /\ WebInv'
  <2>1. [st EXCEPT !.at = "short"] \in StreamState
    BY <1>1 DEF StreamState
  <2>2. ASSUME j \notin shared  PROVE FALSE
    <3>1. file[j] = N /\ st.last < N
      BY <1>3, <1>4, <1>7, <2>2 DEF Fine
    <3> QED BY <1>2, <1>7, <3>1
  <2>3. Fine(s, [st EXCEPT !.at = "short"])
    BY <1>1, <1>4, <2>2 DEF Fine, StreamState
  <2> QED BY <1>1, <1>7, <2>1, <2>3, StreamKeeps
<1>8. CASE Leave(s)
  BY <1>5, <1>8 DEF Leave
<1>9. CASE SendBlock(s)
  <2>1. CASE st.at = "promised" /\ Streaming(s, [st EXCEPT !.at = "sending"])
    BY <1>5, <2>1
  <2>2. CASE st.at = "sending" /\ st.pos > st.last /\ Streaming(s, [st EXCEPT !.at = "sent"])
    BY <1>5, <2>2
  <2>3. CASE /\ st.at = "sending" /\ ~(st.pos > st.last) /\ st.pos >= file[j]
             /\ Streaming(s, [st EXCEPT !.at = "short"])
    BY <1>2, <1>7, <2>3
  <2>4. CASE /\ st.at = "sending" /\ ~(st.pos > st.last)
             /\ Streaming(s, [st EXCEPT !.pos = @ + 1])
    BY <1>2, <1>6, <2>4
  <2> QED BY <1>9, <2>1, <2>2, <2>3, <2>4 DEF SendBlock
<1> QED BY <1>8, <1>9

(***************************************************************************)
(* The page.                                                               *)
(***************************************************************************)

PageTypeOK ==
  /\ posted \subseteq Jobs \cup Hosts
  /\ row \in [Jobs -> {"none", "running"} \cup Ended]
  /\ timer \in [Jobs -> BOOLEAN]
  /\ poll \in [Jobs -> [Slots -> {Free, Sent} \cup Answers]]
  /\ table \in [Hosts -> HostStatus]
  /\ refresh \in [Slots -> {FreeTable} \cup [Hosts -> HostStatus]]

\* What the page knows of jobs stays true when final statuses stay, and so does
\* what is known of streams nobody touches.
LEMMA PageKeeps ==
  ASSUME TypeOK, WebInv, ServerTypeOK', ServerInv',
         \A k \in Jobs : status[k] \in Ended => status'[k] = status[k],
         \A k \in Jobs : row'[k] \in Ended => row'[k] = status[k],
         \A k \in Jobs, s \in Slots :
           poll'[k][s].status \in Ended => poll'[k][s].status = status[k],
         UNCHANGED <<stream, restarted>>, shared \subseteq shared'
  PROVE  WebInv'
<1>1. \A k \in Jobs : row'[k] \in Ended => row'[k] = status'[k]
  OBVIOUS
<1>2. \A k \in Jobs, s \in Slots :
        poll'[k][s].status \in Ended => poll'[k][s].status = status'[k]
  OBVIOUS
<1>3. \A s \in Streams : stream'[s].at \notin {"new", "refused"} => status'[JobOf[s]] = "done"
  BY DEF WebInv, PageInv, Ended
<1>4. PageInv'
  BY <1>1, <1>2, <1>3 DEF PageInv
<1>5. PlayedIsAsked'
  BY DEF WebInv, PlayedIsAsked
<1> QED BY <1>4, <1>5 DEF WebInv

LEMMA SubmitKeeps ==
  ASSUME TypeOK, WebInv, NEW j \in Jobs, SubmitDownload(j)
  PROVE  TypeOK' /\ WebInv'
<1>1. ServerTypeOK' /\ ServerInv' /\ JobMoves(j) /\ UNCHANGED shared
  BY PostKeeps DEF TypeOK, WebInv, SubmitDownload, Post
<1>2. UNCHANGED <<row, timer, poll, table, refresh>> /\ posted' = posted \cup {j}
  BY DEF SubmitDownload
<1>3. TypeOK'
  BY <1>1, <1>2 DEF TypeOK
<1>4. WebInv'
  BY <1>1, <1>2, PageKeeps DEF JobMoves, WebInv, PageInv
<1> QED BY <1>3, <1>4

LEMMA ThreadsKeep ==
  ASSUME TypeOK, WebInv, NEW j \in Jobs, JobStep(j) \/ OtherJob(j), UNCHANGED page
  PROVE  TypeOK' /\ WebInv'
<1>1. ServerTypeOK' /\ ServerInv' /\ JobMoves(j) /\ shared \subseteq shared'
  <2>1. CASE JobStep(j)
    BY <2>1, JobStepKeeps DEF TypeOK, WebInv, JobStep, Open, Write, Check, Record, Fails
  <2>2. CASE OtherJob(j)
    BY <2>2, OtherJobKeeps DEF TypeOK, WebInv
  <2> QED BY <2>1, <2>2
<1>2. UNCHANGED <<posted, row, timer, poll, table, refresh>>
  BY DEF page
<1>3. TypeOK'
  BY <1>1, <1>2 DEF TypeOK
<1>4. WebInv'
  BY <1>1, <1>2, PageKeeps DEF JobMoves, WebInv, PageInv
<1> QED BY <1>3, <1>4

LEMMA HostsKeep ==
  ASSUME TypeOK, WebInv, NEW h \in Hosts, SubmitHost(h) \/ (HostJob(h) /\ UNCHANGED page)
  PROVE  TypeOK' /\ WebInv'
<1>1. /\ ServerTypeOK' /\ ServerInv'
      /\ UNCHANGED <<pc, status, idx, file, stream, restarted, shared>>
  BY HostKeeps DEF TypeOK, WebInv, SubmitHost
<1>2. UNCHANGED <<row, timer, poll, table, refresh>> /\ posted' \subseteq posted \cup {h}
  BY DEF SubmitHost, page
<1>3. TypeOK'
  BY <1>1, <1>2 DEF TypeOK
<1>4. WebInv'
  BY <1>1, <1>2, PageKeeps DEF WebInv, PageInv
<1> QED BY <1>3, <1>4

\* A row, the polls of it and the table of hosts.
LEMMA RowsKeep ==
  ASSUME TypeOK, WebInv, NEW j \in Jobs,
         AddRow(j) \/ \E s \in Slots : Tick(j, s) \/ AnswerPoll(j, s) \/ Polled(j, s)
  PROVE  TypeOK' /\ WebInv'
<1>1. UNCHANGED <<server, table, refresh>>
  BY DEF AddRow, Tick, AnswerPoll, Polled, Polling
<1>2. ServerTypeOK' /\ ServerInv'
  BY <1>1 DEF TypeOK, WebInv, ServerTypeOK, ServerInv, server
<1>3. /\ \A k \in Jobs : row[k] \in Ended => row[k] = status[k]
      /\ \A k \in Jobs, t \in Slots :
           poll[k][t].status \in Ended => poll[k][t].status = status[k]
  BY DEF WebInv, PageInv
<1>4. ASSUME TypeOK',
             \A k \in Jobs : row'[k] \in Ended => row'[k] = status[k],
             \A k \in Jobs, t \in Slots :
               poll'[k][t].status \in Ended => poll'[k][t].status = status[k]
      PROVE  TypeOK' /\ WebInv'
  <2>1. UNCHANGED <<stream, restarted, status, shared>>
    BY <1>1 DEF server
  <2> QED BY <1>2, <1>4, <2>1, PageKeeps
<1>5. CASE AddRow(j)
  <2>1. TypeOK'
    BY <1>1, <1>2, <1>5 DEF TypeOK, AddRow
  <2>2. /\ \A k \in Jobs : row'[k] \in Ended => row'[k] = status[k]
        /\ UNCHANGED poll
    BY <1>3, <1>5 DEF TypeOK, AddRow, Ended
  <2> QED BY <1>3, <1>4, <2>1, <2>2
<1>6. ASSUME NEW s \in Slots, Tick(j, s)  PROVE TypeOK' /\ WebInv'
  <2>1. TypeOK'
    BY <1>1, <1>2, <1>6 DEF TypeOK, Tick, Polling
  <2>2. /\ UNCHANGED row
        /\ \A k \in Jobs, t \in Slots :
             poll'[k][t].status \in Ended => poll'[k][t].status = status[k]
    BY <1>3, <1>6 DEF TypeOK, Tick, Polling, Sent, Ended
  <2> QED BY <1>3, <1>4, <2>1, <2>2
<1>7. ASSUME NEW s \in Slots, AnswerPoll(j, s)  PROVE TypeOK' /\ WebInv'
  <2>1. JobAnswer(j) \in Answers /\ (JobAnswer(j).status \in Ended => JobAnswer(j).status = status[j])
    BY DEF JobAnswer, Answers, TypeOK, ServerTypeOK, Ended
  <2>2. TypeOK'
    BY <1>1, <1>2, <1>7, <2>1 DEF TypeOK, AnswerPoll, Polling
  <2>3. /\ UNCHANGED row
        /\ \A k \in Jobs, t \in Slots :
             poll'[k][t].status \in Ended => poll'[k][t].status = status[k]
    BY <1>3, <1>7, <2>1 DEF TypeOK, AnswerPoll, Polling
  <2> QED BY <1>3, <1>4, <2>2, <2>3
<1>8. ASSUME NEW s \in Slots, Polled(j, s)  PROVE TypeOK' /\ WebInv'
  <2> DEFINE a == poll[j][s]
  <2>1. a \in Answers /\ (a.status \in Ended => a.status = status[j])
    BY <1>3, <1>8 DEF Polled
  <2>2. NewRow(j, a) \in {"none", "running"} \cup Ended
    BY <2>1 DEF NewRow, TypeOK
  <2>3. NewRow(j, a) \in Ended => NewRow(j, a) = status[j]
    BY <1>3, <2>1 DEF NewRow
  <2>4. NewTimer(j, a) \in BOOLEAN
    BY DEF NewTimer
  <2>5. TypeOK'
    BY <1>1, <1>2, <1>8, <2>2, <2>4 DEF TypeOK, Polled, Polling
  <2>6. \A k \in Jobs : row'[k] \in Ended => row'[k] = status[k]
    BY <1>3, <1>8, <2>3 DEF TypeOK, Polled
  <2>7. \A k \in Jobs, t \in Slots :
          poll'[k][t].status \in Ended => poll'[k][t].status = status[k]
    BY <1>3, <1>8 DEF TypeOK, Polled, Polling, Free, Ended
  <2> QED BY <1>4, <2>5, <2>6, <2>7
<1> QED BY <1>5, <1>6, <1>7, <1>8

LEMMA TableKeeps ==
  ASSUME TypeOK, WebInv, NEW s \in Slots,
         (\E h \in Hosts : HostStarted(h, s)) \/ RefreshTick(s) \/ Refreshed(s)
  PROVE  TypeOK' /\ WebInv'
<1>1. UNCHANGED <<server, row, timer, poll>> /\ posted' \subseteq posted
  BY DEF HostStarted, RefreshTick, SendRefresh, Refreshed
<1>2. ServerTypeOK' /\ ServerInv'
  BY <1>1 DEF TypeOK, WebInv, ServerTypeOK, ServerInv, server
<1>3. table' \in [Hosts -> HostStatus] /\ refresh' \in [Slots -> {FreeTable} \cup [Hosts -> HostStatus]]
  <2>1. CASE SendRefresh(s)
    BY <2>1 DEF SendRefresh, TypeOK, ServerTypeOK
  <2>2. CASE Refreshed(s)
    BY <2>2 DEF Refreshed, NewTable, TypeOK
  <2> QED BY <2>1, <2>2 DEF HostStarted, RefreshTick
<1>4. TypeOK'
  BY <1>1, <1>2, <1>3 DEF TypeOK
<1>5. UNCHANGED <<stream, restarted, status, shared>>
  BY <1>1 DEF server
<1>6. WebInv'
  BY <1>1, <1>2, <1>5, PageKeeps DEF WebInv, PageInv
<1> QED BY <1>4, <1>6

\* A restart ends the streams that are under way and fails the polls nobody has
\* answered; what a stream promised before was right when it did.
LEMMA RestartKeeps ==
  ASSUME TypeOK, WebInv, Restart
  PROVE  TypeOK' /\ WebInv'
<1> DEFINE Gone(st) == IF st.at \in {"promised", "sending"} THEN [st EXCEPT !.at = "gone"] ELSE st
<1>1. /\ pc' = [j \in Jobs |-> "over"] /\ host' = [h \in Hosts |-> "none"]
      /\ stream' = [s \in Streams |-> Gone(stream[s])]
      /\ restarted' = TRUE /\ UNCHANGED <<status, idx, file, shared>>
      /\ UNCHANGED <<posted, row, timer, table, refresh>>
      /\ poll' = [j \in Jobs |-> [s \in Slots |-> IF poll[j][s] = Sent THEN Free ELSE poll[j][s]]]
  BY DEF Restart, RestartServer
<1>2. \A s \in Streams : stream[s] \in StreamState
  BY DEF TypeOK, ServerTypeOK, StreamState
<1>3. \A s \in Streams : Gone(stream[s]) \in StreamState
  BY <1>2 DEF StreamState
<1>4. ServerTypeOK'
  <2> HIDE DEF Gone
  <2>1. stream' \in [Streams -> StreamState]
    BY <1>1, <1>3
  <2> QED BY <1>1, <2>1 DEF TypeOK, ServerTypeOK, StreamState, HostStatus
<1>5. ServerInv'
  BY <1>1 DEF ServerInv, WebInv, UnderWay
<1>6. TypeOK'
  BY <1>1, <1>4 DEF TypeOK
<1>7. \A j \in Jobs, s \in Slots : poll'[j][s].status \in Ended => poll'[j][s].status = status'[j]
  BY <1>1 DEF WebInv, PageInv, Free, Ended
<1>8. \A s \in Streams : Fine(s, stream[s])
  BY DEF WebInv, PageInv, PlayedIsAsked, Fine
<1>9. ASSUME NEW s \in Streams  PROVE Fine(s, stream[s])'
  <2>1. /\ Gone(stream[s]).at \in {"new", "refused"} <=> stream[s].at \in {"new", "refused"}
        /\ Gone(stream[s]).at = "new" <=> stream[s].at = "new"
        /\ Gone(stream[s]).at = "refused" <=> stream[s].at = "refused"
        /\ Gone(stream[s]).at = "short" <=> stream[s].at = "short"
        /\ Gone(stream[s]).range = stream[s].range
        /\ Gone(stream[s]).first = stream[s].first /\ Gone(stream[s]).last = stream[s].last
    BY <1>2 DEF StreamState
  <2>2. stream'[s] = Gone(stream[s])
    BY <1>1
  <2> HIDE DEF Gone
  <2> QED BY <1>1, <1>8, <2>1, <2>2 DEF Fine
<1>10. PageInv' /\ PlayedIsAsked'
  BY <1>1, <1>7, <1>9 DEF PageInv, PlayedIsAsked, Fine, WebInv
<1> QED BY <1>5, <1>6, <1>10 DEF WebInv

(***************************************************************************)
(* The theorems.                                                           *)
(***************************************************************************)

LEMMA WebStep == TypeOK /\ WebInv /\ [Next]_vars => TypeOK' /\ WebInv'
<1> SUFFICES ASSUME TypeOK, WebInv, [Next]_vars  PROVE TypeOK' /\ WebInv'
  OBVIOUS
<1>1. ASSUME NEW j \in Jobs,
             \/ SubmitDownload(j) \/ AddRow(j) \/ ((JobStep(j) \/ OtherJob(j)) /\ UNCHANGED page)
             \/ \E s \in Slots : Tick(j, s) \/ AnswerPoll(j, s) \/ Polled(j, s)
      PROVE  TypeOK' /\ WebInv'
  <2>1. CASE SubmitDownload(j)
    BY <2>1, SubmitKeeps
  <2>2. CASE (JobStep(j) \/ OtherJob(j)) /\ UNCHANGED page
    BY <2>2, ThreadsKeep
  <2>3. CASE AddRow(j) \/ \E s \in Slots : Tick(j, s) \/ AnswerPoll(j, s) \/ Polled(j, s)
    BY <2>3, RowsKeep
  <2> QED BY <1>1, <2>1, <2>2, <2>3
<1>2. ASSUME NEW s \in Streams, Play(s) \/ ((SendBlock(s) \/ Leave(s)) /\ UNCHANGED page)
      PROVE  TypeOK' /\ WebInv'
  <2>1. UNCHANGED <<posted, row, timer, poll, table, refresh>> /\ ServerTypeOK' /\ WebInv'
    BY <1>2, PlayKeeps, SendKeeps DEF Play, page
  <2> QED BY <2>1 DEF TypeOK
<1>3. ASSUME NEW h \in Hosts, SubmitHost(h) \/ (HostJob(h) /\ UNCHANGED page)
      PROVE  TypeOK' /\ WebInv'
  BY <1>3, HostsKeep
<1>4. ASSUME NEW s \in Slots,
             (\E h \in Hosts : HostStarted(h, s)) \/ RefreshTick(s) \/ Refreshed(s)
      PROVE  TypeOK' /\ WebInv'
  BY <1>4, TableKeeps
<1>5. CASE Restart
  BY <1>5, RestartKeeps
<1>6. CASE UNCHANGED vars
  <2>1. UNCHANGED <<pc, status, idx, file, host, stream, restarted, shared>>
        /\ UNCHANGED <<posted, row, timer, poll, table, refresh>>
    BY <1>6 DEF vars, server, page
  <2> QED BY <2>1 DEF TypeOK, ServerTypeOK, WebInv, ServerInv, PageInv, PlayedIsAsked
<1> QED BY <1>1, <1>2, <1>3, <1>4, <1>5, <1>6 DEF Next

LEMMA WebInit == Init => TypeOK /\ WebInv
<1> SUFFICES ASSUME Init  PROVE TypeOK /\ WebInv
  OBVIOUS
<1>1. ServerTypeOK /\ ServerInv
  <2>1. NewStream \in StreamState
    BY DEF NewStream, StreamState
  <2>2. stream \in [Streams -> StreamState]
    BY <2>1 DEF Init, ServerInit
  <2>3. idx \in [Jobs -> 0..N] /\ file \in [Jobs -> Blank..N]
    BY DEF Init, ServerInit, Blank
  <2>4. ServerTypeOK
    BY <2>2, <2>3 DEF Init, ServerInit, ServerTypeOK, StreamState, HostStatus
  <2>5. ServerInv
    BY DEF Init, ServerInit, ServerInv, UnderWay
  <2> QED BY <2>4, <2>5
<1>2. TypeOK
  BY <1>1 DEF TypeOK, Init, HostStatus
<1>3. WebInv
  BY <1>1 DEF Init, ServerInit, WebInv, PageInv, PlayedIsAsked, NewStream, Free, Ended
<1> QED BY <1>2, <1>3

\* Every variable of page and server keeps its type, and the invariant that
\* relates threads, files, answers under way, rows and streams is inductive.
THEOREM WebInvariant == Spec => [](TypeOK /\ WebInv)
BY WebInit, WebStep, PTL DEF Spec

\* pollJob: whatever order the answers of overlapping polls arrive in, a row
\* that says how its job ended says what it came to.
THEOREM RowsAreTrue == Spec => []RowTellsTheTruth
<1>1. WebInv => RowTellsTheTruth
  BY DEF WebInv, ServerInv, PageInv, RowTellsTheTruth
<1> QED BY <1>1, WebInvariant, PTL

\* _handle_stream: a row that is done plays unless another job has opened its
\* file: for every range and content size it sends all the blocks it promises,
\* and if the range has a start, or there is none, they are those asked for.
THEOREM PlaysWhatIsAsked == Spec => []PlayedIsAsked
<1>1. WebInv => PlayedIsAsked
  BY DEF WebInv
<1> QED BY <1>1, WebInvariant, PTL
=============================================================================
