------------------------------ MODULE WebClient ------------------------------
(***************************************************************************)
(* The page of src/web/app.js and the server of WebUi behind it: rows that *)
(* poll download jobs, a row's player, and the table of hosts.  Timers     *)
(* fire whether or not the last answer has come, answers come in any       *)
(* order, and a restarted server has forgotten its jobs and hosts.         *)
(***************************************************************************)
EXTENDS WebUi

CONSTANT Slots  \* bound: requests of one kind that are under way at once

VARIABLES
  posted,    \* submits whose callback is still to come
  row,       \* the status cell of a job's row, "none" before addJobRow
  timer,     \* its setInterval is on
  poll,      \* its requests, by slot: Free, Sent or the answer
  table,     \* the hosts-table
  refresh    \* GET /api/hosts, by slot: FreeTable or the answer

page == <<posted, row, timer, poll, table, refresh>>
vars == <<server, page>>

Free == [status |-> "free", chunks |-> 0]
Sent == [status |-> "sent", chunks |-> 0]
FreeTable == [h \in Hosts |-> "free"]
Answers == [status : {"running", "unknown"} \cup Ended, chunks : 0..N]

TypeOK ==
  /\ ServerTypeOK
  /\ posted \subseteq Jobs \cup Hosts
  /\ row \in [Jobs -> {"none", "running"} \cup Ended]
  /\ timer \in [Jobs -> BOOLEAN]
  /\ poll \in [Jobs -> [Slots -> {Free, Sent} \cup Answers]]
  /\ table \in [Hosts -> HostStatus]
  /\ refresh \in [Slots -> {FreeTable} \cup [Hosts -> HostStatus]]

Init ==
  /\ ServerInit
  /\ posted = {}
  /\ row = [j \in Jobs |-> "none"]
  /\ timer = [j \in Jobs |-> FALSE]
  /\ poll = [j \in Jobs |-> [s \in Slots |-> Free]]
  /\ table = [h \in Hosts |-> "none"]
  /\ refresh = [s \in Slots |-> FreeTable]

-----------------------------------------------------------------------------
(* Downloads *)

\* The form's apiPost, up to the handler that starts the job.
SubmitDownload(j) ==
  /\ Post(j) /\ posted' = posted \cup {j}
  /\ UNCHANGED <<row, timer, poll, table, refresh>>

\* Its callback: addJobRow and pollJob.
AddRow(j) ==
  /\ j \in posted /\ posted' = posted \ {j}
  /\ row' = [row EXCEPT ![j] = "running"] /\ timer' = [timer EXCEPT ![j] = TRUE]
  /\ UNCHANGED <<server, poll, table, refresh>>

Polling(j, s, request) ==
  poll' = [poll EXCEPT ![j][s] = request] /\ UNCHANGED <<server, posted, table, refresh>>

Tick(j, s) ==
  timer[j] /\ poll[j][s] = Free /\ Polling(j, s, Sent) /\ UNCHANGED <<row, timer>>
AnswerPoll(j, s) ==
  poll[j][s] = Sent /\ Polling(j, s, JobAnswer(j)) /\ UNCHANGED <<row, timer>>

\* Mutants: a cell that is done when the bar is full; polling that stops then.
NewRowFull(j, a) == IF a.chunks = N THEN "done" ELSE IF a.status = "error" THEN "error" ELSE row[j]
NewTimerFull(j, a) == timer[j] /\ a.status = "running" /\ a.chunks < N

\* What the rest of the interval's callback does with an answer.
NewRow(j, a) == IF a.status \in Ended THEN a.status ELSE row[j]
NewTimer(j, a) == timer[j] /\ a.status = "running"

Polled(j, s) ==
  LET a == poll[j][s] IN
  /\ a \in Answers /\ Polling(j, s, Free)
  /\ row' = [row EXCEPT ![j] = NewRow(j, a)]
  /\ timer' = [timer EXCEPT ![j] = NewTimer(j, a)]

\* The Play button of a row that is done, or its QR code on a phone.
Play(s) ==
  /\ row[JobOf[s]] = "done" /\ \E r \in Asks : Head(s, r)
  /\ UNCHANGED page

-----------------------------------------------------------------------------
(* Hosts *)

SubmitHost(h) ==
  /\ PostHost(h) /\ posted' = posted \cup {h}
  /\ UNCHANGED <<row, timer, poll, table, refresh>>

\* refreshHosts up to its answer.
SendRefresh(s) ==
  /\ refresh[s] = FreeTable /\ refresh' = [refresh EXCEPT ![s] = host]
  /\ UNCHANGED <<server, row, timer, poll, table>>

\* The host form's callback refreshes the table at once.
HostStarted(h, s) == h \in posted /\ posted' = posted \ {h} /\ SendRefresh(s)

\* The page's interval of three seconds, and its first call.
RefreshTick(s) == SendRefresh(s) /\ UNCHANGED posted

\* Mutant: a host's row is made when the host is new, and kept.
NewTableOnce(s) == [h \in Hosts |-> IF table[h] = "none" THEN refresh[s][h] ELSE table[h]]
\* refreshHosts replaces the rows by the answer's.
NewTable(s) == refresh[s]

Refreshed(s) ==
  /\ refresh[s] # FreeTable /\ refresh' = [refresh EXCEPT ![s] = FreeTable]
  /\ table' = NewTable(s)
  /\ UNCHANGED <<server, posted, row, timer, poll>>

-----------------------------------------------------------------------------
\* Requests the old process had not answered fail: their awaits throw.
Restart ==
  /\ RestartServer
  /\ poll' = [j \in Jobs |-> [s \in Slots |-> IF poll[j][s] = Sent THEN Free ELSE poll[j][s]]]
  /\ UNCHANGED <<posted, row, timer, table, refresh>>

Next ==
  \/ \E j \in Jobs :
       \/ SubmitDownload(j) \/ AddRow(j) \/ ((JobStep(j) \/ OtherJob(j)) /\ UNCHANGED page)
       \/ \E s \in Slots : Tick(j, s) \/ AnswerPoll(j, s) \/ Polled(j, s)
  \/ \E s \in Streams : Play(s) \/ ((SendBlock(s) \/ Leave(s)) /\ UNCHANGED page)
  \/ \E h \in Hosts :
       SubmitHost(h) \/ (HostJob(h) /\ UNCHANGED page) \/ \E s \in Slots : HostStarted(h, s)
  \/ \E s \in Slots : RefreshTick(s) \/ Refreshed(s)
  \/ Restart

Spec == Init /\ [][Next]_vars

\* A job's steps end, for which its hosts and relays must answer, hang up or
\* fall silent and not trickle bytes for ever; timers fire, every request is
\* answered and every answer handled; nobody has to submit, to play or to
\* restart anything.
FairSpec ==
  /\ Spec
  /\ \A j \in Jobs :
       /\ WF_vars(JobStep(j) /\ UNCHANGED page) /\ WF_vars(AddRow(j))
       /\ WF_vars(\E s \in Slots : Tick(j, s))
       /\ \A s \in Slots : WF_vars(AnswerPoll(j, s)) /\ WF_vars(Polled(j, s))
  /\ WF_vars(\E s \in Slots : RefreshTick(s))
  /\ \A s \in Slots : WF_vars(Refreshed(s))

-----------------------------------------------------------------------------
(* Properties *)

\* pollJob and _run_download_job: a row that says done or error says what the
\* server's job came to, in whatever order the answers of its overlapping
\* polls arrive; and the file of a row that says done is there and complete,
\* unless another job has opened it since.
RowTellsTheTruth ==
  \A j \in Jobs : row[j] \in Ended =>
    row[j] = status[j] /\ (row[j] = "done" => file[j] = N \/ j \in shared)

\* The row of a job gets to say how it ended, unless the server was restarted
\* in between and no longer knows it: the job ends, and a poll sees that.
RowSettles == \A j \in Jobs : row[j] = "running" ~> (row[j] \in Ended \/ restarted)

\* The table comes to show the hosts as the server lists them, and stays so,
\* whatever answers of older refreshes were still under way.
TableCatchesUp == <>[](table = host)

Asked(r) == {i \in 0..N-1 : (r.from = Blank \/ i >= r.from) /\ (r.to = Blank \/ i <= r.to)}

\* playInline and _handle_stream: a row that is done plays, unless another job
\* has opened its file: the response promises blocks of the content, at least
\* one, and sends no fewer; and if the range has a start, or there is none,
\* those are the blocks that were asked for, and only a range of no block or a
\* restarted server is refused.  (A range without a start asks for the last
\* blocks; the handler answers with the first.)
PlayedIsAsked ==
  \A s \in Streams :
    LET st == stream[s] IN
    st.at # "new" /\ JobOf[s] \notin shared =>
      /\ st.at # "short"
      /\ st.at # "refused" => st.first <= st.last /\ st.last < N
      /\ st.range = Whole \/ st.range.from # Blank =>
           IF st.at = "refused" THEN Asked(st.range) = {} \/ restarted
           ELSE st.first..st.last = Asked(st.range)

\* What these two rest on: an answer under way that says how a job ended, and a
\* row that does, agree with the job, and only the file of a job that is done
\* is served.
PageInv ==
  /\ \A j \in Jobs, s \in Slots :
       poll[j][s].status \in Ended => poll[j][s].status = status[j]
  /\ \A j \in Jobs : row[j] \in Ended => row[j] = status[j]
  /\ \A s \in Streams : stream[s].at \notin {"new", "refused"} => status[JobOf[s]] = "done"
WebInv == ServerInv /\ PageInv /\ PlayedIsAsked
=============================================================================
