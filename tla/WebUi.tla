-------------------------------- MODULE WebUi --------------------------------
(***************************************************************************)
(* The server of src/web_ui.py: download jobs and hosts, each in a thread  *)
(* of its own, and the streams that serve a job's file: _handle_download,  *)
(* _run_download_job, _handle_host, _run_host_job and _handle_stream.      *)
(* WebClient has the page that calls it.  A file is a number of blocks;    *)
(* whose bytes they are is Download's subject, and what a host serves is   *)
(* Hosting's.  Another job of the same content has the same default path.  *)
(* A thread's socket has a timeout for each recv.  That a step of a job    *)
(* ends, if only in an exception, is an assumption of FairSpec: a peer     *)
(* that trickles bytes and never ends its line would hold the thread.      *)
(***************************************************************************)
EXTENDS Integers, FiniteSets

CONSTANTS
  Jobs,    \* download jobs
  Hosts,   \* host jobs
  Streams, \* GET /api/stream requests
  JobOf,   \* [Streams -> Jobs]
  Asks,    \* the Range headers a stream may come with
  N,       \* n_chunks, blocks of the content
  CanFail  \* bound: whether there is one mishap, a restart or a job on the same file

Blank == -1  \* a side of a range that is left open
Ranges == [from : {Blank} \cup Nat, to : {Blank} \cup Nat]
Whole == [from |-> Blank, to |-> Blank]

ASSUME ServerAssumption ==
  /\ N \in Nat \ {0} /\ CanFail \in BOOLEAN
  /\ JobOf \in [Streams -> Jobs] /\ Asks \subseteq Ranges

VARIABLES
  pc,        \* where a job's thread is
  status,    \* _jobs' status, "none" before the request; kept here after a restart
  idx,       \* blocks reported by on_progress
  file,      \* blocks of the job's file, Blank when it is not there
  host,      \* _hosts' status, "none" when not there
  stream,    \* the state of each stream
  restarted, \* the server was
  shared     \* jobs whose file another has opened after them

server == <<pc, status, idx, file, host, stream, restarted, shared>>

Ended == {"done", "error"}
UnderWay == {"auction", "write", "check", "record"}
HostStatus == {"none", "starting", "running", "error"}
NewStream == [at |-> "new", range |-> Whole, first |-> 0, last |-> -1, pos |-> 0]

ServerTypeOK ==
  /\ pc \in [Jobs -> {"none", "over"} \cup UnderWay]
  /\ status \in [Jobs -> {"none", "running"} \cup Ended]
  /\ idx \in [Jobs -> 0..N] /\ file \in [Jobs -> Blank..N]
  /\ host \in [Hosts -> HostStatus] /\ restarted \in BOOLEAN /\ shared \subseteq Jobs
  /\ stream \in [Streams ->
       [at : {"new", "refused", "promised", "sending", "sent", "short", "gone"},
        range : Asks \cup {Whole}, first : 0..N, last : -1..N, pos : 0..N+1]]

ServerInit ==
  /\ pc = [j \in Jobs |-> "none"] /\ status = [j \in Jobs |-> "none"]
  /\ idx = [j \in Jobs |-> 0] /\ file = [j \in Jobs |-> Blank]
  /\ host = [h \in Hosts |-> "none"]
  /\ stream = [s \in Streams |-> NewStream]
  /\ restarted = FALSE /\ shared = {}

(***************************************************************************)
(* A job.                                                                  *)
(***************************************************************************)
Post(j) ==
  /\ status[j] = "none" /\ ~restarted
  /\ status' = [status EXCEPT ![j] = "running"] /\ pc' = [pc EXCEPT ![j] = "auction"]
  /\ UNCHANGED <<idx, file, host, stream, restarted, shared>>

\* open(out_path, 'wb'), once there is a winner.
Open(j) ==
  /\ pc[j] = "auction" /\ pc' = [pc EXCEPT ![j] = "write"]
  /\ file' = [file EXCEPT ![j] = 0]
  /\ UNCHANGED <<status, idx, host, stream, restarted, shared>>

\* One verified block, and on_progress.
Write(j) ==
  /\ pc[j] = "write"
  /\ pc' = [pc EXCEPT ![j] = IF idx[j] + 1 = N THEN "check" ELSE @]
  /\ idx' = [idx EXCEPT ![j] = @ + 1]
  /\ file' = [file EXCEPT ![j] = IF @ > idx[j] THEN @ ELSE idx[j] + 1]
  /\ UNCHANGED <<status, host, stream, restarted, shared>>

Ends(j, st) == pc' = [pc EXCEPT ![j] = "over"] /\ status' = [status EXCEPT ![j] = st]

\* The file's size against the one the host's INFO claims, and os.remove.
Check(j, claimed) ==
  /\ pc[j] = "check"
  /\ IF file[j] = claimed THEN pc' = [pc EXCEPT ![j] = "record"] /\ UNCHANGED <<status, file>>
     ELSE Ends(j, "error") /\ file' = [file EXCEPT ![j] = Blank]
  /\ UNCHANGED <<idx, host, stream, restarted, shared>>

\* The outcome is saved and posted to the relays, and the job is done.
Record(j) ==
  /\ pc[j] = "record" /\ Ends(j, "done")
  /\ UNCHANGED <<idx, file, host, stream, restarted, shared>>

\* Mutant of Caught: an exception that no clause catches ends the thread.
Uncaught == "running"
\* The status of a job that sys.exit or an exception ends.
Caught == "error"

\* The auction, a block, or the record of a download that is complete fails;
\* what has been written stays.
Fails(j) ==
  /\ pc[j] \in UnderWay /\ Ends(j, Caught)
  /\ UNCHANGED <<idx, file, host, stream, restarted, shared>>

\* A job with the same out_path, of this server or another process, empties the
\* file; what it does with it then is not followed.
OtherJob(j) ==
  /\ CanFail /\ ~restarted /\ shared = {} /\ file[j] # Blank
  /\ shared' = {j} /\ file' = [file EXCEPT ![j] = 0]
  /\ UNCHANGED <<pc, status, idx, host, stream, restarted>>

JobStep(j) ==
  Open(j) \/ Write(j) \/ Record(j) \/ Fails(j) \/ \E claimed \in {N, N + 1} : Check(j, claimed)

(***************************************************************************)
(* A host.                                                                 *)
(***************************************************************************)
PostHost(h) ==
  /\ host[h] = "none" /\ ~restarted /\ host' = [host EXCEPT ![h] = "starting"]
  /\ UNCHANGED <<pc, status, idx, file, stream, restarted, shared>>

\* It has announced; or it failed, before that or in the server's bind.
HostJob(h) ==
  /\ \/ host[h] = "starting" /\ host' = [host EXCEPT ![h] = "running"]
     \/ host[h] \in {"starting", "running"} /\ host' = [host EXCEPT ![h] = "error"]
  /\ UNCHANGED <<pc, status, idx, file, stream, restarted, shared>>

(***************************************************************************)
(* A stream of a job's file.                                               *)
(***************************************************************************)

\* Mutant of Last: the end of a range is taken as exclusive.
LastExclusive(r, size) == IF r.to = Blank \/ r.to >= size THEN size - 1 ELSE r.to - 1
First(r) == IF r.from = Blank THEN 0 ELSE r.from
Last(r, size) == IF r.to = Blank \/ r.to >= size THEN size - 1 ELSE r.to

Streaming(s, next) ==
  stream' = [stream EXCEPT ![s] = next] /\ UNCHANGED <<pc, status, idx, file, host, restarted, shared>>

\* The size is read, and the status line and the headers are sent.
Head(s, r) ==
  LET j == JobOf[s]
      first == First(r)
      last == Last(r, file[j]) IN
  /\ stream[s].at = "new"
  /\ Streaming(s,
       IF restarted \/ status[j] # "done" \/ file[j] = Blank \/ first > last \/ first >= file[j]
         THEN [stream[s] EXCEPT !.at = "refused", !.range = r]
         ELSE [at |-> "promised", range |-> r, first |-> first, last |-> last, pos |-> first])

\* Then the file is opened, and read block by block.
SendBlock(s) ==
  LET st == stream[s] IN
  \/ st.at = "promised" /\ Streaming(s, [st EXCEPT !.at = "sending"])
  \/ /\ st.at = "sending"
     /\ Streaming(s, IF st.pos > st.last THEN [st EXCEPT !.at = "sent"]
                     ELSE IF st.pos >= file[JobOf[s]] THEN [st EXCEPT !.at = "short"]
                     ELSE [st EXCEPT !.pos = @ + 1])

\* The client seeks, or closes.
Leave(s) ==
  /\ stream[s].at = "sending" /\ stream[s].pos <= stream[s].last
  /\ Streaming(s, [stream[s] EXCEPT !.at = "gone"])

(***************************************************************************)
(* The process ends and a new one knows no job and no host; its threads    *)
(* end with it, files stay as they are.                                    *)
(***************************************************************************)
RestartServer ==
  /\ CanFail /\ shared = {} /\ ~restarted /\ restarted' = TRUE
  /\ pc' = [j \in Jobs |-> "over"]
  /\ host' = [h \in Hosts |-> "none"]
  /\ stream' = [s \in Streams |->
       IF stream[s].at \in {"promised", "sending"} THEN [stream[s] EXCEPT !.at = "gone"] ELSE stream[s]]
  /\ UNCHANGED <<status, idx, file, shared>>

\* What GET /api/download answers: "unknown" is its 404.
JobAnswer(j) ==
  IF status[j] = "none" \/ restarted THEN [status |-> "unknown", chunks |-> 0]
  ELSE [status |-> status[j], chunks |-> idx[j]]

\* How far a job has got: the thread of one that is under way writes blocks
\* the content has, and the file of one that has been checked is whole until
\* another job opens it.
ServerInv ==
  \A j \in Jobs :
    /\ pc[j] \in UnderWay => status[j] = "running"
    /\ status[j] = "none" => idx[j] = 0
    /\ pc[j] \in {"auction", "write"} => idx[j] < N
    /\ pc[j] = "record" \/ status[j] = "done" => file[j] = N \/ j \in shared
=============================================================================
