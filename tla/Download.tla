------------------------------- MODULE Download -------------------------------
(***************************************************************************)
(* download() of src/node.py against serve_session(), for several jobs     *)
(* that write into one file system (a job is a CLI call, a shell command   *)
(* or a web UI thread).                                                    *)
(*                                                                         *)
(* The protocol is strictly request and response and one side waits while  *)
(* the other works, so an exchange is one step of the job.  An honest host *)
(* answers as serve_session does; any other host answers what it likes.    *)
(* SHA-256 and the Merkle root are collision free: leaves whose root is a  *)
(* content's hash are that content's leaves, and a block whose hash is a   *)
(* leaf is that content's block.                                           *)
(***************************************************************************)
EXTENDS Integers, Sequences, SequencesExt

CONSTANTS
  Jobs,      \* calls of download()
  Hosts, Honest,  \* hosts, and those that run this serve_session on an intact archive
  Flaky,     \* hosts whose connections may break
  Contents,  \* content hashes
  Archive,   \* [Hosts -> SUBSET Contents], what an honest host serves
  NChunks,   \* [Contents -> 0..MaxChunks], chunks of each content
  Target,    \* [Jobs -> Hosts], host_addr (or the host behind the tunnel)
  Wanted,    \* [Jobs -> Contents \cup {None}], the content_hash argument
  Tunneled,  \* jobs that go through a tunnel relay
  Path,      \* [Jobs -> Paths], out_path
  Troubled,  \* paths where open() or write() may raise: no directory, no right, no room
  MaxChunks, \* bound on the chunks a content has or a host claims it has
  None, Junk

Paths == {Path[j] : j \in Jobs}

ASSUME HostsAssumption == Honest \subseteq Hosts /\ Flaky \subseteq Hosts
ASSUME JobsAssumption ==
  /\ Archive \in [Hosts -> SUBSET Contents]
  /\ MaxChunks \in Nat /\ NChunks \in [Contents -> 0..MaxChunks]
  /\ Target \in [Jobs -> Hosts]
  /\ Wanted \in [Jobs -> Contents \cup {None}]
  /\ Tunneled \subseteq {j \in Jobs : Wanted[j] # None}
  /\ \A j \in Tunneled : Target[j] \in Honest => Wanted[j] \in Archive[Target[j]]
ASSUME MarkersAssumption == None \notin Contents \cup Jobs /\ Junk \notin Contents

VARIABLES
  pc,        \* what the job does next
  selected,  \* the session's `selected`
  info,      \* the host's INFO
  leaves,    \* the content whose leaves the host sent, or Junk
  idx,       \* chunks fetched
  handle,    \* the file the job opened (named after the job that created it)
  dir,       \* path -> file, or None
  data       \* file -> blocks, with Junk where a write left a hole

vars == <<pc, selected, info, leaves, idx, handle, dir, data>>

Block  == Contents \X (1..MaxChunks)
Blocks(c) == [i \in 1..NChunks[c] |-> <<c, i>>]
Infos  == [sha : Contents, n : 0..MaxChunks, size : 0..MaxChunks]
TrueInfo(c) == [sha |-> c, n |-> NChunks[c], size |-> NChunks[c]]

Steps == {"connect", "select", "info", "leaves", "open", "fetch", "check", "done", "failed"}

TypeOK ==
  /\ pc \in [Jobs -> Steps]
  /\ selected \in [Jobs -> Contents \cup {None}]
  /\ info \in [Jobs -> Infos \cup {None}]
  /\ leaves \in [Jobs -> Contents \cup {Junk, None}]
  /\ idx \in [Jobs -> 0..MaxChunks]
  /\ handle \in [Jobs -> Jobs \cup {None}]
  /\ dir \in [Paths -> Jobs \cup {None}]
  /\ data \in [Jobs -> Seq(Block \cup {Junk})]

Init ==
  /\ pc = [j \in Jobs |-> "connect"]
  /\ selected = [j \in Jobs |-> None]
  /\ info = [j \in Jobs |-> None]
  /\ leaves = [j \in Jobs |-> None]
  /\ idx = [j \in Jobs |-> 0]
  /\ handle = [j \in Jobs |-> None]
  /\ dir = [p \in Paths |-> None]
  /\ data = [j \in Jobs |-> <<>>]

At(j, step)   == pc[j] = step
Goto(j, step) == pc' = [pc EXCEPT ![j] = step]
Honestly(j)   == Target[j] \in Honest

\* serve_session's default_hash: the tunnel scopes a stream to its token, a
\* direct host has a default only when it serves a single file.
DefaultHash(j) ==
  IF j \in Tunneled THEN Wanted[j]
  ELSE IF Cardinality(Archive[Target[j]]) = 1 THEN CHOOSE c \in Archive[Target[j]] : TRUE
  ELSE None

\* Mutant of AfterConnect: a client that never SELECTs.
NoSelect(j) == "info"
AfterConnect(j) == IF Wanted[j] # None /\ j \notin Tunneled THEN "select" ELSE "info"
Connect(j) ==
  /\ At(j, "connect")
  /\ selected' = [selected EXCEPT ![j] = DefaultHash(j)]
  /\ Goto(j, AfterConnect(j))
  /\ UNCHANGED <<info, leaves, idx, handle, dir, data>>

\* Any exchange may fail: a refused or reset connection, the 10s timeout, an
\* EOF.  Whatever was written so far stays where it is.
Break(j) ==
  /\ pc[j] \in {"connect", "select", "info", "leaves", "fetch"}
  /\ Target[j] \in Flaky
  /\ Goto(j, "failed")
  /\ UNCHANGED <<selected, info, leaves, idx, handle, dir, data>>

\* SELECT: an honest host says OK exactly when it has the content.
SelectOk(j) ==
  /\ At(j, "select")
  /\ Honestly(j) => Wanted[j] \in Archive[Target[j]]
  /\ selected' = [selected EXCEPT ![j] = Wanted[j]]
  /\ Goto(j, "info")
  /\ UNCHANGED <<info, leaves, idx, handle, dir, data>>
SelectRejected(j) ==
  /\ At(j, "select")
  /\ Honestly(j) => Wanted[j] \notin Archive[Target[j]]
  /\ Goto(j, "failed")
  /\ UNCHANGED <<selected, info, leaves, idx, handle, dir, data>>

\* INFO; without a selection the session answers ERR, which is not JSON.
GetInfo(j) ==
  /\ At(j, "info")
  /\ Honestly(j) => selected[j] # None
  /\ \E i \in Infos :
       /\ Honestly(j) => i = TrueInfo(selected[j])
       /\ info' = [info EXCEPT ![j] = i]
  /\ Goto(j, "leaves")
  /\ UNCHANGED <<selected, leaves, idx, handle, dir, data>>
InfoUnusable(j) ==
  /\ At(j, "info")
  /\ Honestly(j) => selected[j] = None
  /\ Goto(j, "failed")
  /\ UNCHANGED <<selected, info, leaves, idx, handle, dir, data>>

\* Mutant of Consistent: any well-formed leaves will do.
WellFormed(i, l) == l # Junk
\* LEAVES must Merkle-root to INFO's sha256 and be as many as it says.
Consistent(i, l) == l = i.sha /\ NChunks[l] = i.n
GetLeaves(j) ==
  /\ At(j, "leaves")
  /\ \E l \in Contents \cup {Junk} :
       /\ Honestly(j) => l = selected[j]
       /\ leaves' = [leaves EXCEPT ![j] = l]
       /\ Goto(j, IF Consistent(info[j], l) THEN "open" ELSE "failed")
  /\ UNCHANGED <<selected, info, idx, handle, dir, data>>

\* open(out_path, 'wb'): the file that is there is truncated, else created.
OpenFile(j) ==
  /\ At(j, "open")
  /\ LET f == IF dir[Path[j]] = None THEN j ELSE dir[Path[j]] IN
     /\ dir' = [dir EXCEPT ![Path[j]] = f]
     /\ handle' = [handle EXCEPT ![j] = f]
     /\ data' = [data EXCEPT ![f] = <<>>]
  /\ Goto(j, IF info[j].n = 0 THEN "check" ELSE "fetch")
  /\ UNCHANGED <<selected, info, leaves, idx>>

\* `file` with block b at position n + 1, a hole before it if it is shorter.
WriteAt(file, n, b) ==
  [i \in 1..Max({Len(file), n + 1}) |->
     IF i = n + 1 THEN b ELSE IF i <= Len(file) THEN file[i] ELSE Junk]

\* Mutant of Accepts: what came is written, matching leaf or not.
AcceptsAll(j, b) == Honestly(j) => b[2] = idx[j] + 1
\* FETCH: only a block whose hash is the committed leaf is written.
Accepts(j, b) == b = <<leaves[j], idx[j] + 1>>
FetchChunk(j) ==
  /\ At(j, "fetch")
  /\ \E b \in {c \in Block : Accepts(j, c)} :
       data' = [data EXCEPT ![handle[j]] = WriteAt(@, idx[j], b)]
  /\ idx' = [idx EXCEPT ![j] = @ + 1]
  /\ Goto(j, IF idx[j] + 1 = info[j].n THEN "check" ELSE "fetch")
  /\ UNCHANGED <<selected, info, leaves, handle, dir>>

\* Anything else (another block, ERR, no DATA) ends the job.
FetchRejected(j) ==
  /\ At(j, "fetch")
  /\ ~Honestly(j)
  /\ Goto(j, "failed")
  /\ UNCHANGED <<selected, info, leaves, idx, handle, dir, data>>

\* os.path.getsize(out_path) against INFO's size; a mismatch deletes it.
CheckSize(j) ==
  /\ At(j, "check")
  /\ LET f == dir[Path[j]] IN
     IF f # None /\ Len(data[f]) = info[j].size
     THEN Goto(j, "done") /\ UNCHANGED dir
     ELSE Goto(j, "failed") /\ dir' = [dir EXCEPT ![Path[j]] = None]
  /\ UNCHANGED <<selected, info, leaves, idx, handle, data>>

\* open() or write() raises and the job ends with the exception; what was
\* written so far stays where it is.
LocalFails(j) ==
  /\ pc[j] \in {"open", "fetch"}
  /\ Path[j] \in Troubled
  /\ Goto(j, "failed")
  /\ UNCHANGED <<selected, info, leaves, idx, handle, dir, data>>

Download(j) ==
  \/ Connect(j) \/ SelectOk(j) \/ SelectRejected(j) \/ GetInfo(j) \/ InfoUnusable(j)
  \/ GetLeaves(j) \/ OpenFile(j) \/ FetchChunk(j) \/ FetchRejected(j) \/ CheckSize(j)

Next == \E j \in Jobs : Download(j) \/ Break(j) \/ LocalFails(j)
Spec == Init /\ [][Next]_vars

\* A job's thread keeps running; what breaks a connection or a disk owes nothing.
FairSpec == Spec /\ \A j \in Jobs : WF_vars(Download(j))

(***************************************************************************)
(* Safety.                                                                 *)
(***************************************************************************)

\* When download() returns, out_path holds every chunk of what the host
\* committed to, in order: "chunks downloaded and verified"; and of an honest
\* host that is what was asked for, whatever else it serves.
DoneIsComplete ==
  \A j \in Jobs :
    At(j, "done") =>
      /\ dir[Path[j]] # None
      /\ data[dir[Path[j]]] = Blocks(info[j].sha)
      /\ Honestly(j) /\ Wanted[j] # None => info[j].sha = Wanted[j]

\* Whatever a download leaves behind, however it ended, is a beginning of
\* the committed content: no byte that was not verified reaches the disk.
OnlyVerifiedBytes ==
  \A j \in Jobs :
    handle[j] # None => IsPrefix(data[handle[j]], Blocks(info[j].sha))

(***************************************************************************)
(* The strengthening that the proofs use.                                  *)
(***************************************************************************)

Chosen    == {"info", "leaves", "open", "fetch", "check", "done"}
Informed  == Chosen \ {"info"}
Committed == Informed \ {"leaves"}
Opened    == Committed \ {"open"}

\* What a job knows at each stage, whatever other jobs do: whom it asked for
\* what, what the host committed to, and how far it is.
Progress(j) ==
  /\ pc[j] \in Steps \ (Opened \cup {"failed"}) => handle[j] = None /\ idx[j] = 0
  /\ pc[j] \in Opened => handle[j] # None
  /\ pc[j] \in Informed \/ handle[j] # None => info[j] \in Infos
  /\ pc[j] \in Committed \/ handle[j] # None =>
       leaves[j] = info[j].sha /\ NChunks[leaves[j]] = info[j].n /\ idx[j] <= info[j].n
  /\ At(j, "fetch") => idx[j] < info[j].n
  /\ pc[j] \in {"check", "done"} => idx[j] = info[j].n
  /\ Honestly(j) /\ Wanted[j] # None =>
       /\ pc[j] \in Chosen => selected[j] = Wanted[j]
       /\ pc[j] \in Informed => info[j].sha = Wanted[j]

\* Files lie where their creator put them and are written by jobs of that path.
InPlace ==
  /\ \A p \in Paths : dir[p] # None => Path[dir[p]] = p
  /\ \A j \in Jobs : handle[j] # None => Path[handle[j]] = Path[j]

\* No other job writes where j writes.
Alone(j) == \A i \in Jobs : Path[i] = Path[j] => i = j
OwnPaths == \A j \in Jobs : Alone(j)

\* Then j's file holds the blocks it fetched, and stays until j is done.
Undisturbed(j) ==
  /\ handle[j] # None => data[j] = [i \in 1..idx[j] |-> <<leaves[j], i>>]
  /\ pc[j] \in Opened => dir[Path[j]] = j

DownloadInv ==
  /\ TypeOK /\ InPlace
  /\ \A j \in Jobs : Progress(j) /\ (Alone(j) => Undisturbed(j))

(***************************************************************************)
(* Liveness, under FairSpec.                                               *)
(***************************************************************************)

\* A reachable honest host that serves the content is enough, if the disk takes it.
Servable(j) ==
  /\ Honestly(j) /\ Target[j] \notin Flaky /\ Path[j] \notin Troubled
  /\ \/ Wanted[j] \in Archive[Target[j]]
     \/ Wanted[j] = None /\ Cardinality(Archive[Target[j]]) = 1
HonestCompletes == \A j \in Jobs : Servable(j) => <>At(j, "done")

(***************************************************************************)
(* What a comment says and the code does not do.                           *)
(***************************************************************************)

\* "verify that BEFORE downloading a single byte, so a host can't serve a
\* self-consistent-but-fake leaves list": what is kept is what was wanted.
DoneIsWanted ==
  \A j \in Jobs : At(j, "done") /\ Wanted[j] # None => info[j].sha = Wanted[j]
=============================================================================
