-------------------------------- MODULE Hosting --------------------------------
(***************************************************************************)
(* How a host comes up: cmd_host of src/dura.py, do_host of src/shell.py   *)
(* and _run_host_job of src/web_ui.py read the archive's manifest,         *)
(* announce what they found and only then start run_host_server of         *)
(* src/node.py, which reads the manifest again.  In between, ott (external)*)
(* may add to the archive, and other hosts start.  The tunnel that a host  *)
(* may start as well is TunnelRelay's subject; the relay it posts to, on   *)
(* which a post may be lost or raise, is Gossip's; the shell is Shell's.   *)
(***************************************************************************)
EXTENDS Integers, SequencesExt

CONSTANTS
  Jobs,      \* hosts that are started
  Web,       \* those of the web UI
  FileArg,   \* [Jobs -> Names \cup {None}], --file or file_name
  PortOf,    \* [Jobs -> Ports]
  Manifest,  \* manifest.jsonl at first, as entries [name, sha]
  Added,     \* entries that ott adds later
  Chunked,   \* hashes with a chunks file
  Missing,   \* names whose file is not on disk
  None

Archived == Range(Manifest) \cup Added
Shas == {e.sha : e \in Archived}
Ports == {PortOf[j] : j \in Jobs}

ASSUME ArchiveAssumption == Manifest \in Seq(Archived)
ASSUME JobsAssumption ==
  /\ Web \subseteq Jobs
  /\ None \notin Jobs \cup {e.name : e \in Archived}
  /\ FileArg \in [Jobs -> {e.name : e \in Archived} \cup {None}]

VARIABLES
  manifest,   \* manifest.jsonl
  pc,         \* where each job is
  found,      \* what it has found to announce
  posted,     \* what it has posted
  announced,  \* what each job has got a relay to store
  served,     \* what its server is to serve
  listening   \* the job that listens on each port, or None

hosting == <<manifest, pc, found, posted, announced, served, listening>>

HostingTypeOK ==
  /\ manifest \in Seq(Archived)
  /\ pc \in [Jobs -> {"new", "publish", "load", "bind", "serving", "failed"}]
  /\ \A what \in {found, posted, announced, served} : what \in [Jobs -> SUBSET Shas]
  /\ listening \in [Ports -> Jobs \cup {None}]

HostingInit ==
  /\ manifest = Manifest
  /\ pc = [j \in Jobs |-> "new"]
  /\ found = [j \in Jobs |-> {}] /\ posted = found /\ announced = found /\ served = found
  /\ listening = [p \in Ports |-> None]

Goes(j, to) == pc' = [pc EXCEPT ![j] = to]

\* Lines of the manifest that are meant.
Matching(j) == {i \in DOMAIN manifest : FileArg[j] \in {None, manifest[i].name}}
\* find_manifest_entry: the last one.
LastEntry(j) == {manifest[i] : i \in {i \in Matching(j) : \A k \in Matching(j) : k <= i}}
\* Mutant of AllEntries: "the original bug", every host serves the last one.
LastOnly(j) == LastEntry(j)
\* load_manifest_entries: the last one of each name.
AllEntries(j) ==
  {manifest[i] : i \in {i \in Matching(j) :
                         \A k \in Matching(j) : manifest[k].name = manifest[i].name => k <= i}}

Find(j) == IF j \in Web THEN LastEntry(j) ELSE AllEntries(j)
ShasOf(es) == {e.sha : e \in es}
\* load_leaves of each does not exit.
HaveLeaves(es) == ShasOf(es) \subseteq Chunked

\* The manifest, and the leaves of what is to be announced.
Prepare(j) ==
  /\ pc[j] = "new"
  /\ IF Find(j) # {} /\ HaveLeaves(Find(j))
     THEN Goes(j, "publish") /\ found' = [found EXCEPT ![j] = ShasOf(Find(j))]
     ELSE Goes(j, "failed") /\ UNCHANGED found
  /\ UNCHANGED <<manifest, posted, announced, served, listening>>

\* publish to one relay: stored, or lost and reported.
Publish(j) ==
  /\ pc[j] = "publish"
  /\ \E s \in found[j] \ posted[j] :
       /\ posted' = [posted EXCEPT ![j] = @ \cup {s}]
       /\ announced' \in {announced, [announced EXCEPT ![j] = @ \cup {s}]}
  /\ UNCHANGED <<manifest, pc, found, served, listening>>
\* publish raises, and that ends the job.
PublishRaises(j) ==
  /\ pc[j] = "publish" /\ posted[j] # found[j]
  /\ Goes(j, "failed")
  /\ UNCHANGED <<manifest, found, posted, announced, served, listening>>
Published(j) ==
  /\ pc[j] = "publish" /\ posted[j] = found[j]
  /\ Goes(j, "load")
  /\ UNCHANGED <<manifest, found, posted, announced, served, listening>>

\* run_host_server: the manifest again, all leaves and all files.
Load(j) ==
  LET es == AllEntries(j) IN
  /\ pc[j] = "load"
  /\ IF es # {} /\ HaveLeaves(es) /\ \A e \in es : e.name \notin Missing
     THEN Goes(j, "bind") /\ served' = [served EXCEPT ![j] = ShasOf(es)]
     ELSE Goes(j, "failed") /\ UNCHANGED served
  /\ UNCHANGED <<manifest, found, posted, announced, listening>>

Bind(j) ==
  /\ pc[j] = "bind"
  /\ IF listening[PortOf[j]] = None
     THEN Goes(j, "serving") /\ listening' = [listening EXCEPT ![PortOf[j]] = j]
     ELSE Goes(j, "failed") /\ UNCHANGED listening
  /\ UNCHANGED <<manifest, found, posted, announced, served>>

\* ott adds a file, or another version of one.
Add ==
  /\ \E e \in Added \ Range(manifest) : manifest' = Append(manifest, e)
  /\ UNCHANGED <<pc, found, posted, announced, served, listening>>

-----------------------------------------------------------------------------
(* Properties *)

\* A later entry of the manifest has the name of the one with hash s.
Replaced(s) ==
  \E i, k \in DOMAIN manifest :
    i < k /\ manifest[i].sha = s /\ manifest[k].name = manifest[i].name

\* "fail fast, before announcing anything" and run_host_server ("a 45-file
\* archive silently collapsed to whichever file happened to be last", README,
\* fixed): what a job has announced has its chunk data, and a host that is up
\* serves all of it but what ott has put another version in the place of
\* meanwhile.
AnnouncedIsServed ==
  \A j \in Jobs :
    /\ announced[j] \subseteq Chunked
    /\ pc[j] = "serving" => \A s \in announced[j] : s \in served[j] \/ Replaced(s)

\* The strengthening that the proof uses: what was found has its chunk data and
\* its line in the manifest, which only grows, and is what is announced.
HostingInv ==
  \A j \in Jobs :
    /\ pc[j] = "new" => found[j] = {}
    /\ announced[j] \subseteq found[j] /\ found[j] \subseteq Chunked
    /\ \A s \in found[j] : \E i \in Matching(j) : manifest[i].sha = s
    /\ pc[j] \in {"bind", "serving"} => \A s \in found[j] : s \in served[j] \/ Replaced(s)
=============================================================================
