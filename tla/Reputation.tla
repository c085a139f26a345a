------------------------------ MODULE Reputation ------------------------------
(***************************************************************************)
(* ReputationStore of src/poc_reputation.py: what one client knows of      *)
(* other peers, kept in one JSON file.  Every download job, in any process *)
(* or thread of the client, opens a store of its own on that file, adds    *)
(* what it pulled from the relays, records its outcome and saves.          *)
(*                                                                         *)
(* An attestation is named after its payload (attestation_id hashes the    *)
(* payload only).  Times are half-lives, trust and weights are integers    *)
(* with a common scale, and a score is a fraction.                         *)
(***************************************************************************)
EXTENDS Integers, Sequences, SequencesExt

CONSTANTS
  Jobs,         \* users of the file: downloads, and the web UI's reputation request
  Peers, Signers,
  Vouches,      \* attestations
  Arrives,      \* [Jobs -> SUBSET Vouches], what its relays return to a job, in any order
  Genuine,      \* vouches whose signature fits their payload
  SignerOf,     \* [Vouches -> Signers]
  PeerOf,       \* [Vouches -> Peers]
  Passes, Fails, \* [Vouches -> Nat]
  Age,          \* [Vouches -> (-Ahead)..Oldest]: the date is the signer's word
  Oldest,       \* bound on ages, the unit of the weights
  Ahead,        \* bound on how far in the future a vouch is dated
  Revocations,  \* genuine revocations: [by: Signers, of: Vouches]
  Trust,        \* [Signers -> Nat], trust_in_signers
  Outcomes,     \* what record_direct may be told: pairs <<passes, fails>>
  MaxVouches,   \* bound on a store's attestations
  None, Empty, Garbled  \* no record, an empty file, overlapping writes

ASSUME VouchesAssumption ==
  /\ Genuine \subseteq Vouches /\ Arrives \in [Jobs -> SUBSET Vouches]
  /\ SignerOf \in [Vouches -> Signers] /\ PeerOf \in [Vouches -> Peers]
  /\ Passes \in [Vouches -> Nat] /\ Fails \in [Vouches -> Nat]
  /\ Oldest \in Nat /\ Ahead \in Nat /\ Age \in [Vouches -> (-Ahead)..Oldest]
  /\ Revocations \subseteq [by : Signers, of : Vouches]
  /\ Trust \in [Signers -> Nat]
ASSUME OutcomesAssumption == Outcomes \subseteq Nat \X Nat /\ None \notin Outcomes
ASSUME MaxVouchesAssumption == MaxVouches \in Nat

VARIABLES
  pc,     \* what the job does with its store
  store,  \* the job's ReputationStore
  pulled, \* vouches the job has pulled: fetch_verified returns an event once
  file,   \* the JSON file
  \* For the properties:
  kept,   \* peers whose outcome some save() has returned for
  behind, \* jobs that loaded a file that somebody has written since
  race    \* has a save met another job's, or a death inside it?

history == <<kept, behind, race>>
vars == <<pc, store, pulled, file, history>>

Stores == [direct : [Peers -> Outcomes \cup {None}],
           attestations : Seq(Vouches), revocations : Seq(Revocations)]
ASSUME MarkersAssumption ==
  /\ Empty # None /\ Garbled # None /\ Empty # Garbled
  /\ {None, Empty, Garbled} \cap Stores = {}
Fresh == [direct |-> [p \in Peers |-> None], attestations |-> <<>>, revocations |-> <<>>]

TypeOK ==
  /\ pc \in [Jobs -> {"closed", "open", "saving", "failed"}]
  /\ store \in [Jobs -> Stores]
  /\ pulled \in [Jobs -> SUBSET Vouches]
  /\ file \in Stores \cup {None, Empty, Garbled}
  /\ kept \in SUBSET Peers /\ behind \in SUBSET Jobs /\ race \in BOOLEAN

Init ==
  /\ pc = [j \in Jobs |-> "closed"]
  /\ store = [j \in Jobs |-> Fresh]
  /\ pulled = [j \in Jobs |-> {}]
  /\ file = None
  /\ kept = {} /\ behind = {} /\ race = FALSE

Goto(j, where) == pc' = [pc EXCEPT ![j] = where]
Loads(f) == f \notin {Empty, Garbled}

(***************************************************************************)
(* trust_score.                                                            *)
(***************************************************************************)
Zero == <<0, 1>>
Plus(x, y) == <<x[1] * y[2] + y[1] * x[2], x[2] * y[2]>>
Leq(x, y)  == x[1] * y[2] <= y[1] * x[2]
Same(x, y) == x[1] * y[2] = y[1] * x[2]
Share(p, f) == IF p + f = 0 THEN Zero ELSE <<p, p + f>>

Record(v) == Share(Passes[v], Fails[v])

\* attestation_weight halves with every half-life: in units of the weight that
\* a vouch has in the end, it doubles with every half-life it is younger.  Nothing
\* stops at the present: a vouch dated in the future weighs more than a new one.
Span == Oldest + Ahead
Doubled[n \in 0..Span] == IF n = 0 THEN 1 ELSE 2 * Doubled[n - 1]
Weight(v) == Trust[SignerOf[v]] * Doubled[Oldest - Age[v]]

Revoked(s) == {r.of : r \in Range(s.revocations)}
\* The vouches for p that the loop does not leave out or skip.
Counted(s, p) ==
  {v \in Range(s.attestations) : PeerOf[v] = p /\ v \notin Revoked(s) /\ Trust[SignerOf[v]] > 0}

\* Mutant of AddTerm: the weighted sum is divided by the number of vouches.
AddTermByCount(sums, v) ==
  [num |-> Plus(<<Weight(v) * Record(v)[1], Record(v)[2]>>, sums.num), den |-> sums.den + 1]
\* What an iteration adds to the weighted sum and to the weights.
AddTerm(sums, v) ==
  [num |-> Plus(<<Weight(v) * Record(v)[1], Record(v)[2]>>, sums.num),
   den |-> sums.den + Weight(v)]

\* num and den after n iterations over the attestations vs.
Sums(vs, counted) ==
  LET sums[n \in 0..Len(vs)] ==
        IF n = 0 THEN [num |-> Zero, den |-> 0]
        ELSE IF vs[n] \in counted THEN AddTerm(sums[n - 1], vs[n]) ELSE sums[n - 1]
  IN  sums

\* Direct experience, else the weighted mean of what counts, else nothing.
Score(s, p) ==
  IF s.direct[p] # None THEN Share(s.direct[p][1], s.direct[p][2])
  ELSE LET all == Sums(s.attestations, Counted(s, p))[Len(s.attestations)]
       IN  IF all.den = 0 THEN Zero ELSE <<all.num[1], all.num[2] * all.den>>

(***************************************************************************)
(* The store and its file.                                                 *)
(***************************************************************************)

Saving == {j \in Jobs : pc[j] = "saving"}

\* Mutant of Loaded: what the file says is not taken over.
LoadedNothing == Fresh
Loaded == IF Loads(file) /\ file # None THEN file ELSE Fresh

\* __init__ and _load; json.load raises on what is not a document.
Open(j) ==
  /\ pc[j] = "closed"
  /\ store' = [store EXCEPT ![j] = Loaded]
  /\ Goto(j, IF Loads(file) THEN "open" ELSE "failed")
  /\ behind' = behind \ {j} /\ race' = (race \/ Saving # {})
  /\ UNCHANGED <<pulled, file, kept>>

AddAttestation(j, v) ==
  /\ pc[j] = "open"
  /\ v \in Arrives[j] \cap Genuine
  /\ v \notin pulled[j] /\ Len(store[j].attestations) < MaxVouches
  /\ store' = [store EXCEPT ![j].attestations = Append(@, v)]
  /\ pulled' = [pulled EXCEPT ![j] = @ \cup {v}]
  /\ UNCHANGED <<pc, file, history>>

\* Mutant of MayRevoke: anyone may.
Anyone(s, r) == Contains(s.attestations, r.of)
MayRevoke(s, r) == Contains(s.attestations, r.of) /\ SignerOf[r.of] = r.by

\* Only of a vouch the store has, by that vouch's signer.  (A revocation
\* that is there already would only be listed twice: left out as a bound.)
AddRevocation(j, r) ==
  /\ pc[j] = "open"
  /\ MayRevoke(store[j], r)
  /\ r.of \notin Revoked(store[j])
  /\ store' = [store EXCEPT ![j].revocations = Append(@, r)]
  /\ UNCHANGED <<pc, pulled, file, history>>

RecordDirect(j, p, outcome) ==
  /\ pc[j] = "open"
  /\ store' = [store EXCEPT ![j].direct[p] = outcome]
  /\ UNCHANGED <<pc, pulled, file, history>>

\* save: open(path, 'w') empties the file, json.dump fills it.
SaveTruncate(j) ==
  /\ pc[j] = "open"
  /\ file' = Empty
  /\ Goto(j, "saving")
  /\ race' = (race \/ j \in behind \/ Saving # {})
  /\ behind' = {i \in Jobs \ {j} : pc[i] = "open"} \cup behind
  /\ UNCHANGED <<store, pulled, kept>>

\* If another job has written since, this one's document overlays that one:
\* whichever is longer shows through.
SaveWrite(j) ==
  /\ pc[j] = "saving"
  /\ \/ file' = store[j]
     \/ file # Empty /\ file' = Garbled
  /\ kept' = kept \cup {p \in Peers : store[j].direct[p] # None}
  /\ Goto(j, "open")
  /\ UNCHANGED <<store, pulled, behind, race>>

\* The job is over, or its process dies.
Leave(j) ==
  /\ pc[j] # "closed"
  /\ store' = [store EXCEPT ![j] = Fresh]
  /\ pulled' = [pulled EXCEPT ![j] = {}]
  /\ Goto(j, "closed")
  /\ behind' = behind \ {j} /\ race' = (race \/ j \in Saving)
  /\ UNCHANGED <<file, kept>>

Use(j) ==
  \/ Open(j) \/ SaveTruncate(j) \/ SaveWrite(j) \/ Leave(j)
  \/ \E v \in Vouches : AddAttestation(j, v)
  \/ \E r \in Revocations : AddRevocation(j, r)
  \/ \E p \in Peers, outcome \in Outcomes : RecordDirect(j, p, outcome)

Next == \E j \in Jobs : Use(j)
Spec == Init /\ [][Next]_vars

(***************************************************************************)
(* Properties.                                                             *)
(***************************************************************************)

\* A peer's score moves for one of three reasons: own experience with it, a
\* genuine vouch for it by a signer the client trusts, or the withdrawal of
\* one by its own signer; and once there is own experience, for that alone.
\* An untrusted signer, a tampered vouch or somebody else's revocation does
\* not move it.
New(j, field) == Range(store'[j][field]) \ Range(store[j][field])
Vouched(j, p) ==
  /\ Len(store'[j].attestations) > Len(store[j].attestations)
  /\ LET v == Last(store'[j].attestations) IN
     v \in Genuine /\ PeerOf[v] = p /\ Trust[SignerOf[v]] > 0
Withdrawn(j, p) ==
  \E r \in New(j, "revocations") :
    PeerOf[r.of] = p /\ r.by = SignerOf[r.of] /\ Trust[r.by] > 0
ScoreMovesForAReason ==
  [][\A j \in Jobs, p \in Peers :
       pc[j] = "open" /\ pc'[j] # "closed" /\ ~Same(Score(store[j], p), Score(store'[j], p)) =>
         \/ store[j].direct[p] # store'[j].direct[p]
         \/ store[j].direct[p] = None /\ (Vouched(j, p) \/ Withdrawn(j, p))]_vars

\* Without own experience a score lies between the worst and the best of
\* the vouches of trusted signers that nobody withdrew, however often one of
\* them was pulled, saved, loaded and pulled again.
Standing(s, p) ==
  {v \in Range(s.attestations) :
     PeerOf[v] = p /\ Trust[SignerOf[v]] > 0 /\ ~\E r \in Range(s.revocations) : r.of = v}
ScoreIsAMean ==
  \A j \in Jobs, p \in Peers :
    LET s == store[j] IN
    s.direct[p] = None =>
      IF Standing(s, p) = {} THEN Same(Score(s, p), Zero)
      ELSE /\ \E v \in Standing(s, p) : Leq(Record(v), Score(s, p))
           /\ \E v \in Standing(s, p) : Leq(Score(s, p), Record(v))

\* "so the next auction for this host starts from real history": as long as
\* no save meets another job's load or save and nobody dies inside one, the
\* file can be read and holds every outcome that was saved, whatever other
\* jobs have open in the meantime.
OnlyRacesLoseHistory ==
  ~race =>
    /\ \A j \in Jobs : pc[j] # "failed"
    /\ Saving = {} => /\ Loads(file)
                      /\ \A p \in kept : file # None /\ file.direct[p] # None

\* The strengthening that the proof uses: without a race there is one save at a
\* time, while the file is empty and everybody else's copy is out of date; and
\* the file, and every copy that is not, has what was saved.
KeepsAll(s) == \A p \in kept : s.direct[p] # None
StoreInv ==
  ~race =>
    /\ \A j \in Jobs : pc[j] # "failed"
    /\ \A i, j \in Saving : i = j
    /\ IF Saving = {} THEN (file = None /\ kept = {}) \/ (file \in Stores /\ KeepsAll(file))
       ELSE file = Empty /\ \A j \in Jobs : pc[j] = "open" => j \in behind
    /\ \A j \in Jobs :
         /\ pc[j] = "saving" => j \notin behind
         /\ pc[j] \in {"open", "saving"} /\ j \notin behind => KeepsAll(store[j])
=============================================================================
