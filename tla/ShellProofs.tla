------------------------------ MODULE ShellProofs ------------------------------
(***************************************************************************)
(* Theorems about a shell session and the parts it drives: any scripts,    *)
(* any hosts of any archive that grows, any announcements and nodes.       *)
(***************************************************************************)
EXTENDS Shell, SequenceTheorems, TLAPS

(***************************************************************************)
(* Hosting.                                                                *)
(***************************************************************************)

USE ArchiveAssumption, JobsAssumption, NodesAssumption, SessionAssumption

\* Steps of a host's job that have it neither find nor load anything.
LEMMA QuietHosting ==
  ASSUME HostingInv, NEW j \in Jobs, NEW to \in {"publish", "load", "serving", "failed"},
         pc \in [Jobs -> {"new", "publish", "load", "bind", "serving", "failed"}],
         pc[j] # "new", to = "serving" => pc[j] = "bind",
         Goes(j, to) \/ UNCHANGED pc,
         UNCHANGED <<manifest, found, served>>,
         \A k \in Jobs : announced'[k] \subseteq found[k]
  PROVE  HostingInv'
BY DEF HostingInv, Goes, Replaced, Matching

\* An entry that is meant has a hash of the archive.
LEMMA FoundInArchive ==
  ASSUME HostingTypeOK, NEW j \in Jobs
  PROVE  /\ AllEntries(j) \subseteq Archived /\ LastEntry(j) \subseteq AllEntries(j)
         /\ ShasOf(AllEntries(j)) \subseteq Shas /\ ShasOf(Find(j)) \subseteq ShasOf(AllEntries(j))
         /\ \A s \in ShasOf(AllEntries(j)) : \E i \in Matching(j) : manifest[i].sha = s
<1>1. manifest \in Seq(Archived) /\ Matching(j) \subseteq DOMAIN manifest
  BY DEF HostingTypeOK, Matching
<1>2. \A i \in Matching(j) : manifest[i] \in Archived
  BY <1>1, ElementOfSeq, LenProperties
<1>3. LastEntry(j) \subseteq AllEntries(j) /\ AllEntries(j) \subseteq {manifest[i] : i \in Matching(j)}
  BY DEF LastEntry, AllEntries
<1> QED BY <1>2, <1>3 DEF ShasOf, Find, Shas

\* A hash that has its line in the manifest is among those of all entries, or
\* another version has taken its name.
LEMMA LoadedOrReplaced ==
  ASSUME HostingTypeOK, NEW j \in Jobs, NEW i \in Matching(j)
  PROVE  manifest[i].sha \in ShasOf(AllEntries(j)) \/ Replaced(manifest[i].sha)
<1>1. manifest \in Seq(Archived) /\ Matching(j) \subseteq DOMAIN manifest /\ DOMAIN manifest \subseteq Nat
  BY LenProperties DEF HostingTypeOK, Matching
<1>2. CASE \A k \in Matching(j) : manifest[k].name = manifest[i].name => k <= i
  BY <1>2 DEF AllEntries, ShasOf
<1>3. ASSUME NEW k \in Matching(j), manifest[k].name = manifest[i].name, ~(k <= i)
      PROVE  Replaced(manifest[i].sha)
  <2>1. i \in DOMAIN manifest /\ k \in DOMAIN manifest /\ i < k
    BY <1>1, <1>3
  <2> QED BY <1>3, <2>1 DEF Replaced
<1> QED BY <1>2, <1>3

\* Preparing, publishing, loading, binding.
LEMMA JobHosting ==
  ASSUME HostingTypeOK, HostingInv, NEW j \in Jobs,
         Prepare(j) \/ Publish(j) \/ PublishRaises(j) \/ Published(j) \/ Load(j) \/ Bind(j)
  PROVE  HostingTypeOK' /\ HostingInv'
<1>1. /\ pc \in [Jobs -> {"new", "publish", "load", "bind", "serving", "failed"}]
      /\ found \in [Jobs -> SUBSET Shas] /\ posted \in [Jobs -> SUBSET Shas]
      /\ announced \in [Jobs -> SUBSET Shas] /\ served \in [Jobs -> SUBSET Shas]
      /\ \A k \in Jobs : announced[k] \subseteq found[k]
  BY DEF HostingTypeOK, HostingInv
<1>2. CASE Prepare(j)
  <2>1. /\ pc[j] = "new" /\ found[j] = {} /\ announced[j] = {}
        /\ UNCHANGED <<manifest, posted, announced, served, listening>>
    BY <1>2 DEF Prepare, HostingInv
  <2>2. CASE Find(j) # {} /\ HaveLeaves(Find(j))
    <3>1. /\ pc' = [pc EXCEPT ![j] = "publish"]
          /\ found' = [found EXCEPT ![j] = ShasOf(Find(j))]
      BY <1>2, <2>2 DEF Prepare, Goes
    <3>2. ShasOf(Find(j)) \subseteq Shas
      BY FoundInArchive
    <3>3. HostingTypeOK'
      BY <1>1, <2>1, <3>1, <3>2 DEF HostingTypeOK
    <3>4. ShasOf(Find(j)) \subseteq Chunked
      BY <2>2 DEF HaveLeaves
    <3>5. \A s \in ShasOf(Find(j)) : \E i \in Matching(j) : manifest[i].sha = s
      BY FoundInArchive
    <3>6. \A k \in Jobs : /\ found'[k] = IF k = j THEN ShasOf(Find(j)) ELSE found[k]
                          /\ pc'[k] = IF k = j THEN "publish" ELSE pc[k]
      BY <1>1, <3>1
    <3>7. HostingInv'
      BY <2>1, <3>4, <3>5, <3>6 DEF HostingInv, Matching, Replaced
    <3> QED BY <3>3, <3>7
  <2>3. CASE ~(Find(j) # {} /\ HaveLeaves(Find(j)))
    <3>1. pc' = [pc EXCEPT ![j] = "failed"] /\ UNCHANGED found
      BY <1>2, <2>3 DEF Prepare, Goes
    <3>2. HostingTypeOK'
      BY <1>1, <2>1, <3>1 DEF HostingTypeOK
    <3>3. HostingInv'
      BY <1>1, <2>1, <3>1 DEF HostingInv, Matching, Replaced
    <3> QED BY <3>2, <3>3
  <2> QED BY <2>2, <2>3
<1>3. CASE Publish(j)
  <2>1. PICK s \in found[j] \ posted[j] :
          /\ posted' = [posted EXCEPT ![j] = posted[j] \cup {s}]
          /\ announced' \in {announced, [announced EXCEPT ![j] = announced[j] \cup {s}]}
    BY <1>3 DEF Publish
  <2>2. pc[j] = "publish" /\ UNCHANGED <<manifest, pc, found, served, listening>>
    BY <1>3 DEF Publish
  <2>3. HostingTypeOK'
    <3>1. s \in Shas
      BY <1>1, <2>1
    <3>2. posted' \in [Jobs -> SUBSET Shas] /\ announced' \in [Jobs -> SUBSET Shas]
      BY <1>1, <2>1, <3>1
    <3> QED BY <1>1, <2>2, <3>2 DEF HostingTypeOK
  <2>4. \A k \in Jobs : announced'[k] \subseteq found[k]
    BY <1>1, <2>1
  <2> QED BY <1>1, <2>2, <2>3, <2>4, QuietHosting
<1>4. CASE PublishRaises(j) \/ Published(j)
  <2>1. /\ pc[j] = "publish" /\ (Goes(j, "failed") \/ Goes(j, "load"))
        /\ UNCHANGED <<manifest, found, posted, announced, served, listening>>
    BY <1>4 DEF PublishRaises, Published
  <2>2. HostingTypeOK'
    BY <1>1, <2>1 DEF HostingTypeOK, Goes
  <2> QED BY <1>1, <2>1, <2>2, QuietHosting
<1>5. CASE Load(j)
  <2>1. pc[j] = "load" /\ UNCHANGED <<manifest, found, posted, announced, listening>>
    BY <1>5 DEF Load
  <2>2. CASE Goes(j, "bind") /\ served' = [served EXCEPT ![j] = ShasOf(AllEntries(j))]
    <3>1. HostingTypeOK'
      BY <1>1, <2>1, <2>2, FoundInArchive DEF HostingTypeOK, Goes
    <3>2. \A s \in found[j] : s \in ShasOf(AllEntries(j)) \/ Replaced(s)
      BY LoadedOrReplaced DEF HostingInv
    <3>3. \A k \in Jobs : /\ served'[k] = IF k = j THEN ShasOf(AllEntries(j)) ELSE served[k]
                          /\ pc'[k] = IF k = j THEN "bind" ELSE pc[k]
      BY <1>1, <2>2 DEF Goes
    <3>4. HostingInv'
      BY <2>1, <3>2, <3>3 DEF HostingInv, Matching, Replaced
    <3> QED BY <3>1, <3>4
  <2>3. CASE Goes(j, "failed") /\ UNCHANGED served
    <3>1. HostingTypeOK'
      BY <1>1, <2>1, <2>3 DEF HostingTypeOK, Goes
    <3> QED BY <1>1, <2>1, <2>3, <3>1, QuietHosting
  <2> QED BY <1>5, <2>2, <2>3 DEF Load
<1>6. CASE Bind(j)
  <2>1. pc[j] = "bind" /\ UNCHANGED <<manifest, found, posted, announced, served>>
    BY <1>6 DEF Bind
  <2>2. \/ Goes(j, "serving") /\ listening' = [listening EXCEPT ![PortOf[j]] = j]
        \/ Goes(j, "failed") /\ UNCHANGED listening
    BY <1>6 DEF Bind
  <2>3. HostingTypeOK'
    <3>1. listening' \in [Ports -> Jobs \cup {None}]
      BY <2>2 DEF HostingTypeOK
    <3>2. pc' \in [Jobs -> {"new", "publish", "load", "bind", "serving", "failed"}]
      BY <1>1, <2>2 DEF Goes
    <3> QED BY <1>1, <2>1, <3>1, <3>2 DEF HostingTypeOK
  <2> QED BY <1>1, <2>1, <2>2, <2>3, QuietHosting
<1> QED BY <1>2, <1>3, <1>4, <1>5, <1>6

\* The manifest grows: old lines stay where they are.
LEMMA AddHosting ==
  ASSUME HostingTypeOK, HostingInv, Add
  PROVE  HostingTypeOK' /\ HostingInv'
<1>1. PICK e \in Added : manifest' = Append(manifest, e)
  BY DEF Add
<1>2. UNCHANGED <<pc, found, posted, announced, served, listening>>
  BY DEF Add
<1>3. manifest \in Seq(Archived) /\ e \in Archived
  BY DEF HostingTypeOK, Archived
<1>4. HostingTypeOK'
  BY <1>1, <1>2, <1>3, AppendProperties DEF HostingTypeOK
<1>5. DOMAIN manifest \subseteq DOMAIN manifest' /\ \A i \in DOMAIN manifest : manifest'[i] = manifest[i]
  BY <1>1, <1>3, AppendProperties, LenProperties
<1>6. \A s : Replaced(s) => Replaced(s)'
  BY <1>5 DEF Replaced
<1>7. \A j \in Jobs : Matching(j) \subseteq Matching(j)'
  BY <1>5 DEF Matching
<1>8. \A j \in Jobs : \A s : (\E i \in Matching(j) : manifest[i].sha = s)
                       => \E i \in Matching(j)' : manifest'[i].sha = s
  BY <1>5, <1>7 DEF Matching
<1>9. HostingInv'
  BY <1>2, <1>6, <1>8 DEF HostingInv
<1> QED BY <1>4, <1>9

LEMMA InitHosting == HostingInit => HostingTypeOK /\ HostingInv
<1> SUFFICES ASSUME HostingInit PROVE HostingTypeOK /\ HostingInv
  OBVIOUS
<1>1. /\ manifest = Manifest
      /\ \A j \in Jobs : pc[j] = "new" /\ found[j] = {} /\ announced[j] = {}
  BY DEF HostingInit
<1>2. HostingTypeOK
  BY DEF HostingInit, HostingTypeOK
<1>3. HostingInv
  BY <1>1 DEF HostingInv
<1> QED BY <1>2, <1>3

(***************************************************************************)
(* DHT announcements.                                                      *)
(***************************************************************************)

\* Sets are counted from 1 and each announcement has its place among them.
LEMMA PlaceOf ==
  ASSUME DhtTypeOK, DhtInv, NEW a \in Range(sets)
  PROVE  /\ Place(a) \in 1..Len(sets) /\ sets[Place(a)] = a /\ a \in Announces
         /\ \A i \in 1..Len(sets) : sets[i] = a => i = Place(a)
<1>1. sets \in Seq(Announces) /\ DOMAIN sets = 1..Len(sets)
  BY LenProperties DEF DhtTypeOK
<1>2. \E i \in 1..Len(sets) : sets[i] = a
  BY <1>1 DEF Range
<1>3. Place(a) \in 1..Len(sets) /\ sets[Place(a)] = a
  BY <1>2 DEF Place
<1>4. a \in Announces
  BY <1>1, <1>3, ElementOfSeq
<1> QED BY <1>1, <1>3, <1>4 DEF DhtInv

\* A set that comes last has the last place and moves no other.
LEMMA PlacesKept ==
  ASSUME DhtTypeOK, DhtInv, NEW c \in Announces, c \notin Range(sets), sets' = Append(sets, c)
  PROVE  /\ Range(sets)' = Range(sets) \cup {c}
         /\ \A i, k \in DOMAIN sets' : sets'[i] = sets'[k] => i = k
         /\ \A a \in Range(sets) : Place(a)' = Place(a) /\ Place(a) < Place(c)'
         /\ Place(c)' \in Nat
<1>1. /\ sets \in Seq(Announces) /\ Len(sets) \in Nat /\ DOMAIN sets = 1..Len(sets)
      /\ sets' \in Seq(Announces) /\ Len(sets') = Len(sets) + 1 /\ DOMAIN sets' = 1..(Len(sets) + 1)
  BY LenProperties, AppendProperties DEF DhtTypeOK
<1>2. sets'[Len(sets) + 1] = c /\ \A i \in 1..Len(sets) : sets'[i] = sets[i] /\ sets[i] # c
  BY <1>1, AppendProperties DEF Range
<1>3. Range(sets)' = Range(sets) \cup {c}
  BY <1>1, <1>2 DEF Range
<1>4. \A i, k \in DOMAIN sets' : sets'[i] = sets'[k] => i = k
  BY <1>1, <1>2 DEF DhtInv
<1>5. Place(c)' = Len(sets) + 1
  <2>1. \A i \in 1..Len(sets') : sets'[i] = c <=> i = Len(sets) + 1
    BY <1>1, <1>2
  <2>2. Len(sets) + 1 \in 1..Len(sets')
    BY <1>1
  <2> QED BY <2>1, <2>2 DEF Place
<1>6. ASSUME NEW a \in Range(sets) PROVE Place(a)' = Place(a) /\ Place(a) < Place(c)'
  <2>1. Place(a) \in 1..Len(sets) /\ sets[Place(a)] = a
    BY PlaceOf
  <2>2. \A i \in 1..Len(sets') : sets'[i] = a <=> i = Place(a)
    BY <1>1, <1>2, <2>1 DEF DhtInv
  <2>3. Place(a) \in 1..Len(sets')
    BY <1>1, <2>1
  <2>4. Place(a)' = Place(a)
    BY <2>2, <2>3 DEF Place
  <2> QED BY <1>1, <1>5, <2>1, <2>4
<1> QED BY <1>1, <1>3, <1>4, <1>5, <1>6

\* What is said of a list depends on the places and reads of the announcements
\* it knows of.
LEMMA DropKept ==
  ASSUME NEW done, NEW list, OnlyRacesDropFrom(done, list),
         \A a \in done : Place(a)' = Place(a) /\ asof'[a] = asof[a]
  PROVE  OnlyRacesDropFrom(done, list)'
<1>1. \A a, b \in done : (Place(b) <= Place(a))' = (Place(b) <= Place(a)) /\ Overtook(b, a)' = Overtook(b, a)
  BY DEF Overtook
<1>2. \A a \in done : LatestOf(a, done)' <=> LatestOf(a, done)
  BY <1>1 DEF LatestOf
<1> QED BY <1>1, <1>2 DEF OnlyRacesDropFrom, ListsOnly

\* Steps of nodes and of callers.
LEMMA QuietDht ==
  ASSUME DhtTypeOK, DhtInv, UNCHANGED <<stored, got, asof, sets>>,
         \A a \in Announces : co'[a] = "set" => co[a] = "set",
         \A a \in Announces : co[a] = "end" => co'[a] = "end"
  PROVE  DhtInv'
<1>1. \A a : Place(a)' = Place(a)
  BY DEF Place
<1>2. \A a, b : Overtook(b, a)' = Overtook(b, a)
  BY <1>1 DEF Overtook
<1>3. \A done, list : OnlyRacesDropFrom(done, list)' <=> OnlyRacesDropFrom(done, list)
  BY <1>1, <1>2 DEF OnlyRacesDropFrom, ListsOnly, LatestOf
<1>4. Range(sets)' = Range(sets) /\ Range(sets) \subseteq Announces
  BY PlaceOf
<1> QED BY <1>3, <1>4 DEF DhtInv, OnlyRacesDrop

\* An announcement reads what is stored, and all that had set before.
LEMMA GetDht ==
  ASSUME DhtTypeOK, DhtInv, NEW c \in Announces, Get(c)
  PROVE  DhtTypeOK' /\ DhtInv'
<1>1. /\ co[c] = "get" /\ co' = [co EXCEPT ![c] = "set"]
      /\ got' = [got EXCEPT ![c] = stored]
      /\ asof' = [asof EXCEPT ![c] = Range(sets)]
      /\ UNCHANGED <<threads, stored, sets>>
  BY DEF Get
<1>2. Range(sets) \subseteq Announces /\ c \notin Range(sets)
  BY <1>1, PlaceOf DEF DhtInv
<1>3. DhtTypeOK'
  BY <1>1, <1>2 DEF DhtTypeOK, threads
<1>4. \A a \in Announces : /\ asof'[a] = IF a = c THEN Range(sets) ELSE asof[a]
                           /\ got'[a] = IF a = c THEN stored ELSE got[a]
                           /\ co'[a] = IF a = c THEN "set" ELSE co[a]
  BY <1>1 DEF DhtTypeOK
<1>5. \A a \in Range(sets) : Place(a)' = Place(a) /\ asof'[a] = asof[a]
  BY <1>1, <1>2, <1>4 DEF Place
<1>6. OnlyRacesDropFrom(Range(sets), stored)'
  BY <1>5, DropKept, <1>1 DEF DhtInv, OnlyRacesDrop
<1>7. ASSUME NEW a \in Announces, co'[a] = "set"
      PROVE  asof'[a] \subseteq Range(sets)' /\ OnlyRacesDropFrom(asof[a], got[a])'
  <2>1. CASE a = c
    <3>1. asof'[a] = Range(sets)' /\ got'[a] = stored'
      BY <1>1, <1>4, <2>1
    <3>2. OnlyRacesDropFrom(asof[a], got[a])'
      BY <1>6, <3>1 DEF OnlyRacesDropFrom, ListsOnly, LatestOf
    <3> QED BY <3>1, <3>2
  <2>2. CASE a # c
    <3>1. asof[a] \subseteq Range(sets) /\ OnlyRacesDropFrom(asof[a], got[a])
      BY <1>4, <1>7, <2>2 DEF DhtInv
    <3>2. OnlyRacesDropFrom(asof[a], got[a])'
      BY <1>4, <1>5, <2>2, <3>1 DEF OnlyRacesDropFrom, ListsOnly, LatestOf, Overtook
    <3>3. Range(sets)' = Range(sets) /\ asof'[a] = asof[a]
      BY <1>1, <1>4, <2>2
    <3>4. asof'[a] \subseteq Range(sets)'
      BY <3>1, <3>3
    <3> QED BY <3>2, <3>4
  <2> QED BY <2>1, <2>2
<1>8. \A a \in Range(sets)' : co'[a] = "end"
  BY <1>1, <1>2, <1>4 DEF DhtInv
<1>9. DhtInv'
  BY <1>1, <1>6, <1>7, <1>8 DEF DhtInv, OnlyRacesDrop
<1> QED BY <1>3, <1>9

\* A set does not undo what it has read, and overtakes what it has not.
LEMMA MergeKeeps ==
  ASSUME DhtTypeOK, DhtInv, NEW c \in Announces, co[c] = "set",
         sets' = Append(sets, c), stored' = Merged(c), UNCHANGED asof
  PROVE  OnlyRacesDrop'
<1>1. c \notin Range(sets)
  BY DEF DhtInv
<1>2. /\ Range(sets)' = Range(sets) \cup {c}
      /\ \A a \in Range(sets) : Place(a)' = Place(a) /\ Place(a) < Place(c)' /\ Place(a) \in Nat
      /\ Place(c)' \in Nat
  BY <1>1, PlacesKept, PlaceOf
<1>3. \A e \in Entries : stored'[e] = IF e.host # HostOf[c] THEN got[c][e] ELSE IF e = Entry(c) THEN 1 ELSE 0
  BY DEF Merged
<1>4. asof[c] \subseteq Range(sets) /\ OnlyRacesDropFrom(asof[c], got[c])
  BY DEF DhtInv
<1> SUFFICES ASSUME NEW a \in Range(sets)', LatestOf(a, Range(sets))'
             PROVE  \/ ListsOnly(stored, a)'
                    \/ \E b \in Range(sets)' : HostOf[b] # HostOf[a] /\ Overtook(b, a)'
  BY DEF OnlyRacesDrop, OnlyRacesDropFrom
<1>5. CASE a = c
  BY <1>3, <1>5 DEF ListsOnly
<1>6. ASSUME a # c PROVE a \in Range(sets) /\ HostOf[a] # HostOf[c]
  <2>1. a \in Range(sets) /\ c \in Range(sets)'
    BY <1>2, <1>6
  <2>2. ~(Place(c)' <= Place(a)')
    BY <1>2, <2>1
  <2> QED BY <2>1, <2>2 DEF LatestOf
<1>7. CASE a # c /\ a \notin asof[c]
  <2>1. Overtook(c, a)'
    BY <1>2, <1>6, <1>7 DEF Overtook
  <2> QED BY <1>2, <1>6, <1>7, <2>1
<1>8. CASE a # c /\ a \in asof[c]
  <2>1. a \in Range(sets) /\ HostOf[a] # HostOf[c]
    BY <1>6, <1>8
  <2>2. LatestOf(a, asof[c])
    <3>1. \A b \in Range(sets) : HostOf[b] = HostOf[a] => Place(b)' <= Place(a)'
      BY <1>2 DEF LatestOf
    <3> QED BY <1>2, <1>4, <2>1, <3>1 DEF LatestOf
  <2>3. CASE ListsOnly(got[c], a)
    BY <1>3, <2>1, <2>3 DEF ListsOnly
  <2>4. ASSUME NEW b \in asof[c], HostOf[b] # HostOf[a], Overtook(b, a)
        PROVE  b \in Range(sets)' /\ Overtook(b, a)'
    BY <1>2, <1>4, <2>1, <2>4 DEF Overtook
  <2> QED BY <1>4, <1>8, <2>2, <2>3, <2>4 DEF OnlyRacesDropFrom
<1> QED BY <1>5, <1>7, <1>8

LEMMA SetDht ==
  ASSUME DhtTypeOK, DhtInv, NEW c \in Announces, Set(c)
  PROVE  DhtTypeOK' /\ DhtInv'
<1>1. co[c] = "set" /\ co' = [co EXCEPT ![c] = "end"] /\ UNCHANGED <<threads, got, asof>>
  BY DEF Set
<1>2. \A a \in Announces : co'[a] = IF a = c THEN "end" ELSE co[a]
  BY <1>1 DEF DhtTypeOK
<1>3. CASE UNCHANGED <<stored, sets>>
  <2>1. DhtTypeOK'
    BY <1>1, <1>3 DEF DhtTypeOK, threads
  <2> QED BY <1>1, <1>2, <1>3, <2>1, QuietDht
<1>4. CASE stored' = Merged(c) /\ sets' = Append(sets, c)
  <2>1. DhtTypeOK'
    <3>1. stored' \in Lists
      BY <1>4 DEF Merged, Lists, DhtTypeOK
    <3>2. sets' \in Seq(Announces)
      BY <1>4, AppendProperties DEF DhtTypeOK
    <3> QED BY <1>1, <3>1, <3>2 DEF DhtTypeOK, threads
  <2>2. c \notin Range(sets)
    BY <1>1 DEF DhtInv
  <2>3. /\ Range(sets)' = Range(sets) \cup {c}
        /\ \A i, k \in DOMAIN sets' : sets'[i] = sets'[k] => i = k
        /\ \A a \in Range(sets) : Place(a)' = Place(a)
    BY <1>4, <2>2, PlacesKept
  <2>4. OnlyRacesDrop'
    BY <1>1, <1>4, MergeKeeps
  <2>5. ASSUME NEW a \in Announces, co'[a] = "set"
        PROVE  asof'[a] \subseteq Range(sets)' /\ OnlyRacesDropFrom(asof[a], got[a])'
    <3>1. asof[a] \subseteq Range(sets) /\ OnlyRacesDropFrom(asof[a], got[a])
      BY <1>2, <2>5 DEF DhtInv
    <3>2. OnlyRacesDropFrom(asof[a], got[a])'
      BY <1>1, <2>3, <3>1 DEF OnlyRacesDropFrom, ListsOnly, LatestOf, Overtook
    <3> QED BY <1>1, <2>3, <3>1, <3>2
  <2>6. \A a \in Range(sets)' : co'[a] = "end"
    BY <1>2, <2>3, PlaceOf DEF DhtInv
  <2> QED BY <2>1, <2>3, <2>4, <2>5, <2>6 DEF DhtInv
<1> QED BY <1>3, <1>4 DEF Set

LEMMA InitDht == DhtInit => DhtTypeOK /\ DhtInv
<1> SUFFICES ASSUME DhtInit PROVE DhtTypeOK /\ DhtInv
  OBVIOUS
<1>1. DhtTypeOK
  BY EmptySeq DEF DhtInit, DhtTypeOK, Lists
<1>2. Range(sets) = {} /\ DOMAIN sets = {}
  BY DEF DhtInit, Range
<1>3. \A a \in Announces : co[a] = "new"
  BY DEF DhtInit
<1> QED BY <1>1, <1>2, <1>3 DEF DhtInv, OnlyRacesDrop, OnlyRacesDropFrom

\* A call that hands its coroutine to the loop.
LEMMA ScheduleDht ==
  ASSUME DhtTypeOK, DhtInv, NEW a \in Announces, Schedule(a)
  PROVE  DhtTypeOK' /\ DhtInv' /\ UNCHANGED threads
<1>1. /\ co[a] = "new" /\ co' = [co EXCEPT ![a] = "get"]
      /\ UNCHANGED <<threads, stored, got, asof, sets>>
  BY DEF Schedule
<1>2. DhtTypeOK'
  BY <1>1 DEF DhtTypeOK, threads
<1> QED BY <1>1, <1>2, QuietDht DEF DhtTypeOK

\* A node's thread: its flags follow it, the port is its own from listen on, and
\* a loop that runs or is about to goes on.
LEMMA NodeDht ==
  ASSUME DhtTypeOK, DhtInv, ThreadInv, NEW n \in Nodes, StartThread(n) \/ Thread(n)
  PROVE  /\ DhtTypeOK' /\ DhtInv' /\ ThreadInv'
         /\ \A m \in Nodes : node[m] \in {"ready", "running"} =>
              node'[m] \in {"ready", "running"} /\ bound' = bound
<1>1. UNCHANGED lists
  BY DEF StartThread, Thread, Listen, BootstrapRaises, Bootstrapped, RunForever, Tells
<1>2. PICK from, to \in {"new", "listen", "bootstrap", "caught", "told", "ended", "ready", "running"} :
        /\ node[n] = from /\ node' = [node EXCEPT ![n] = to]
        /\ <<from, to>> \in {<<"new", "listen">>, <<"listen", "bootstrap">>, <<"listen", "caught">>,
                             <<"bootstrap", "caught">>, <<"bootstrap", "ready">>,
                             <<"ready", "running">>, <<"caught", "told">>, <<"told", "ended">>}
        /\ error' = IF to = "told" THEN error \cup {n} ELSE error
        /\ ready' = IF to \in {"ready", "ended"} THEN ready \cup {n} ELSE ready
        /\ IF to = "bootstrap" THEN bound = Nobody /\ bound' = n ELSE bound' = bound
  BY DEF StartThread, Thread, Listen, BootstrapRaises, Bootstrapped, RunForever, Tells, Turns
<1>3. \A m \in Nodes : node'[m] = IF m = n THEN to ELSE node[m]
  BY <1>2 DEF DhtTypeOK
<1>4. DhtTypeOK'
  <2>1. node' \in [Nodes -> {"new", "listen", "bootstrap", "caught", "told", "ended", "ready", "running"}]
    BY <1>2 DEF DhtTypeOK
  <2>2. ready' \in SUBSET Nodes /\ error' \in SUBSET Nodes /\ bound' \in Nodes \cup {Nobody}
    BY <1>2 DEF DhtTypeOK
  <2> QED BY <1>1, <2>1, <2>2 DEF DhtTypeOK, lists
<1>5. DhtInv'
  BY <1>1, QuietDht DEF lists
<1>6. ThreadInv'
  BY <1>2, <1>3 DEF ThreadInv, DhtTypeOK
<1>7. \A m \in Nodes : node[m] \in {"ready", "running"} =>
        node'[m] \in {"ready", "running"} /\ bound' = bound
  BY <1>2, <1>3 DEF ThreadInv
<1> QED BY <1>4, <1>5, <1>6, <1>7

\* What the flags say stands while no node moves.
LEMMA ThreadsStand ==
  ASSUME ThreadInv, UNCHANGED threads
  PROVE  ThreadInv' /\ UNCHANGED <<node, ready, error, bound>>
BY DEF ThreadInv, threads

(***************************************************************************)
(* The session.                                                            *)
(***************************************************************************)

\* Nothing happens to nodes and announcements.
LEMMA DhtStands ==
  ASSUME DhtTypeOK, DhtInv, UNCHANGED dht
  PROVE  DhtTypeOK' /\ DhtInv'
<1>1. DhtTypeOK'
  BY DEF dht, threads, lists, DhtTypeOK
<1> QED BY <1>1, QuietDht DEF dht, lists

\* Nothing happens to hosts.
LEMMA HostingStands ==
  ASSUME HostingTypeOK, HostingInv, UNCHANGED hosting
  PROVE  HostingTypeOK' /\ HostingInv'
BY DEF hosting, HostingTypeOK, HostingInv, Matching, Replaced

LEMMA InitShell == Init => ShellInv
BY InitHosting, InitDht DEF Init, DhtInit, ThreadInv, ShellInv, TypeOK, ActiveIsReady

\* The host command and its thread, and the hosts of other processes.
LEMMA HostSession ==
  ASSUME ShellInv, NEW j \in Jobs,
         (j \in Hosted /\ (DoHost(j) \/ HostForeground(j) \/ HostThread(j))) \/ OtherHost(j)
  PROVE  ShellInv'
<1>1. DhtTypeOK' /\ DhtInv' /\ UNCHANGED <<threads, active, script>>
  BY DhtStands DEF ShellInv, TypeOK, DoHost, HostForeground, HostThread, OtherHost, dht
<1>2. HostingTypeOK' /\ HostingInv'
  BY HostingStands, JobHosting DEF ShellInv, TypeOK, DoHost, HostForeground, HostThread, OtherHost
<1>3. fg' \in {fg, "prompt"} \cup Hosted
  BY DEF DoHost, HostForeground, HostThread, OtherHost, Begins, Returns
<1>4. TypeOK'
  BY <1>1, <1>2, <1>3 DEF ShellInv, TypeOK
<1> QED BY <1>1, <1>2, <1>4, ThreadsStand DEF ShellInv, ActiveIsReady

\* The start of a node, its thread, and the wait for it that may be given up:
\* only a node whose thread has passed _setup becomes the active one.
LEMMA NodeSession ==
  ASSUME ShellInv, NEW n \in Nodes, DoDhtStart(n) \/ DhtThread(n) \/ DhtStarted(n)
  PROVE  ShellInv'
<1>1. HostingTypeOK' /\ HostingInv' /\ script' = script
  BY HostingStands DEF ShellInv, TypeOK, DoDhtStart, DhtThread, DhtStarted, hosting
<1>2. CASE DoDhtStart(n) \/ DhtThread(n)
  <2>1. /\ DhtTypeOK' /\ DhtInv' /\ ThreadInv'
        /\ \A m \in Nodes : node[m] \in {"ready", "running"} =>
             node'[m] \in {"ready", "running"} /\ bound' = bound
    BY <1>2, NodeDht DEF ShellInv, TypeOK, DoDhtStart, DhtThread
  <2>2. active' = active /\ fg' \in {fg} \cup Nodes
    BY <1>2 DEF DoDhtStart, DhtThread, Begins
  <2>3. TypeOK'
    BY <1>1, <2>1, <2>2 DEF ShellInv, TypeOK
  <2> QED BY <1>1, <2>1, <2>2, <2>3 DEF ShellInv, ActiveIsReady, TypeOK
<1>3. CASE DhtStarted(n)
  <2>1. DhtTypeOK' /\ DhtInv' /\ UNCHANGED threads
    BY <1>3, DhtStands DEF ShellInv, TypeOK, DhtStarted, dht
  <2>2. active' = IF n \in ready \ error THEN n ELSE active
    BY <1>3 DEF DhtStarted
  <2>5. n \in ready \ error => node[n] \in {"ready", "running"} /\ bound = n
    BY DEF ShellInv, ThreadInv
  <2>3. fg' = "prompt"
    BY <1>3 DEF DhtStarted, Returns
  <2>4. TypeOK'
    BY <1>1, <2>1, <2>2, <2>3 DEF ShellInv, TypeOK
  <2> QED BY <1>1, <2>1, <2>2, <2>4, <2>5, ThreadsStand DEF ShellInv, ActiveIsReady
<1> QED BY <1>2, <1>3

\* Announcements of the session and of peers.
LEMMA AnnounceSession ==
  ASSUME ShellInv, NEW a \in Announces,
         (a \in Mine /\ (DoDhtAnnounce(a) \/ DhtAnnounced(a))) \/ Coroutine(a) \/ PeerAnnounces(a)
  PROVE  ShellInv'
<1>1. HostingTypeOK' /\ HostingInv' /\ UNCHANGED <<active, script>>
  BY HostingStands DEF ShellInv, TypeOK, DoDhtAnnounce, DhtAnnounced, Coroutine, PeerAnnounces
<1>2. DhtTypeOK' /\ DhtInv' /\ UNCHANGED threads
  <2>1. CASE Schedule(a)
    BY <2>1, ScheduleDht DEF ShellInv, TypeOK
  <2>2. CASE Get(a) \/ Set(a)
    BY <2>2, GetDht, SetDht DEF ShellInv, TypeOK, Get, Set
  <2>3. CASE UNCHANGED dht
    BY <2>3, DhtStands DEF ShellInv, TypeOK, dht
  <2> QED BY <2>1, <2>2, <2>3 DEF DoDhtAnnounce, DhtAnnounced, Coroutine, PeerAnnounces
<1>3. fg' \in {fg, "prompt"} \cup Mine
  BY DEF DoDhtAnnounce, DhtAnnounced, Coroutine, PeerAnnounces, Begins, Returns
<1>4. TypeOK'
  BY <1>1, <1>2, <1>3 DEF ShellInv, TypeOK
<1> QED BY <1>1, <1>2, <1>4, ThreadsStand DEF ShellInv, ActiveIsReady

\* The other commands, the end of the session, and an archive that grows.
LEMMA OtherSession ==
  ASSUME ShellInv, DoDhtLookup \/ DoCall \/ Called \/ DoQuit \/ Interrupt \/ Archive \/ UNCHANGED vars
  PROVE  ShellInv'
<1>1. UNCHANGED <<dht, active, script>>
  BY DEF DoDhtLookup, DoCall, Called, DoQuit, Interrupt, Archive, vars
<1>2. DhtTypeOK' /\ DhtInv' /\ UNCHANGED threads
  BY <1>1, DhtStands DEF ShellInv, TypeOK, dht
<1>3. HostingTypeOK' /\ HostingInv'
  BY HostingStands, AddHosting
     DEF ShellInv, TypeOK, DoDhtLookup, DoCall, Called, DoQuit, Interrupt, Archive, vars
<1>4. fg' \in {fg, "prompt", "call", "lookup", "over"}
  BY DEF DoDhtLookup, DoCall, Called, DoQuit, Interrupt, Archive, vars, Begins, Returns
<1>5. TypeOK'
  BY <1>1, <1>2, <1>3, <1>4 DEF ShellInv, TypeOK
<1> QED BY <1>1, <1>2, <1>3, <1>5, ThreadsStand DEF ShellInv, ActiveIsReady

\* Types, what hosts have found, what announcements have read and which node
\* is active: inductive for any scripts, archives, hosts and announcements.
THEOREM ShellInvariant == Spec => []ShellInv
<1>1. ShellInv /\ [Next]_vars => ShellInv'
  <2> SUFFICES ASSUME ShellInv, [Next]_vars PROVE ShellInv'
    OBVIOUS
  <2>1. ASSUME NEW j \in Jobs, (j \in Hosted /\ (DoHost(j) \/ HostForeground(j) \/ HostThread(j))) \/ OtherHost(j)
        PROVE  ShellInv'
    BY <2>1, HostSession
  <2>2. ASSUME NEW n \in Nodes, DoDhtStart(n) \/ DhtThread(n) \/ DhtStarted(n) PROVE ShellInv'
    BY <2>2, NodeSession
  <2>3. ASSUME NEW a \in Announces,
               (a \in Mine /\ (DoDhtAnnounce(a) \/ DhtAnnounced(a))) \/ Coroutine(a) \/ PeerAnnounces(a)
        PROVE  ShellInv'
    BY <2>3, AnnounceSession
  <2>4. CASE DoDhtLookup \/ DoCall \/ Called \/ DoQuit \/ Interrupt \/ Archive \/ UNCHANGED vars
    BY <2>4, OtherSession
  <2> QED BY <2>1, <2>2, <2>3, <2>4 DEF Next
<1> QED BY <1>1, InitShell, PTL DEF Spec

\* The active DHT node holds its port and its loop runs, however late or not at
\* all others start.
THEOREM ActiveNodeRuns == Spec => []ActiveIsReady
<1>1. ShellInv => ActiveIsReady
  BY DEF ShellInv
<1> QED BY <1>1, ShellInvariant, PTL

\* What a host announced has its chunks, and is served by a host that is up
\* unless another version has taken its place in the archive.
THEOREM AnnouncementsAreServed == Spec => []AnnouncedIsServed
<1>1. ShellInv => AnnouncedIsServed
  BY DEF ShellInv, HostingInv, AnnouncedIsServed
<1> QED BY <1>1, ShellInvariant, PTL

\* A listing of the DHT is dropped or revived by a race with an announcement
\* of another host and by nothing else.
THEOREM RacesAloneDrop == Spec => []OnlyRacesDrop
<1>1. ShellInv => OnlyRacesDrop
  BY DEF ShellInv, DhtInv
<1> QED BY <1>1, ShellInvariant, PTL
===============================================================================
