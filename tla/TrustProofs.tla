------------------------------ MODULE TrustProofs ------------------------------
(***************************************************************************)
(* Theorems about whom a client trusts and what it keeps for that: the     *)
(* trust it gives to keys (build_trust_graph of src/node.py), for any      *)
(* subscribes; its own key file (load_or_create_identity of src/node.py),  *)
(* for any number of calls; its reputation store (src/poc_reputation.py),  *)
(* for any number of jobs and vouches; and the scores that the store gives *)
(* (trust_score), for any sequence of vouches, repeated or not.            *)
(***************************************************************************)
EXTENDS TrustGraph, Identity, Reputation, SequenceTheorems, WellFoundedInduction, TLAPS

\* Induction on the natural numbers, for a set of counterexamples.
LEMMA LeastNatural ==
  ASSUME NEW T, T \subseteq Nat, T # {}
  PROVE  \E n \in T : \A m \in T : n <= m
<1> DEFINE R == OpToRel(<, Nat)
<1>1. PICK n \in T : \A m \in T : <<m, n>> \notin R
  BY WFMin, NatLessThanWellFounded
<1>2. \A m \in T : ~(m < n)
  BY <1>1 DEF OpToRel
<1> HIDE DEF R
<1>3. \A m \in T : n <= m
  BY <1>2
<1> QED BY <1>3

(***************************************************************************)
(* The trust graph.                                                        *)
(***************************************************************************)

LEMMA InitSearch == SearchInit => SearchInv
BY RootAssumption, MaxHopsAssumption, GraphsAssumption
   DEF SearchInit, SearchInv, SearchTypeOK, Frontiers, FrontiersCoverHops, Expanded, SeenIsTrusted

LEMMA StartHopSearch ==
  ASSUME SearchInv, StartHop
  PROVE  SearchInv'
<1> USE RootAssumption, MaxHopsAssumption
<1>1. SearchTypeOK'
  BY DEF SearchInv, SearchTypeOK, StartHop
<1>2. Frontiers'
  BY DEF SearchInv, SearchTypeOK, Frontiers, StartHop
<1>3. FrontiersCoverHops'
  BY DEF SearchInv, SearchTypeOK, Frontiers, FrontiersCoverHops, Expanded, StartHop
<1>4. SeenIsTrusted'
  BY DEF SearchInv, SearchTypeOK, SeenIsTrusted, StartHop
<1> QED BY <1>1, <1>2, <1>3, <1>4 DEF SearchInv

LEMMA ExpandSearch ==
  ASSUME SearchInv, NEW a \in Keys, Expand(a)
  PROVE  SearchInv'
<1> USE RootAssumption, MaxHopsAssumption
<1> DEFINE new == Targets(a) \ seen
<1>1. /\ a \in todo /\ a \in seen /\ trust[a] = hop - 1 /\ hop \in Nat \ {0}
      /\ new \in SUBSET Keys
      /\ \A k \in Keys : k \in new <=> <<a, k>> \in edges /\ k \notin seen
  BY DEF SearchInv, SearchTypeOK, Frontiers, Expand, Targets
<1>2. /\ seen' = seen \cup new /\ next' = next \cup new /\ todo' = todo \ {a}
      /\ UNCHANGED <<edges, hop>>
      /\ trust' = [k \in Keys |-> IF k \in new THEN hop ELSE trust[k]]
  BY DEF Expand
<1> HIDE DEF new
<1>3. SearchTypeOK'
  BY <1>1, <1>2 DEF SearchInv, SearchTypeOK
<1>4. \A k \in seen : k \in Keys /\ trust'[k] = trust[k]
  BY <1>1, <1>2 DEF SearchInv, SearchTypeOK
<1>5. \A k \in new : k \in Keys /\ trust'[k] = hop
  BY <1>1, <1>2 DEF SearchInv, SearchTypeOK
<1>6. Frontiers'
  BY <1>1, <1>2, <1>4, <1>5 DEF SearchInv, SearchTypeOK, Frontiers
<1>7. FrontiersCoverHops'
  <2>1. ASSUME NEW k \in Keys, k \in seen', trust'[k] = hop' PROVE k \in next'
    <3>1. CASE k \in new
      BY <3>1, <1>2
    <3>2. CASE k \in seen
      <4>1. trust[k] = hop
        BY <2>1, <3>2, <1>2, <1>4
      <4> QED BY <4>1, <3>2, <1>2 DEF SearchInv, FrontiersCoverHops
    <3> QED BY <2>1, <3>1, <3>2, <1>2
  <2>2. ASSUME NEW x \in Keys, NEW y \in Keys, Expanded(x)', <<x, y>> \in edges'
        PROVE  y \in seen' /\ trust'[y] <= trust'[x] + 1
    <3>1. x \in seen /\ x \notin new /\ trust'[x] = trust[x] /\ (Expanded(x) \/ x = a)
      BY <2>2, <1>2, <1>4 DEF Expanded
    <3>2. CASE Expanded(x)
      <4>1. y \in seen /\ trust[y] <= trust[x] + 1
        BY <2>2, <3>2, <1>2 DEF SearchInv, FrontiersCoverHops
      <4> QED BY <4>1, <3>1, <1>2, <1>4
    <3>3. CASE x = a
      <4>1. y \in seen \cup new
        BY <2>2, <3>3, <1>1, <1>2
      <4>2. trust'[y] <= hop
        BY <4>1, <1>3, <1>4, <1>5, <1>1 DEF SearchInv, SearchTypeOK, Frontiers
      <4> QED BY <4>1, <4>2, <3>3, <1>1, <1>2, <1>4
    <3> QED BY <3>1, <3>2, <3>3
  <2> QED BY <2>1, <2>2 DEF FrontiersCoverHops
<1>8. SeenIsTrusted'
  <2>1. Root \in seen' /\ trust'[Root] = 0
    BY <1>2, <1>4 DEF SearchInv, SeenIsTrusted
  <2>2. \A k \in Keys \ {Root} : k \in seen' <=> trust'[k] > 0
    BY <1>1, <1>2, <1>4, <1>5 DEF SearchInv, SearchTypeOK, SeenIsTrusted
  <2>3. ASSUME NEW k \in Keys \ {Root}, k \in seen'
        PROVE  \E b \in Keys : b \in seen' /\ <<b, k>> \in edges' /\ trust'[k] = trust'[b] + 1
    <3>1. CASE k \in seen
      <4>1. PICK b \in Keys : b \in seen /\ <<b, k>> \in edges /\ trust[k] = trust[b] + 1
        BY <3>1 DEF SearchInv, SeenIsTrusted
      <4> QED BY <4>1, <3>1, <1>2, <1>4
    <3>2. CASE k \in new
      <4>1. <<a, k>> \in edges' /\ trust'[k] = hop
        BY <3>2, <1>1, <1>2, <1>5
      <4>2. a \in seen' /\ trust'[a] + 1 = hop
        <5>1. trust'[a] = trust[a] /\ a \in seen'
          BY <1>1, <1>2, <1>4
        <5> QED BY <5>1, <1>1
      <4> QED BY <4>1, <4>2
    <3> QED BY <3>1, <3>2, <2>3, <1>2
  <2> QED BY <2>1, <2>2, <2>3 DEF SeenIsTrusted
<1> QED BY <1>3, <1>6, <1>7, <1>8 DEF SearchInv

\* build_trust_graph always stands in the strengthening that relates what is
\* seen, what waits in a frontier and the hop that reached each key.
THEOREM SearchInvariant == SearchSpec => []SearchInv
<1>1. SearchInv /\ [SearchNext]_searchVars => SearchInv'
  <2> SUFFICES ASSUME SearchInv, [SearchNext]_searchVars PROVE SearchInv'
    OBVIOUS
  <2>1. CASE StartHop
    BY <2>1, StartHopSearch
  <2>2. ASSUME NEW a \in Keys, Expand(a) PROVE SearchInv'
    BY <2>2, ExpandSearch
  <2>3. CASE UNCHANGED searchVars
    BY <2>3 DEF searchVars, SearchInv, SearchTypeOK, Frontiers, FrontiersCoverHops, Expanded, SeenIsTrusted
  <2> QED BY <2>1, <2>2, <2>3 DEF SearchNext
<1> QED BY <1>1, InitSearch, PTL DEF SearchSpec

\* Keys that nobody outside their set subscribes to gain no trust: a sybil
\* ring is worth what real subscribes into it are worth.
THEOREM NoSybilTrust == SearchSpec => []SybilsGetNothing
<1>1. SearchInv => SybilsGetNothing
  <2> SUFFICES ASSUME SearchInv, NEW S \in SUBSET (Keys \ {Root}),
                      \A e \in edges : e[2] \in S => e[1] \in S,
                      NEW s \in S, trust[s] # 0
               PROVE  FALSE
    BY DEF SybilsGetNothing
  <2> DEFINE T == {n \in Nat : \E k \in S : trust[k] = n /\ n > 0}
  <2>1. trust[s] \in T
    BY DEF SearchInv, SearchTypeOK
  <2>2. PICK n \in T : \A m \in T : n <= m
    BY <2>1, LeastNatural
  <2>3. PICK k \in S : trust[k] = n /\ n > 0
    BY <2>2
  <2>4. PICK a \in Keys : a \in seen /\ <<a, k>> \in edges /\ trust[k] = trust[a] + 1
    BY <2>3 DEF SearchInv, SeenIsTrusted
  <2>5. a \in S
    BY <2>4
  <2>6. trust[a] \in Nat /\ trust[a] > 0
    BY <2>4, <2>5 DEF SearchInv, SeenIsTrusted, SearchTypeOK
  <2>7. trust[a] \in T /\ trust[a] < n
    BY <2>3, <2>4, <2>5, <2>6
  <2> QED BY <2>2, <2>3, <2>6, <2>7
<1> QED BY <1>1, SearchInvariant, PTL

\* A key with trust has a chain of as many subscribes as its hop says.
LEMMA TrustHasWalk ==
  ASSUME SearchInv, NEW k \in Keys, k \in seen
  PROVE  Reaches(k, trust[k])
<1> DEFINE Bad(j) == j \in seen /\ ~Reaches(j, trust[j])
           T == {n \in Nat : \E j \in Keys : trust[j] = n /\ Bad(j)}
<1> SUFFICES ASSUME Bad(k) PROVE FALSE
  OBVIOUS
<1>1. trust[k] \in T
  BY DEF SearchInv, SearchTypeOK
<1>2. PICK n \in T : \A m \in T : n <= m
  <2> HIDE DEF T
  <2> QED BY <1>1, LeastNatural DEF T
<1>3. PICK j \in Keys : trust[j] = n /\ Bad(j)
  BY <1>2
<1>4. CASE j = Root
  <2> DEFINE w == [i \in 0..0 |-> Root]
  <2>1. n = 0
    BY <1>3, <1>4 DEF SearchInv, SeenIsTrusted
  <2>2. w \in [0..0 -> Keys] /\ Walk(w, Root, 0)
    BY RootAssumption DEF Walk
  <2> QED BY <1>3, <1>4, <2>1, <2>2 DEF Reaches
<1>5. CASE j # Root
  <2>1. PICK a \in Keys : a \in seen /\ <<a, j>> \in edges /\ trust[j] = trust[a] + 1
    BY <1>3, <1>5 DEF SearchInv, SeenIsTrusted
  <2>2. trust[a] \in Nat /\ n \in Nat /\ n = trust[a] + 1
    BY <2>1, <1>3 DEF SearchInv, SearchTypeOK
  <2>3. Reaches(a, trust[a])
    <3> SUFFICES ASSUME ~Reaches(a, trust[a]) PROVE FALSE
      OBVIOUS
    <3>1. trust[a] \in T
      BY <2>1, <2>2
    <3> HIDE DEF T
    <3> QED BY <3>1, <2>2, <1>2
  <2>4. PICK w \in [0..trust[a] -> Keys] : Walk(w, a, trust[a])
    BY <2>3 DEF Reaches
  <2> DEFINE v == [i \in 0..n |-> IF i = n THEN j ELSE w[i]]
  <2>5. v \in [0..n -> Keys]
    BY <2>2, <2>4
  <2>6. v[0] = Root /\ v[n] = j
    BY <2>2, <2>4 DEF Walk
  <2>7. \A i \in 0..(n - 1) : <<v[i], v[i + 1]>> \in edges
    <3> SUFFICES ASSUME NEW i \in 0..(n - 1) PROVE <<v[i], v[i + 1]>> \in edges
      OBVIOUS
    <3>1. CASE i = n - 1
      <4>1. v[i] = w[trust[a]] /\ v[i + 1] = j
        BY <3>1, <2>2
      <4> QED BY <4>1, <2>1, <2>4 DEF Walk
    <3>2. CASE i # n - 1
      <4>1. i \in 0..(trust[a] - 1) /\ v[i] = w[i] /\ v[i + 1] = w[i + 1]
        BY <3>2, <2>2
      <4> QED BY <4>1, <2>4 DEF Walk
    <3> QED BY <3>1, <3>2
  <2>8. Reaches(j, n)
    <3> HIDE DEF v
    <3> QED BY <2>5, <2>6, <2>7 DEF Walk, Reaches
  <2> QED BY <2>8, <1>3
<1> QED BY <1>4, <1>5

\* When the search is done, every chain of at most MaxHops subscribes has
\* been followed, and no key is farther than its shortest chain.
LEMMA WalkIsFollowed ==
  ASSUME SearchInv, Done, NEW k \in Keys, NEW len \in 0..MaxHops, Reaches(k, len)
  PROVE  k \in seen /\ trust[k] <= len
<1> DEFINE Good(j, n) == j \in seen /\ trust[j] <= n
           T == {n \in Nat : n <= MaxHops /\ \E j \in Keys : Reaches(j, n) /\ ~Good(j, n)}
<1> SUFFICES ASSUME ~Good(k, len) PROVE FALSE
  OBVIOUS
<1>1. len \in T
  BY MaxHopsAssumption
<1>2. PICK n \in T : \A m \in T : n <= m
  <2> HIDE DEF T
  <2> QED BY <1>1, LeastNatural DEF T
<1>3. PICK j \in Keys : Reaches(j, n) /\ ~Good(j, n)
  BY <1>2
<1>4. n \in Nat /\ n <= MaxHops
  BY <1>2
<1>5. PICK w \in [0..n -> Keys] : Walk(w, j, n)
  BY <1>3 DEF Reaches
<1>6. CASE n = 0
  BY <1>3, <1>5, <1>6 DEF Walk, SearchInv, SeenIsTrusted
<1>7. CASE n > 0
  <2> DEFINE p == w[n - 1]
             v == [i \in 0..(n - 1) |-> w[i]]
  <2>1. p \in Keys /\ <<p, j>> \in edges
    BY <1>4, <1>5, <1>7 DEF Walk
  <2>2. v \in [0..(n - 1) -> Keys] /\ Walk(v, p, n - 1)
    BY <1>4, <1>5, <1>7 DEF Walk
  <2>3. Reaches(p, n - 1)
    BY <2>2 DEF Reaches
  <2>4. Good(p, n - 1)
    <3> SUFFICES ASSUME ~Good(p, n - 1) PROVE FALSE
      OBVIOUS
    <3>1. n - 1 \in T
      BY <2>1, <2>3, <1>4, <1>7, MaxHopsAssumption
    <3> HIDE DEF T
    <3> QED BY <3>1, <1>2, <1>4
  <2>5. Expanded(p)
    BY <2>1, <2>4, <1>4, MaxHopsAssumption
       DEF Done, Expanded, SearchInv, Frontiers, SearchTypeOK
  <2>6. j \in seen /\ trust[j] <= trust[p] + 1
    BY <2>1, <2>5 DEF SearchInv, FrontiersCoverHops
  <2>7. trust[p] \in Nat /\ trust[j] \in Nat
    BY <2>1, <1>3 DEF SearchInv, SearchTypeOK
  <2> QED BY <2>4, <2>6, <2>7, <1>3, <1>4
<1> QED BY <1>4, <1>6, <1>7

\* The trust of a key is decay to the length of its shortest chain of
\* subscribes from the client, and only that.
THEOREM TrustIsShortestPath == SearchSpec => []ShortestPath
<1>1. SearchInv => ShortestPath
  <2> SUFFICES ASSUME SearchInv, Done PROVE ShortestPath
    BY DEF ShortestPath
  <2>1. trust[Root] = 0
    BY DEF SearchInv, SeenIsTrusted
  <2>2. ASSUME NEW k \in Keys, trust[k] > 0 PROVE Reaches(k, trust[k])
    <3>1. k # Root
      BY <2>1, <2>2
    <3>2. k \in seen
      BY <2>2, <3>1 DEF SearchInv, SeenIsTrusted
    <3> QED BY <3>2, TrustHasWalk
  <2>3. ASSUME NEW k \in Keys \ {Root}, NEW n \in 0..MaxHops, Reaches(k, n)
        PROVE  trust[k] \in 1..n
    <3>1. k \in seen /\ trust[k] <= n
      BY <2>3, WalkIsFollowed
    <3>2. trust[k] > 0 /\ trust[k] \in Nat
      BY <3>1 DEF SearchInv, SeenIsTrusted, SearchTypeOK
    <3> QED BY <3>1, <3>2, MaxHopsAssumption
  <2> QED BY <2>1, <2>2, <2>3 DEF ShortestPath
<1> QED BY <1>1, SearchInvariant, PTL

(***************************************************************************)
(* The key file.                                                           *)
(***************************************************************************)

\* A call that has a key in hand, and one that reads, have one to give.
KeyInHand ==
  \A c \in Calls :
    /\ callPc[c] = "read" => keyFile # Absent
    /\ callPc[c] \in {"open", "write", "key"} => key[c] \in RealKeys \cup {NoKey}

\* While no call overlaps another or is killed, the file goes from what it
\* was at first to the armor of one key, which every call then returns.
CalmFile ==
  calm =>
    /\ Raised = {}
    /\ \A c, d \in Running : c = d
    /\ keyFile.kind \in {"raw", "armored"} =>
         keyFile.key \in RealKeys /\ (original # Unset => keyFile.key = original)
    /\ keyFile.kind # "mixed"
    /\ keyFile.kind = "absent" => original = Unset
    /\ keyFile.kind = "empty" => \E c \in Calls : callPc[c] = "write"
    /\ \A c \in Calls :
         /\ callPc[c] \in {"key", "returned"} => keyFile = Armored(key[c]) /\ key[c] \in RealKeys
         /\ callPc[c] \in {"open", "write"} =>
              /\ keyFile.kind # "armored"
              /\ key[c] \in RealKeys /\ (original # Unset => key[c] = original)

IdentityInv == KeyTypeOK /\ KeyInHand /\ CalmFile

LEMMA FileFields ==
  ASSUME keyFile \in Files
  PROVE  /\ keyFile.key \in RealKeys \cup {NoKey, Unset}
         /\ keyFile # Absent => keyFile.key \in RealKeys \cup {NoKey}
         /\ keyFile.kind = "absent" <=> keyFile = Absent
         /\ keyFile.kind = "armored" => keyFile = Armored(keyFile.key)
         /\ keyFile.kind \in {"absent", "empty", "raw", "armored", "mixed"}
BY DEF Files, Absent, EmptyFile, Mixed, Raw, Armored, RealKeys

\* load_or_create_identity: types, keys in hand and the calm file are kept by
\* every step of every call.
THEOREM IdentityInvariant == KeySpec => []IdentityInv
<1> USE NamesAssumption, BoundsAssumption
<1>1. KeyInit => IdentityInv
  <2> SUFFICES ASSUME KeyInit PROVE IdentityInv
    OBVIOUS
  <2>1. KeyTypeOK
    BY DEF KeyInit, KeyTypeOK, Files, Ended, RealKeys, Absent
  <2>2. KeyInHand
    BY DEF KeyInit, KeyInHand
  <2>3. CalmFile
    BY DEF KeyInit, CalmFile, Raised, Running, Ended, Absent, Raw, RealKeys
  <2> QED
    BY <2>1, <2>2, <2>3 DEF IdentityInv
<1>2. IdentityInv /\ [KeyNext]_keyVars => IdentityInv'
  <2> SUFFICES ASSUME IdentityInv, [KeyNext]_keyVars PROVE IdentityInv'
    OBVIOUS
  <2> USE DEF IdentityInv, KeyTypeOK, KeyInHand, Ended, Running
  <2>a. /\ keyFile.key \in RealKeys \cup {NoKey, Unset}
        /\ keyFile # Absent => keyFile.key \in RealKeys \cup {NoKey}
        /\ keyFile.kind = "absent" <=> keyFile = Absent
        /\ keyFile.kind = "armored" => keyFile = Armored(keyFile.key)
        /\ keyFile.kind \in {"absent", "empty", "raw", "armored", "mixed"}
    BY FileFields
  <2>b. \A k \in RealKeys \cup {NoKey} : Armored(k) \in Files
    BY DEF Files
  <2>c. EmptyFile \in Files /\ Mixed \in Files /\ Absent # EmptyFile /\ Absent # Mixed
    BY DEF Files, EmptyFile, Mixed, Absent
  <2>d. \A k \in RealKeys \cup {NoKey} : Armored(k) # Absent /\ Armored(k).kind = "armored" /\ Armored(k).key = k
    BY DEF Armored, Absent
  <2>1. ASSUME NEW c \in Calls, Start(c) PROVE IdentityInv'
    <3>1. KeyTypeOK' /\ KeyInHand'
      BY <2>1 DEF Start, RealKeys
    <3>2. SUFFICES ASSUME calm' PROVE CalmFile'
      BY <3>1 DEF CalmFile
    <3>3. calm /\ Running = {} /\ UNCHANGED <<keyFile, original>>
      BY <2>1, <3>2 DEF Start
    <3>4. \A d \in Calls : callPc[d] \in {"new"} \cup Ended
      BY <3>3
    <3>5. Running' \subseteq {c}
      BY <2>1, <3>4 DEF Start
    <3>6. Raised' = {}
      BY <2>1, <3>3 DEF Start, CalmFile, Raised
    <3>7. keyFile.kind # "empty"
      BY <3>3, <3>4 DEF CalmFile
    <3>8. CASE keyFile = Absent
      <4>1. \A d \in Calls : callPc[d] # "returned"
        BY <3>3, <3>8, <2>a DEF CalmFile, Armored, Absent
      <4>2. callPc' = [callPc EXCEPT ![c] = "open"] /\ key' = [key EXCEPT ![c] = c]
        BY <2>1, <3>8 DEF Start
      <4> QED
        BY <2>a, <3>3, <3>4, <3>5, <3>6, <3>8, <4>1, <4>2 DEF CalmFile, RealKeys
    <3>9. CASE keyFile # Absent
      <4>1. callPc' = [callPc EXCEPT ![c] = "read"] /\ key' = key
        BY <2>1, <3>9 DEF Start
      <4> QED
        BY <2>a, <3>3, <3>4, <3>5, <3>6, <3>7, <3>9, <4>1 DEF CalmFile
    <3> QED
      BY <3>1, <3>8, <3>9
  <2>2. ASSUME NEW c \in Calls, Read(c) PROVE IdentityInv'
    <3>1. KeyTypeOK' /\ KeyInHand'
      BY <2>2, <2>a DEF Read
    <3>2. CalmFile'
      BY <2>2, <2>a, <3>1 DEF Read, CalmFile, Raised
    <3> QED
      BY <3>1, <3>2
  <2>3. ASSUME NEW c \in Calls, OpenToWrite(c) PROVE IdentityInv'
    <3>1. KeyTypeOK' /\ KeyInHand'
      BY <2>3, <2>c DEF OpenToWrite
    <3>2. CalmFile'
      BY <2>3, <2>a, <2>d, <3>1 DEF OpenToWrite, CalmFile, Raised, EmptyFile
    <3> QED
      BY <3>1, <3>2
  <2>4. ASSUME NEW c \in Calls, Write(c) PROVE IdentityInv'
    <3>1. KeyTypeOK' /\ KeyInHand'
      BY <2>4, <2>b, <2>c, <2>d DEF Write
    <3>2. ASSUME calm PROVE keyFile' = Armored(key[c]) /\ key[c] \in RealKeys
      BY <2>4, <3>2 DEF Write, CalmFile, RealKeys
    <3>3. CalmFile'
      BY <2>4, <2>a, <2>d, <3>1, <3>2 DEF Write, CalmFile, Raised
    <3> QED
      BY <3>1, <3>3
  <2>5. ASSUME NEW c \in Calls, Return(c) PROVE IdentityInv'
    <3>1. KeyTypeOK' /\ KeyInHand'
      BY <2>5 DEF Return
    <3>2. CalmFile'
      BY <2>5, <3>1 DEF Return, CalmFile, Raised, RealKeys
    <3> QED
      BY <3>1, <3>2
  <2>6. ASSUME NEW c \in Calls, Kill(c) PROVE IdentityInv'
    <3>1. crashes' \in 0..MaxCrashes
      BY <2>6 DEF Kill
    <3>2. KeyTypeOK' /\ KeyInHand'
      BY <2>6, <3>1 DEF Kill
    <3> QED
      BY <2>6, <3>2 DEF Kill, CalmFile
  <2>7. CASE UNCHANGED keyVars
    BY <2>7 DEF keyVars, CalmFile, Raised
  <2> QED
    BY <2>1, <2>2, <2>3, <2>4, <2>5, <2>6, <2>7 DEF KeyNext
<1> QED
  BY <1>1, <1>2, PTL DEF KeySpec

\* load_or_create_identity: calls that neither overlap nor are killed return
\* one key, the old file's if there was one, and do not fail.
THEOREM KeyIsStable == KeySpec => []StableKey
<1>1. IdentityInv => StableKey
  <2> SUFFICES ASSUME IdentityInv, calm PROVE StableKey
    BY DEF StableKey
  <2>1. \A c \in Returned : keyFile = Armored(key[c]) /\ key[c] \in RealKeys
    BY DEF IdentityInv, CalmFile, Returned
  <2>2. \A c \in Returned : keyFile.kind = "armored" /\ keyFile.key = key[c]
    BY <2>1 DEF Armored
  <2> QED
    BY <2>2 DEF StableKey, IdentityInv, CalmFile, Returned
<1> QED
  BY <1>1, IdentityInvariant, PTL

\* load_or_create_identity: a good key file that no call is about to write is
\* never changed again, however many calls overlap or are killed.
THEOREM GoodFileStays == KeySpec => SettledForGood
<1>1. KeyTypeOK /\ [KeyNext]_keyVars => [Settled => Settled' /\ keyFile' = keyFile]_keyVars
  <2> SUFFICES ASSUME KeyTypeOK, KeyNext, Settled PROVE Settled' /\ keyFile' = keyFile
    OBVIOUS
  <2> USE DEF KeyTypeOK, Settled, Running, Ended
  <2>a. keyFile.kind = "armored" /\ keyFile # Absent
    BY DEF Armored, Absent
  <2>1. PICK c \in Calls :
          Start(c) \/ Read(c) \/ OpenToWrite(c) \/ Write(c) \/ Return(c) \/ Kill(c)
    BY DEF KeyNext
  <2>2. CASE Start(c)
    BY <2>2, <2>a DEF Start
  <2>3. CASE Read(c)
    BY <2>3, <2>a DEF Read
  <2>4. CASE OpenToWrite(c) \/ Write(c)
    BY <2>4 DEF OpenToWrite, Write
  <2>5. CASE Return(c) \/ Kill(c)
    BY <2>5 DEF Return, Kill
  <2> QED
    BY <2>1, <2>2, <2>3, <2>4, <2>5
<1>2. IdentityInv => KeyTypeOK
  BY DEF IdentityInv
<1> QED
  BY <1>1, <1>2, IdentityInvariant, PTL DEF KeySpec, SettledForGood

(***************************************************************************)
(* The reputation store.                                                   *)
(***************************************************************************)

LEMMA StoreBegins ==
  ASSUME Init
  PROVE  TypeOK /\ StoreInv
<1>1. Fresh \in Stores
  BY DEF Fresh, Stores
<1>2. TypeOK
  BY <1>1 DEF Init, TypeOK
<1>3. StoreInv
  BY DEF Init, StoreInv, Saving
<1> QED BY <1>2, <1>3

\* Opening the store reads the file, or fails on what a race left of it.
LEMMA StoreOpens ==
  ASSUME TypeOK, StoreInv, NEW j \in Jobs, Open(j)
  PROVE  TypeOK' /\ StoreInv'
<1> USE MarkersAssumption
<1>1. Fresh \in Stores
  BY DEF Fresh, Stores
<1>2. Loaded \in Stores
  BY <1>1 DEF Loaded, TypeOK, Loads
<1>3. TypeOK'
  BY <1>2 DEF Open, TypeOK, Goto
<1>4. ASSUME ~race'  PROVE StoreInv'
  <2>1. ~race /\ Saving = {} /\ UNCHANGED <<file, kept>> /\ behind' = behind \ {j}
    BY <1>4 DEF Open
  <2>2. (file = None /\ kept = {}) \/ (file \in Stores /\ KeepsAll(file))
    BY <2>1 DEF StoreInv
  <2>3. Loads(file)
    BY <2>2 DEF Loads
  <2>4. pc' = [pc EXCEPT ![j] = "open"] /\ store' = [store EXCEPT ![j] = Loaded]
    BY <2>3 DEF Open, Goto
  <2>5. \A p \in kept : Loaded.direct[p] # None
    BY <2>2, <2>3 DEF Loaded, KeepsAll
  <2>6. Saving' = {}
    BY <2>1, <2>4 DEF Saving, TypeOK
  <2> QED BY <2>1, <2>2, <2>4, <2>5, <2>6 DEF StoreInv, KeepsAll, TypeOK
<1>5. ASSUME race'  PROVE StoreInv'
  BY <1>5 DEF StoreInv
<1> QED BY <1>3, <1>4, <1>5

\* What a job adds to its copy takes no peer's record away.
LEMMA StoreGrows ==
  ASSUME TypeOK, StoreInv, NEW j \in Jobs,
         \/ \E v \in Vouches : AddAttestation(j, v)
         \/ \E r \in Revocations : AddRevocation(j, r)
         \/ \E p \in Peers, outcome \in Outcomes : RecordDirect(j, p, outcome)
  PROVE  TypeOK' /\ StoreInv'
<1>1. store[j] \in Stores
  BY DEF TypeOK
<1>2. /\ UNCHANGED <<pc, file, kept, behind, race>> /\ pulled' \in [Jobs -> SUBSET Vouches]
      /\ \E s \in Stores :
           /\ store' = [store EXCEPT ![j] = s]
           /\ \A p \in Peers : store[j].direct[p] # None => s.direct[p] # None
  <2>1. ASSUME NEW v \in Vouches, AddAttestation(j, v)
        PROVE  /\ pulled' \in [Jobs -> SUBSET Vouches]
               /\ \E s \in Stores :
                    /\ store' = [store EXCEPT ![j] = s]
                    /\ \A p \in Peers : store[j].direct[p] # None => s.direct[p] # None
    <3> DEFINE more == Append(store[j].attestations, v)
               s == [store[j] EXCEPT !.attestations = more]
    <3>1. s \in Stores /\ s.direct = store[j].direct
      <4>1. more \in Seq(Vouches)
        BY <1>1 DEF Stores
      <4> HIDE DEF more
      <4> QED BY <1>1, <4>1 DEF Stores
    <3>2. store' = [store EXCEPT ![j] = s]
      BY <2>1 DEF AddAttestation
    <3>3. pulled' \in [Jobs -> SUBSET Vouches]
      BY <2>1 DEF AddAttestation, TypeOK
    <3> HIDE DEF s
    <3> QED BY <3>1, <3>2, <3>3
  <2>2. ASSUME NEW r \in Revocations, AddRevocation(j, r)
        PROVE  /\ pulled' \in [Jobs -> SUBSET Vouches]
               /\ \E s \in Stores :
                    /\ store' = [store EXCEPT ![j] = s]
                    /\ \A p \in Peers : store[j].direct[p] # None => s.direct[p] # None
    <3> DEFINE more == Append(store[j].revocations, r)
               s == [store[j] EXCEPT !.revocations = more]
    <3>1. s \in Stores /\ s.direct = store[j].direct
      <4>1. more \in Seq(Revocations)
        BY <1>1 DEF Stores
      <4> HIDE DEF more
      <4> QED BY <1>1, <4>1 DEF Stores
    <3>2. store' = [store EXCEPT ![j] = s]
      BY <2>2 DEF AddRevocation
    <3>3. pulled' \in [Jobs -> SUBSET Vouches]
      BY <2>2 DEF AddRevocation, TypeOK
    <3> HIDE DEF s
    <3> QED BY <3>1, <3>2, <3>3
  <2>3. ASSUME NEW p \in Peers, NEW outcome \in Outcomes, RecordDirect(j, p, outcome)
        PROVE  /\ pulled' \in [Jobs -> SUBSET Vouches]
               /\ \E s \in Stores :
                    /\ store' = [store EXCEPT ![j] = s]
                    /\ \A q \in Peers : store[j].direct[q] # None => s.direct[q] # None
    <3> DEFINE s == [store[j] EXCEPT !.direct[p] = outcome]
    <3>1. outcome # None
      BY OutcomesAssumption
    <3>2. s \in Stores /\ s.direct = [store[j].direct EXCEPT ![p] = outcome]
      BY <1>1 DEF Stores
    <3>3. \A q \in Peers : store[j].direct[q] # None => s.direct[q] # None
      BY <1>1, <3>1, <3>2 DEF Stores
    <3>4. store' = [store EXCEPT ![j] = s]
      BY <2>3 DEF RecordDirect
    <3> QED BY <2>3, <3>2, <3>3, <3>4 DEF RecordDirect, TypeOK
  <2> QED BY <2>1, <2>2, <2>3
       DEF AddAttestation, AddRevocation, RecordDirect, history
<1>3. TypeOK'
  BY <1>2 DEF TypeOK
<1>4. StoreInv'
  BY <1>2 DEF StoreInv, KeepsAll, Saving, TypeOK
<1> QED BY <1>3, <1>4

\* save() empties the file.  Without a race nobody else is saving, the job's
\* copy is up to date, and every other copy is not from now on.
LEMMA StoreTruncates ==
  ASSUME TypeOK, StoreInv, NEW j \in Jobs, SaveTruncate(j)
  PROVE  TypeOK' /\ StoreInv'
<1>1. TypeOK'
  BY DEF SaveTruncate, TypeOK, Goto
<1>2. ASSUME ~race'  PROVE StoreInv'
  <2>1. ~race /\ Saving = {} /\ j \notin behind /\ pc[j] = "open"
    BY <1>2 DEF SaveTruncate
  <2>2. /\ file' = Empty /\ pc' = [pc EXCEPT ![j] = "saving"]
        /\ behind' = {i \in Jobs \ {j} : pc[i] = "open"} \cup behind
        /\ UNCHANGED <<store, kept>>
    BY DEF SaveTruncate, Goto
  <2>3. Saving' = {j}
    BY <2>1, <2>2 DEF Saving, TypeOK
  <2> QED BY <2>1, <2>2, <2>3 DEF StoreInv, KeepsAll, TypeOK, Saving
<1>3. ASSUME race'  PROVE StoreInv'
  BY <1>3 DEF StoreInv
<1> QED BY <1>1, <1>2, <1>3

\* And fills it, with a copy that has all that was saved before.
LEMMA StoreWrites ==
  ASSUME TypeOK, StoreInv, NEW j \in Jobs, SaveWrite(j)
  PROVE  TypeOK' /\ StoreInv'
<1>1. TypeOK'
  BY DEF SaveWrite, TypeOK, Goto
<1>2. ASSUME ~race'  PROVE StoreInv'
  <2>1. ~race /\ j \in Saving
    BY <1>2 DEF SaveWrite, Saving
  <2>2. /\ Saving = {j} /\ file = Empty /\ j \notin behind
        /\ \A i \in Jobs : pc[i] = "open" => i \in behind
        /\ \A i \in Jobs : pc[i] # "failed"
        /\ \A p \in kept : store[j].direct[p] # None
    BY <2>1 DEF StoreInv, Saving, KeepsAll
  <2>3. /\ file' = store[j] /\ pc' = [pc EXCEPT ![j] = "open"]
        /\ kept' = kept \cup {p \in Peers : store[j].direct[p] # None}
        /\ UNCHANGED <<store, behind>>
    BY <2>2 DEF SaveWrite, Goto
  <2>4. \A p \in kept' : store[j].direct[p] # None
    BY <2>2, <2>3
  <2>5. Saving' = {} /\ store[j] \in Stores
    BY <2>2, <2>3 DEF Saving, TypeOK
  <2> QED BY <2>2, <2>3, <2>4, <2>5 DEF StoreInv, KeepsAll, TypeOK, Saving
<1>3. ASSUME race'  PROVE StoreInv'
  BY <1>3 DEF StoreInv
<1> QED BY <1>1, <1>2, <1>3

LEMMA StoreLeft ==
  ASSUME TypeOK, StoreInv, NEW j \in Jobs, Leave(j)
  PROVE  TypeOK' /\ StoreInv'
<1>1. Fresh \in Stores
  BY DEF Fresh, Stores
<1>2. TypeOK'
  BY <1>1 DEF Leave, TypeOK, Goto
<1>3. ASSUME ~race'  PROVE StoreInv'
  <2>1. ~race /\ j \notin Saving
    BY <1>3 DEF Leave
  <2>2. /\ pc' = [pc EXCEPT ![j] = "closed"] /\ store' = [store EXCEPT ![j] = Fresh]
        /\ behind' = behind \ {j} /\ UNCHANGED <<file, kept>>
    BY DEF Leave, Goto
  <2>3. Saving' = Saving
    BY <2>1, <2>2 DEF Saving, TypeOK
  <2> QED BY <2>1, <2>2, <2>3 DEF StoreInv, KeepsAll, TypeOK, Saving
<1>4. ASSUME race'  PROVE StoreInv'
  BY <1>4 DEF StoreInv
<1> QED BY <1>2, <1>3, <1>4

\* ReputationStore: types, and what file and copies hold as long as nobody
\* races, are kept by every step of every job.
THEOREM StoreInvariant == Spec => [](TypeOK /\ StoreInv)
<1>1. TypeOK /\ StoreInv /\ [Next]_vars => TypeOK' /\ StoreInv'
  <2> SUFFICES ASSUME TypeOK, StoreInv, [Next]_vars
               PROVE  TypeOK' /\ StoreInv'
    OBVIOUS
  <2>1. ASSUME NEW j \in Jobs, Use(j)  PROVE TypeOK' /\ StoreInv'
    BY <2>1, StoreOpens, StoreGrows, StoreTruncates, StoreWrites, StoreLeft DEF Use
  <2>2. CASE UNCHANGED vars
    BY <2>2 DEF vars, history, TypeOK, StoreInv, KeepsAll, Saving
  <2> QED BY <2>1, <2>2 DEF Next
<1> QED BY <1>1, StoreBegins, PTL DEF Spec

\* "so the next auction for this host starts from real history": any number of
\* jobs on one file lose a saved outcome, or the file, only by a race.
THEOREM HistoryIsKept == Spec => []OnlyRacesLoseHistory
<1>1. TypeOK /\ StoreInv => OnlyRacesLoseHistory
  BY MarkersAssumption DEF TypeOK, StoreInv, KeepsAll, OnlyRacesLoseHistory, Loads
<1> QED BY <1>1, StoreInvariant, PTL

(***************************************************************************)
(* trust_score.                                                            *)
(***************************************************************************)

\* Induction over the iterations of a loop.
LEMMA UpTo ==
  ASSUME NEW N \in Nat, NEW T, 0 \in T, \A n \in 1..N : n - 1 \in T => n \in T
  PROVE  0..N \subseteq T
<1> DEFINE Out == (0..N) \ T
<1> SUFFICES ASSUME Out # {} PROVE FALSE
  OBVIOUS
<1>1. PICK n \in Out : \A k \in Out : n <= k
  <2>1. Out \subseteq Nat
    OBVIOUS
  <2> HIDE DEF Out
  <2> QED BY <2>1, LeastNatural
<1>2. n \in 1..N /\ n \notin T
  BY <1>1
<1>3. n - 1 \notin T /\ n - 1 \in 0..N
  BY <1>2
<1>4. n - 1 \in Out /\ ~(n <= n - 1)
  BY <1>2, <1>3
<1> HIDE DEF Out
<1> QED BY <1>1, <1>4

\* A loop whose iterations take values of S to values of S has a value of S
\* after every iteration.
Loop(f, N, start, iterate) == f[0] = start /\ \A n \in 1..N : f[n] = iterate[n][f[n - 1]]
LEMMA Iterated ==
  ASSUME NEW S, NEW N \in Nat, NEW start \in S, NEW iterate \in [1..N -> [S -> S]]
  PROVE  \E f \in [0..N -> S] : Loop(f, N, start, iterate)
<1> DEFINE Is(f, m) == f[0] = start /\ \A n \in 1..m : f[n] = iterate[n][f[n - 1]]
           Made == {m \in 0..N : \E f \in [0..m -> S] : Is(f, m)}
<1>1. 0 \in Made
  <2> DEFINE f == [n \in 0..0 |-> start]
  <2>1. f \in [0..0 -> S] /\ Is(f, 0)
    OBVIOUS
  <2>2. \E h \in [0..0 -> S] : Is(h, 0)
    <3> HIDE DEF f, Is
    <3> QED BY <2>1
  <2> HIDE DEF f, Is
  <2>3. 0 \in 0..N
    OBVIOUS
  <2> QED BY <2>2, <2>3
<1>2. ASSUME NEW m \in 1..N, m - 1 \in Made PROVE m \in Made
  <2>1. PICK f \in [0..m - 1 -> S] : Is(f, m - 1)
    BY <1>2
  <2> DEFINE g == [n \in 0..m |-> IF n = m THEN iterate[m][f[m - 1]] ELSE f[n]]
  <2>2. /\ f[m - 1] \in S /\ iterate[m] \in [S -> S]
        /\ \A n \in 0..m : n # m => n \in 0..m - 1
    BY <2>1
  <2>3. g \in [0..m -> S]
    BY <2>2
  <2>4. g[0] = start
    BY <2>1, <2>2
  <2>5. ASSUME NEW n \in 1..m
        PROVE  g[n] = iterate[n][g[n - 1]]
    <3>1. n - 1 \in 0..m /\ n - 1 # m /\ n \in 0..m
      OBVIOUS
    <3>2. g[n - 1] = f[n - 1]
      BY <3>1
    <3>3. CASE n # m
      <4>1. n \in 1..m - 1
        BY <3>3
      <4>2. f[n] = iterate[n][f[n - 1]] /\ g[n] = f[n]
        BY <2>1, <3>1, <3>3, <4>1
      <4> HIDE DEF g
      <4> QED BY <3>2, <4>2
    <3>4. CASE n = m
      <4>1. g[n] = iterate[m][f[m - 1]]
        BY <3>1, <3>4
      <4> HIDE DEF g
      <4> QED BY <3>2, <3>4, <4>1
    <3> QED BY <3>3, <3>4
  <2> HIDE DEF g
  <2>6. Is(g, m)
    BY <2>4, <2>5
  <2> HIDE DEF Is
  <2> QED BY <2>3, <2>6
<1>3. N \in Made
  <2> HIDE DEF Made
  <2>1. 0..N \subseteq Made
    BY <1>1, <1>2, UpTo
  <2> QED BY <2>1
<1> QED BY <1>3 DEF Loop

LEMMA DoubledIsPositive ==
  \A n \in 0..Span : Doubled[n] \in Nat \ {0}
<1> DEFINE P == Nat \ {0}
           iterate == [n \in 1..Span |-> [d \in P |-> 2 * d]]
<1>1. iterate \in [1..Span -> [P -> P]] /\ \A n \in 1..Span, d \in P : iterate[n][d] = 2 * d
  OBVIOUS
<1>2. 1 \in P /\ Span \in Nat
  BY VouchesAssumption DEF Span
<1> DEFINE one == 1
<1> HIDE DEF iterate, P, one
<1>2a. \E f \in [0..Span -> P] : Loop(f, Span, one, iterate)
  <2>1. one \in P
    BY <1>2 DEF one
  <2> QED BY <1>1, <1>2, <2>1, Iterated
<1>3. PICK f \in [0..Span -> P] : f[0] = 1 /\ \A n \in 1..Span : f[n] = iterate[n][f[n - 1]]
  BY <1>2a DEF one, Loop
<1>4. \A n \in 0..Span : n # 0 => n \in 1..Span /\ n - 1 \in 0..Span
  BY <1>2
<1>5. \A n \in 0..Span : f[n] = IF n = 0 THEN 1 ELSE 2 * f[n - 1]
  BY <1>1, <1>3, <1>4
<1> DEFINE Is(d) == d = [n \in 0..Span |-> IF n = 0 THEN 1 ELSE 2 * d[n - 1]]
<1>6. Is(f)
  <2>1. f = [n \in 0..Span |-> f[n]]
    BY <1>3
  <2> QED BY <1>5, <2>1
<1>7. Doubled = CHOOSE d : Is(d)
  BY DEF Doubled
<1>8. Is(Doubled)
  <2> HIDE DEF Is
  <2> QED BY <1>6, <1>7
<1>9. \A n \in 0..Span : Doubled[n] = IF n = 0 THEN 1 ELSE 2 * Doubled[n - 1]
  BY <1>8
<1> DEFINE T == {n \in 0..Span : Doubled[n] \in P}
<1>10. 0 \in T /\ \A n \in 1..Span : n - 1 \in T => n \in T
  <2>1. 0 \in T
    BY <1>2, <1>9
  <2>2. ASSUME NEW n \in 1..Span, n - 1 \in T PROVE n \in T
    <3>1. n \in 0..Span /\ Doubled[n] = 2 * Doubled[n - 1]
      BY <1>2, <1>9
    <3>2. Doubled[n - 1] \in Nat \ {0}
      BY <2>2 DEF P
    <3> QED BY <3>1, <3>2 DEF P
  <2> HIDE DEF T
  <2> QED BY <2>1, <2>2
<1>11. 0..Span \subseteq T
  <2> HIDE DEF T
  <2> QED BY <1>2, <1>10, UpTo
<1> QED BY <1>11 DEF P

LEMMA Weighs ==
  ASSUME NEW v \in Vouches
  PROVE  /\ Weight(v) \in Nat /\ (Trust[SignerOf[v]] > 0 => Weight(v) > 0)
         /\ Record(v) \in Nat \X (Nat \ {0})
<1>1. Trust[SignerOf[v]] \in Nat /\ Passes[v] \in Nat /\ Fails[v] \in Nat
      /\ Oldest - Age[v] \in 0..Span
  BY VouchesAssumption DEF Span
<1>2. Doubled[Oldest - Age[v]] \in Nat \ {0}
  BY <1>1, DoubledIsPositive
<1>3. \A t \in Nat, d \in Nat \ {0} : t * d \in Nat /\ (t > 0 => t * d > 0)
  OBVIOUS
<1>4. Weight(v) \in Nat /\ (Trust[SignerOf[v]] > 0 => Weight(v) > 0)
  BY <1>1, <1>2, <1>3 DEF Weight
<1>5. Record(v) \in Nat \X (Nat \ {0})
  BY <1>1 DEF Record, Share, Zero
<1> QED BY <1>4, <1>5

\* Values of num and den in the loop of trust_score.
Tallies == [num : Nat \X (Nat \ {0}), den : Nat]

LEMMA AddTermIsTally ==
  ASSUME NEW sums \in Tallies, NEW v \in Vouches
  PROVE  AddTerm(sums, v) \in Tallies
<1> DEFINE w == Weight(v)
           a == Record(v)[1]
           b == Record(v)[2]
           c == sums.num[1]
           d == sums.num[2]
<1>1. w \in Nat /\ a \in Nat /\ b \in Nat \ {0} /\ c \in Nat /\ d \in Nat \ {0} /\ sums.den \in Nat
  BY Weighs DEF Tallies
<1>2. AddTerm(sums, v) = [num |-> <<(w * a) * d + c * b, b * d>>, den |-> sums.den + w]
  BY DEF AddTerm, Plus
<1> HIDE DEF w, a, b, c, d
<1>3. (w * a) * d \in Nat /\ c * b \in Nat /\ b * d \in Nat \ {0}
  <2>1. \A x, y \in Nat : x * y \in Nat
    OBVIOUS
  <2>2. \A x, y \in Nat \ {0} : x * y \in Nat \ {0}
    OBVIOUS
  <2> QED BY <1>1, <2>1, <2>2
<1>4. (w * a) * d + c * b \in Nat /\ sums.den + w \in Nat
  BY <1>1, <1>3
<1> QED BY <1>2, <1>3, <1>4 DEF Tallies

\* What the loop of trust_score computes, iteration by iteration.
LEMMA SumsAdd ==
  ASSUME NEW vs \in Seq(Vouches), NEW counted
  PROVE  /\ Sums(vs, counted) \in [0..Len(vs) -> Tallies]
         /\ Sums(vs, counted)[0] = [num |-> Zero, den |-> 0]
         /\ \A n \in 1..Len(vs) :
              Sums(vs, counted)[n] = IF vs[n] \in counted THEN AddTerm(Sums(vs, counted)[n - 1], vs[n])
                                     ELSE Sums(vs, counted)[n - 1]
<1> DEFINE N == Len(vs)
           start == [num |-> Zero, den |-> 0]
           iterate == [n \in 1..N |-> [t \in Tallies |-> IF vs[n] \in counted THEN AddTerm(t, vs[n]) ELSE t]]
           Is(d) == d = [n \in 0..N |->
                          IF n = 0 THEN start ELSE IF vs[n] \in counted THEN AddTerm(d[n - 1], vs[n]) ELSE d[n - 1]]
<1>1. N \in Nat /\ \A n \in 1..N : vs[n] \in Vouches
  OBVIOUS
<1>2. start \in Tallies
  BY DEF Tallies, Zero
<1>3. \A n \in 1..N, t \in Tallies : (IF vs[n] \in counted THEN AddTerm(t, vs[n]) ELSE t) \in Tallies
  BY <1>1, AddTermIsTally
<1>4. iterate \in [1..N -> [Tallies -> Tallies]]
  BY <1>3
<1>5. \A n \in 1..N, t \in Tallies : iterate[n][t] = IF vs[n] \in counted THEN AddTerm(t, vs[n]) ELSE t
  OBVIOUS
<1>6. Sums(vs, counted) = CHOOSE d : Is(d)
  BY DEF Sums
<1> HIDE DEF N, start, iterate
<1>7. PICK f \in [0..N -> Tallies] : Loop(f, N, start, iterate)
  BY <1>1, <1>2, <1>4, Iterated
<1>8. \A n \in 0..N : n # 0 => n \in 1..N /\ n - 1 \in 0..N
  BY <1>1
<1>9. \A n \in 0..N : f[n] = IF n = 0 THEN start
                             ELSE IF vs[n] \in counted THEN AddTerm(f[n - 1], vs[n]) ELSE f[n - 1]
  BY <1>5, <1>7, <1>8 DEF Loop
<1>10. Is(f)
  <2>1. f = [n \in 0..N |-> f[n]]
    BY <1>7
  <2> QED BY <1>9, <2>1
<1>11. Is(Sums(vs, counted))
  <2> HIDE DEF Is
  <2> QED BY <1>6, <1>10
<1> DEFINE g == Sums(vs, counted)
<1>12. /\ g = [n \in 0..N |-> g[n]]
       /\ g[0] = start
       /\ \A n \in 1..N : g[n] = IF vs[n] \in counted THEN AddTerm(g[n - 1], vs[n]) ELSE g[n - 1]
  <2> HIDE DEF g
  <2>1. Is(g)
    BY <1>11 DEF g
  <2>2. g = [n \in 0..N |-> g[n]]
    BY <2>1
  <2>3. g[0] = start
    BY <1>1, <2>1
  <2>4. \A n \in 1..N : n \in 0..N /\ n # 0
    BY <1>1
  <2> QED BY <2>1, <2>2, <2>3, <2>4
<1> HIDE DEF g, Is
<1> DEFINE T == {n \in 0..N : g[n] \in Tallies}
<1>13. 0 \in T /\ \A n \in 1..N : n - 1 \in T => n \in T
  <2>1. 0 \in T
    BY <1>1, <1>2, <1>12
  <2>2. ASSUME NEW n \in 1..N, n - 1 \in T PROVE n \in T
    <3>1. g[n - 1] \in Tallies /\ n \in 0..N
      BY <2>2
    <3>2. g[n] \in Tallies
      BY <1>3, <1>12, <2>2, <3>1
    <3> QED BY <3>1, <3>2
  <2> HIDE DEF T
  <2> QED BY <2>1, <2>2
<1>14. 0..N \subseteq T
  <2> HIDE DEF T
  <2> QED BY <1>1, <1>13, UpTo
<1>15. g \in [0..N -> Tallies]
  BY <1>12, <1>14
<1> QED BY <1>12, <1>15 DEF g, N, start

LEMMA RangeAppend ==
  ASSUME NEW S, NEW s \in Seq(S), NEW x \in S
  PROVE  Range(Append(s, x)) = Range(s) \cup {x}
<1> DEFINE t == Append(s, x)
<1>1. t \in Seq(S) /\ Len(s) \in Nat /\ Len(t) = Len(s) + 1 /\ t[Len(s) + 1] = x
      /\ \A i \in 1..Len(s) : t[i] = s[i]
  BY AppendProperties, LenProperties
<1> HIDE DEF t
<1>2. Range(s) = {s[i] : i \in 1..Len(s)} /\ Range(t) = {t[i] : i \in 1..(Len(s) + 1)}
  BY <1>1, RangeEquality
<1>3. ASSUME NEW y \in Range(t) PROVE y \in Range(s) \cup {x}
  <2>1. PICK i \in 1..(Len(s) + 1) : y = t[i]
    BY <1>2, <1>3
  <2>2. CASE i = Len(s) + 1
    BY <1>1, <2>1, <2>2
  <2>3. CASE i # Len(s) + 1
    <3>1. i \in 1..Len(s)
      BY <1>1, <2>1, <2>3
    <3> QED BY <1>1, <1>2, <2>1, <3>1
  <2> QED BY <2>2, <2>3
<1>4. ASSUME NEW y \in Range(s) \cup {x} PROVE y \in Range(t)
  <2>1. CASE y = x
    <3>1. Len(s) + 1 \in 1..(Len(s) + 1)
      BY <1>1
    <3> QED BY <1>1, <1>2, <2>1, <3>1
  <2>2. CASE y \in Range(s)
    <3>1. PICK i \in 1..Len(s) : y = s[i]
      BY <1>2, <2>2
    <3>2. i \in 1..(Len(s) + 1)
      BY <1>1, <3>1
    <3> QED BY <1>1, <1>2, <3>1, <3>2
  <2> QED BY <1>4, <2>1, <2>2
<1>5. Range(t) = Range(s) \cup {x}
  BY <1>3, <1>4
<1> QED BY <1>5 DEF t

\* A vouch that does not count does not change what the loop ends with.
LEMMA SumsSkip ==
  ASSUME NEW vs \in Seq(Vouches), NEW v \in Vouches, NEW counted, v \notin counted
  PROVE  Sums(Append(vs, v), counted)[Len(Append(vs, v))] = Sums(vs, counted)[Len(vs)]
<1> DEFINE more == Append(vs, v)
           N == Len(vs)
           f == Sums(vs, counted)
           g == Sums(more, counted)
<1>1. /\ more \in Seq(Vouches) /\ N \in Nat /\ Len(more) = N + 1
      /\ \A n \in 1..N : more[n] = vs[n]
      /\ more[N + 1] = v
  OBVIOUS
<1> HIDE DEF more
<1>2. /\ f[0] = [num |-> Zero, den |-> 0]
      /\ \A n \in 1..N : f[n] = IF vs[n] \in counted THEN AddTerm(f[n - 1], vs[n]) ELSE f[n - 1]
  BY SumsAdd
<1>3. /\ g[0] = [num |-> Zero, den |-> 0]
      /\ \A n \in 1..N + 1 : g[n] = IF more[n] \in counted THEN AddTerm(g[n - 1], more[n]) ELSE g[n - 1]
  <2>1. /\ g[0] = [num |-> Zero, den |-> 0]
        /\ \A n \in 1..Len(more) : g[n] = IF more[n] \in counted THEN AddTerm(g[n - 1], more[n]) ELSE g[n - 1]
    BY <1>1, SumsAdd
  <2> QED BY <1>1, <2>1
<1> HIDE DEF N, f, g
<1> DEFINE Agree == {n \in 0..N : g[n] = f[n]}
<1>4. 0 \in Agree
  BY <1>1, <1>2, <1>3
<1>5. ASSUME NEW n \in 1..N, n - 1 \in Agree PROVE n \in Agree
  <2>1. n \in 0..N /\ n \in 1..N + 1
    BY <1>1
  <2>2. g[n] = IF vs[n] \in counted THEN AddTerm(g[n - 1], vs[n]) ELSE g[n - 1]
    BY <1>1, <1>3, <2>1
  <2>3. g[n - 1] = f[n - 1]
    BY <1>5
  <2>4. g[n] = f[n]
    BY <1>2, <2>2, <2>3
  <2> QED BY <2>1, <2>4
<1>6. 0..N \subseteq Agree
  <2> HIDE DEF Agree
  <2> QED BY <1>1, <1>4, <1>5, UpTo
<1>7. g[N] = f[N]
  BY <1>1, <1>6
<1>8. N + 1 \in 1..N + 1 /\ (N + 1) - 1 = N
  BY <1>1
<1>9. g[N + 1] = g[N]
  <2>1. more[N + 1] \notin counted
    BY <1>1
  <2> QED BY <1>3, <1>8, <2>1
<1> QED BY <1>1, <1>7, <1>9 DEF f, g, N, more

\* A score is a function of the record, the attestations and who counts.
LEMMA SameScore ==
  ASSUME NEW s, NEW t, NEW p, t.direct[p] = s.direct[p],
         \/ s.direct[p] # None
         \/ t.attestations = s.attestations /\ Counted(t, p) = Counted(s, p)
  PROVE  Same(Score(s, p), Score(t, p))
<1>1. Score(t, p) = Score(s, p)
  BY DEF Score
<1> QED BY <1>1 DEF Same

LEMMA ScoreAfterAttestation ==
  ASSUME TypeOK, NEW j \in Jobs, NEW v \in Vouches, AddAttestation(j, v), NEW p \in Peers,
         ~Same(Score(store[j], p), Score(store'[j], p))
  PROVE  store[j].direct[p] = None /\ Vouched(j, p)
<1> DEFINE s == store[j]
           t == store'[j]
<1>1. /\ s \in Stores /\ v \in Genuine
      /\ t.direct = s.direct /\ t.revocations = s.revocations
      /\ t.attestations = Append(s.attestations, v)
  BY DEF TypeOK, AddAttestation, Stores
<1>2. s.attestations \in Seq(Vouches)
  BY <1>1 DEF Stores
<1> HIDE DEF s, t
<1>3. s.direct[p] = None
  BY <1>1, SameScore DEF s, t
<1>4. /\ Len(t.attestations) = Len(s.attestations) + 1 /\ Len(s.attestations) \in Nat
      /\ t.attestations[Len(s.attestations) + 1] = v
      /\ Range(t.attestations) = Range(s.attestations) \cup {v}
  <2>1. Range(Append(s.attestations, v)) = Range(s.attestations) \cup {v}
    BY <1>2, RangeAppend
  <2> QED BY <1>1, <1>2, <2>1
<1>5. PeerOf[v] = p /\ Trust[SignerOf[v]] > 0
  <2> SUFFICES ASSUME ~(PeerOf[v] = p /\ Trust[SignerOf[v]] > 0) PROVE FALSE
    OBVIOUS
  <2>1. Revoked(t) = Revoked(s)
    BY <1>1 DEF Revoked
  <2>2. Counted(t, p) = Counted(s, p) /\ v \notin Counted(s, p)
    BY <1>4, <2>1 DEF Counted
  <2>3. Sums(t.attestations, Counted(t, p))[Len(t.attestations)]
          = Sums(s.attestations, Counted(s, p))[Len(s.attestations)]
    BY <1>1, <1>2, <2>2, SumsSkip
  <2>4. Score(t, p) = Score(s, p)
    BY <1>1, <2>3 DEF Score
  <2> QED BY <2>4 DEF Same, s, t
<1>6. Vouched(j, p)
  <2>1. Last(t.attestations) = v
    BY <1>4 DEF Last
  <2>2. Len(t.attestations) > Len(s.attestations)
    BY <1>4
  <2> QED BY <1>1, <1>5, <2>1, <2>2 DEF Vouched, s, t
<1> QED BY <1>3, <1>6 DEF s

LEMMA ScoreAfterRevocation ==
  ASSUME TypeOK, NEW j \in Jobs, NEW r \in Revocations, AddRevocation(j, r), NEW p \in Peers,
         ~Same(Score(store[j], p), Score(store'[j], p))
  PROVE  store[j].direct[p] = None /\ Withdrawn(j, p)
<1> DEFINE s == store[j]
           t == store'[j]
<1>1. /\ s \in Stores /\ SignerOf[r.of] = r.by /\ r.of \notin Revoked(s)
      /\ t.direct = s.direct /\ t.attestations = s.attestations
      /\ t.revocations = Append(s.revocations, r)
  BY DEF TypeOK, AddRevocation, MayRevoke, Stores
<1>2. s.revocations \in Seq(Revocations)
  BY <1>1 DEF Stores
<1> HIDE DEF s, t
<1>3. s.direct[p] = None
  BY <1>1, SameScore DEF s, t
<1>4. Range(t.revocations) = Range(s.revocations) \cup {r}
  <2>1. Range(Append(s.revocations, r)) = Range(s.revocations) \cup {r}
    BY <1>2, RangeAppend
  <2> QED BY <1>1, <2>1
<1>5. Revoked(t) = Revoked(s) \cup {r.of}
  BY <1>4 DEF Revoked
<1>6. PeerOf[r.of] = p /\ Trust[r.by] > 0
  <2> SUFFICES ASSUME ~(PeerOf[r.of] = p /\ Trust[r.by] > 0) PROVE FALSE
    OBVIOUS
  <2>1. Counted(t, p) = Counted(s, p)
    BY <1>1, <1>5 DEF Counted
  <2> QED BY <1>1, <2>1, SameScore DEF s, t
<1>7. r \in Range(t.revocations) \ Range(s.revocations)
  BY <1>1, <1>4 DEF Revoked
<1>8. Withdrawn(j, p)
  <2>1. r \in New(j, "revocations")
    BY <1>7 DEF New, s, t
  <2> QED BY <1>1, <1>6, <2>1 DEF Withdrawn
<1> QED BY <1>3, <1>8 DEF s

\* trust_score: whatever a job pulls, records, saves or loads, a score moves for
\* own experience only, or for a genuine vouch of a signer the client trusts or
\* the withdrawal of one, by its own signer.
THEOREM ScoresMoveForAReason == Spec => ScoreMovesForAReason
<1> DEFINE Moves == \A j \in Jobs, p \in Peers :
       pc[j] = "open" /\ pc'[j] # "closed" /\ ~Same(Score(store[j], p), Score(store'[j], p)) =>
         \/ store[j].direct[p] # store'[j].direct[p]
         \/ store[j].direct[p] = None /\ (Vouched(j, p) \/ Withdrawn(j, p))
<1>1. TypeOK /\ [Next]_vars => [Moves]_vars
  <2> SUFFICES ASSUME TypeOK, Next, NEW j \in Jobs, NEW p \in Peers,
                      pc[j] = "open", pc'[j] # "closed",
                      ~Same(Score(store[j], p), Score(store'[j], p)),
                      store[j].direct[p] = store'[j].direct[p]
               PROVE  store[j].direct[p] = None /\ (Vouched(j, p) \/ Withdrawn(j, p))
    OBVIOUS
  <2>1. store'[j] # store[j]
    BY DEF Same
  <2>2. PICK i \in Jobs : Use(i)
    BY DEF Next
  <2>3. CASE \E v \in Vouches : AddAttestation(i, v)
    <3>1. i = j
      BY <2>1, <2>3 DEF AddAttestation, TypeOK
    <3> QED BY <2>3, <3>1, ScoreAfterAttestation
  <2>4. CASE \E r \in Revocations : AddRevocation(i, r)
    <3>1. i = j
      BY <2>1, <2>4 DEF AddRevocation, TypeOK
    <3> QED BY <2>4, <3>1, ScoreAfterRevocation
  <2>5. CASE \E q \in Peers, outcome \in Outcomes : RecordDirect(i, q, outcome)
    <3>1. PICK q \in Peers, outcome \in Outcomes : RecordDirect(i, q, outcome)
      BY <2>5
    <3>2. i = j
      BY <2>1, <3>1 DEF RecordDirect, TypeOK
    <3>3. /\ store'[j].attestations = store[j].attestations
          /\ store'[j].revocations = store[j].revocations
      BY <3>1, <3>2 DEF RecordDirect, TypeOK, Stores
    <3>4. Counted(store'[j], p) = Counted(store[j], p)
      BY <3>3 DEF Counted, Revoked
    <3> QED BY <3>3, <3>4, SameScore
  <2>6. CASE Open(i)
    BY <2>1, <2>6 DEF Open, TypeOK
  <2>7. CASE SaveTruncate(i) \/ SaveWrite(i)
    BY <2>1, <2>7 DEF SaveTruncate, SaveWrite
  <2>8. CASE Leave(i)
    BY <2>1, <2>8 DEF Leave, TypeOK, Goto
  <2> QED BY <2>2, <2>3, <2>4, <2>5, <2>6, <2>7, <2>8 DEF Use
<1> QED BY <1>1, StoreInvariant, PTL DEF Spec, ScoreMovesForAReason

\* One iteration keeps a weighted sum above a bound that its vouch is above.
LEMMA WeightedStep ==
  ASSUME NEW X \in Int, NEW Y \in Int, NEW a \in Nat, NEW b \in Nat \ {0}, NEW d \in Nat,
         NEW w \in Nat \ {0}, NEW r1 \in Nat, NEW r2 \in Nat \ {0},
         X * (d * b) <= a * Y, X * r2 < r1 * Y
  PROVE  X * ((d + w) * (r2 * b)) < ((w * r1) * b + a * r2) * Y
<1>1. \A x, y \in Int, z \in Nat : x <= y => x * z <= y * z
  OBVIOUS
<1>2. \A x, y \in Int, z \in Nat \ {0} : x < y => x * z < y * z
  OBVIOUS
<1>3. w * b \in Nat \ {0} /\ d * b \in Int
  OBVIOUS
<1>4. (X * (d * b)) * r2 <= (a * Y) * r2
  BY <1>1, <1>3
<1>5. (X * r2) * (w * b) < (r1 * Y) * (w * b)
  BY <1>2, <1>3
<1>6. X * ((d + w) * (r2 * b)) = (X * (d * b)) * r2 + (X * r2) * (w * b)
  OBVIOUS
<1>7. ((w * r1) * b + a * r2) * Y = (a * Y) * r2 + (r1 * Y) * (w * b)
  OBVIOUS
<1>8. \A p, q, r, t \in Int : p <= q /\ r < t => p + r < q + t
  OBVIOUS
<1>9. /\ (X * (d * b)) * r2 \in Int /\ (a * Y) * r2 \in Int
      /\ (X * r2) * (w * b) \in Int /\ (r1 * Y) * (w * b) \in Int
  OBVIOUS
<1> QED BY <1>4, <1>5, <1>6, <1>7, <1>8, <1>9

\* The same for all of them: if every vouch that counts is above X / Y, so are
\* the sums, as soon as one of them counts.  (Both signs of X and Y are used.)
LEMMA SumsAbove ==
  ASSUME NEW vs \in Seq(Vouches), NEW counted \in SUBSET Vouches, NEW X \in Int, NEW Y \in Int,
         \A v \in counted : Weight(v) > 0 /\ X * Record(v)[2] < Record(v)[1] * Y
  PROVE  LET all == Sums(vs, counted)[Len(vs)] IN
         /\ all \in Tallies
         /\ IF \E n \in 1..Len(vs) : vs[n] \in counted
            THEN all.den > 0 /\ X * (all.den * all.num[2]) < all.num[1] * Y
            ELSE all.den = 0
<1> DEFINE N == Len(vs)
           f == Sums(vs, counted)
           Some(n) == \E k \in 1..n : vs[k] \in counted
           Above(n) == /\ Some(n) => f[n].den > 0 /\ X * (f[n].den * f[n].num[2]) < f[n].num[1] * Y
                       /\ ~Some(n) => f[n] = [num |-> Zero, den |-> 0]
           Held == {n \in 0..N : Above(n)}
<1>1. /\ N \in Nat /\ f \in [0..N -> Tallies] /\ f[0] = [num |-> Zero, den |-> 0]
      /\ \A n \in 1..N : f[n] = IF vs[n] \in counted THEN AddTerm(f[n - 1], vs[n]) ELSE f[n - 1]
      /\ \A n \in 1..N : vs[n] \in Vouches
  BY SumsAdd
<1> HIDE DEF N, f
<1>2. 0 \in Held
  <2>1. ~Some(0) /\ 0 \in 0..N
    BY <1>1
  <2> HIDE DEF Some
  <2> QED BY <1>1, <2>1
<1>3. ASSUME NEW n \in 1..N, n - 1 \in Held PROVE n \in Held
  <2>1. n \in 0..N /\ n - 1 \in 0..N /\ f[n - 1] \in Tallies
    BY <1>1
  <2>2. Some(n) <=> Some(n - 1) \/ vs[n] \in counted
    <3>1. \A k \in 1..n : k \in 1..n - 1 \/ k = n
      BY <1>1
    <3>2. \A k \in 1..n - 1 : k \in 1..n
      BY <1>1
    <3>3. n \in 1..n
      BY <1>1
    <3> QED BY <3>1, <3>2, <3>3
  <2>3. Above(n - 1)
    BY <1>3
  <2> HIDE DEF Some
  <2>4. CASE vs[n] \notin counted
    <3>1. f[n] = f[n - 1]
      BY <1>1, <2>4
    <3> QED BY <2>1, <2>2, <2>3, <2>4, <3>1
  <2>5. CASE vs[n] \in counted
    <3> DEFINE w == Weight(vs[n])
               r1 == Record(vs[n])[1]
               r2 == Record(vs[n])[2]
               a == f[n - 1].num[1]
               b == f[n - 1].num[2]
               d == f[n - 1].den
    <3>1. /\ w \in Nat \ {0} /\ r1 \in Nat /\ r2 \in Nat \ {0} /\ X * r2 < r1 * Y
      BY <1>1, <2>5, Weighs
    <3>2. a \in Nat /\ b \in Nat \ {0} /\ d \in Nat
      BY <2>1 DEF Tallies
    <3>3. f[n] = [num |-> <<(w * r1) * b + a * r2, r2 * b>>, den |-> d + w]
      BY <1>1, <2>5 DEF AddTerm, Plus
    <3>4. X * (d * b) <= a * Y
      <4>1. CASE Some(n - 1)
        <5>1. X * (d * b) < a * Y
          BY <2>3, <4>1
        <5>2. X * (d * b) \in Int /\ a * Y \in Int
          <6> HIDE DEF a, b, d
          <6> QED BY <3>2
        <5> HIDE DEF a, b, d
        <5> QED BY <5>1, <5>2
      <4>2. CASE ~Some(n - 1)
        <5>1. a = 0 /\ d = 0
          BY <2>3, <4>2 DEF Zero
        <5> HIDE DEF a, b, d
        <5> QED BY <3>2, <5>1
      <4> QED BY <4>1, <4>2
    <3> HIDE DEF w, r1, r2, a, b, d
    <3>5. X * ((d + w) * (r2 * b)) < ((w * r1) * b + a * r2) * Y
      BY <3>1, <3>2, <3>4, WeightedStep
    <3>6. d + w > 0
      BY <3>1, <3>2
    <3>7. /\ f[n].den = d + w /\ f[n].num[1] = (w * r1) * b + a * r2 /\ f[n].num[2] = r2 * b
      BY <3>3
    <3> QED BY <2>1, <2>2, <2>5, <3>5, <3>6, <3>7
  <2> QED BY <2>4, <2>5
<1>4. N \in Held
  <2> HIDE DEF Held
  <2>1. 0..N \subseteq Held
    BY <1>1, <1>2, <1>3, UpTo
  <2> QED BY <1>1, <2>1
<1>5. f[N] \in Tallies
  BY <1>1
<1> QED BY <1>4, <1>5 DEF N, f

\* The score is no lower than the worst vouch that counts, and no higher than
\* the best one: all of them above, or below, the mean would contradict it.
LEMMA ScoreBetween ==
  ASSUME NEW s \in Stores, NEW p \in Peers, s.direct[p] = None
  PROVE  IF Counted(s, p) = {} THEN Same(Score(s, p), Zero)
         ELSE /\ \E v \in Counted(s, p) : Leq(Record(v), Score(s, p))
              /\ \E v \in Counted(s, p) : Leq(Score(s, p), Record(v))
<1> DEFINE vs == s.attestations
           C == Counted(s, p)
           all == Sums(vs, C)[Len(vs)]
           A == all.num[1]
           B == all.num[2]
           D == all.den
<1>1. /\ vs \in Seq(Vouches) /\ Len(vs) \in Nat /\ Range(vs) = {vs[n] : n \in 1..Len(vs)}
      /\ Range(vs) \subseteq Vouches
  <2>1. vs \in Seq(Vouches)
    BY DEF Stores
  <2> QED BY <2>1, RangeEquality, LenProperties, ElementOfSeq
<1>2. C \in SUBSET Vouches /\ C \subseteq Range(vs)
      /\ \A v \in C : Weight(v) \in Nat \ {0} /\ Record(v) \in Nat \X (Nat \ {0})
  <2>1. C \subseteq Range(vs) /\ \A v \in C : Trust[SignerOf[v]] > 0
    BY DEF Counted
  <2> HIDE DEF C
  <2> QED BY <1>1, <2>1, Weighs
<1>3. Score(s, p) = IF D = 0 THEN Zero ELSE <<A, B * D>>
  BY DEF Score
<1> HIDE DEF vs, C, all
<1>4. C # {} <=> \E n \in 1..Len(vs) : vs[n] \in C
  BY <1>1, <1>2
<1>5. all \in Tallies
  <2>1. all = Sums(vs, C)[Len(vs)]
    BY DEF all
  <2> QED BY <1>1, <2>1, SumsAdd
<1>6. A \in Nat /\ B \in Nat \ {0} /\ D \in Nat
  BY <1>5 DEF Tallies
<1>7. \A X, Y \in Int :
        (\A v \in C : X * Record(v)[2] < Record(v)[1] * Y) =>
          IF C # {} THEN D > 0 /\ X * (D * B) < A * Y ELSE D = 0
  <2> TAKE X, Y \in Int
  <2> HAVE \A v \in C : X * Record(v)[2] < Record(v)[1] * Y
  <2>1. \A v \in C : Weight(v) > 0 /\ X * Record(v)[2] < Record(v)[1] * Y
    BY <1>2
  <2>2. IF \E n \in 1..Len(vs) : vs[n] \in C
        THEN Sums(vs, C)[Len(vs)].den > 0
             /\ X * (Sums(vs, C)[Len(vs)].den * Sums(vs, C)[Len(vs)].num[2])
                  < Sums(vs, C)[Len(vs)].num[1] * Y
        ELSE Sums(vs, C)[Len(vs)].den = 0
    BY <1>1, <1>2, <2>1, SumsAbove
  <2> QED BY <1>4, <2>2 DEF all
<1>8. CASE C = {}
  <2>1. D = 0
    BY <1>7, <1>8
  <2> QED BY <1>3, <1>8, <2>1 DEF Same, C
<1>9. CASE C # {}
  \* Every record is above -1.
  <2>1. D > 0
    <3>1. \A v \in C : (-1) * Record(v)[2] < Record(v)[1] * 1
      <4> TAKE v \in C
      <4>1. Record(v)[1] \in Nat /\ Record(v)[2] \in Nat \ {0}
        BY <1>2
      <4> QED BY <4>1
    <3> QED BY <1>7, <1>9, <3>1
  <2>2. Score(s, p) = <<A, B * D>>
    BY <1>3, <2>1
  <2> HIDE DEF A, B, D
  <2>3. B * D \in Nat
    BY <1>6
  <2>4. \E v \in C : Leq(Record(v), Score(s, p))
    <3> SUFFICES ASSUME \A v \in C : ~Leq(Record(v), Score(s, p)) PROVE FALSE
      OBVIOUS
    <3>1. \A v \in C : A * Record(v)[2] < Record(v)[1] * (B * D)
      <4> TAKE v \in C
      <4>1. Record(v)[1] \in Nat /\ Record(v)[2] \in Nat
        BY <1>2
      <4>2. ~(Record(v)[1] * (B * D) <= A * Record(v)[2])
        BY <2>2 DEF Leq
      <4>3. Record(v)[1] * (B * D) \in Int /\ A * Record(v)[2] \in Int
        BY <1>6, <2>3, <4>1
      <4> QED BY <4>2, <4>3
    <3>2. A * (D * B) < A * (B * D)
      BY <1>6, <1>7, <1>9, <2>3, <3>1
    <3>3. D * B = B * D /\ A * (B * D) \in Int
      BY <1>6, <2>3
    <3> QED BY <3>2, <3>3
  <2>5. \E v \in C : Leq(Score(s, p), Record(v))
    <3> SUFFICES ASSUME \A v \in C : ~Leq(Score(s, p), Record(v)) PROVE FALSE
      OBVIOUS
    <3>1. \A v \in C : (-A) * Record(v)[2] < Record(v)[1] * (-(B * D))
      <4> TAKE v \in C
      <4> DEFINE r1 == Record(v)[1]
                 r2 == Record(v)[2]
                 y == B * D
      <4>1. r1 \in Nat /\ r2 \in Nat /\ y \in Nat /\ A \in Nat
        BY <1>2, <1>6, <2>3
      <4>2. ~(A * r2 <= r1 * y)
        BY <2>2 DEF Leq
      <4> HIDE DEF r1, r2, y
      <4>3. A * r2 \in Int /\ r1 * y \in Int /\ (-A) * r2 = -(A * r2) /\ r1 * (-y) = -(r1 * y)
        BY <4>1
      <4>4. (-A) * r2 < r1 * (-y)
        BY <4>2, <4>3
      <4> QED BY <4>4 DEF r1, r2, y
    <3>2. (-A) * (D * B) < A * (-(B * D))
      <4>1. -A \in Int /\ -(B * D) \in Int
        BY <1>6, <2>3
      <4> QED BY <1>7, <1>9, <3>1, <4>1
    <3>3. D * B = B * D /\ A * (B * D) \in Int
          /\ (-A) * (D * B) = -(A * (B * D)) /\ A * (-(B * D)) = -(A * (B * D))
      BY <1>6, <2>3
    <3> QED BY <3>2, <3>3
  <2> QED BY <1>9, <2>4, <2>5 DEF C
<1> QED BY <1>8, <1>9

\* trust_score without own experience is a mean of what the standing vouches
\* of trusted signers say, in every store of every job.
THEOREM ScoresAreMeans == Spec => []ScoreIsAMean
<1>1. TypeOK => ScoreIsAMean
  <2> SUFFICES ASSUME TypeOK, NEW j \in Jobs, NEW p \in Peers, store[j].direct[p] = None
               PROVE  LET s == store[j] IN
                      IF Standing(s, p) = {} THEN Same(Score(s, p), Zero)
                      ELSE /\ \E v \in Standing(s, p) : Leq(Record(v), Score(s, p))
                           /\ \E v \in Standing(s, p) : Leq(Score(s, p), Record(v))
    BY DEF ScoreIsAMean
  <2>1. store[j] \in Stores
    BY DEF TypeOK
  <2>2. Standing(store[j], p) = Counted(store[j], p)
    BY DEF Standing, Counted, Revoked
  <2> QED BY <2>1, <2>2, ScoreBetween
<1> QED BY <1>1, StoreInvariant, PTL
=============================================================================
