------------------------------ MODULE TrustGraph ------------------------------
(***************************************************************************)
(* build_trust_graph of src/node.py: a breadth-first search from the       *)
(* client's own key through the subscribe events that relays returned, at  *)
(* most MaxHops deep.  A key's trust is decay^n, n the hop that reached    *)
(* it; the model keeps n, and 0 for a key that is not in the result.       *)
(*                                                                         *)
(* Sets are iterated in an order Python does not fix: the order in which a *)
(* frontier's keys are expanded is left open.                              *)
(***************************************************************************)
EXTENDS Integers

CONSTANTS
  Keys,      \* public keys
  Root,      \* root_pubkey, the client's own
  MaxHops,   \* max_hops
  Graphs     \* the sets of subscribe events to start from, as pairs <<signer, target>>

ASSUME RootAssumption == Root \in Keys
ASSUME MaxHopsAssumption == MaxHops \in Nat
ASSUME GraphsAssumption == Graphs \subseteq SUBSET (Keys \X Keys)

VARIABLES
  edges,     \* edges
  hop,       \* hop
  todo,      \* keys of `frontier` the loop has not come to
  next,      \* next_frontier, and frontier between two hops
  seen,      \* seen
  trust      \* trust: the hop that reached a key, or 0

searchVars == <<edges, hop, todo, next, seen, trust>>

SearchTypeOK ==
  /\ edges \in SUBSET (Keys \X Keys)
  /\ hop \in 0..MaxHops
  /\ todo \in SUBSET Keys
  /\ next \in SUBSET Keys
  /\ seen \in SUBSET Keys
  /\ trust \in [Keys -> 0..MaxHops]

SearchInit ==
  /\ edges \in Graphs
  /\ hop = 0
  /\ todo = {}
  /\ next = {Root}
  /\ seen = {Root}
  /\ trust = [k \in Keys |-> 0]

Targets(a) == {b \in Keys : <<a, b>> \in edges}

\* while frontier and hop < max_hops
StartHop ==
  /\ todo = {} /\ next # {} /\ hop < MaxHops
  /\ hop' = hop + 1
  /\ todo' = next
  /\ next' = {}
  /\ UNCHANGED <<edges, seen, trust>>

\* Mutant of Expand: a later path overrides an earlier, shorter one.
ExpandSeen(a) ==
  /\ a \in todo
  /\ LET new == Targets(a) \ {Root} IN
     /\ seen' = seen \cup new
     /\ trust' = [k \in Keys |-> IF k \in new THEN hop ELSE trust[k]]
     /\ next' = next \cup (new \ seen)
  /\ todo' = todo \ {a}
  /\ UNCHANGED <<edges, hop>>

\* Mutant of Expand: an event is an edge in either direction.
ExpandBothWays(a) ==
  /\ a \in todo
  /\ LET new == (Targets(a) \cup {b \in Keys : <<b, a>> \in edges}) \ seen IN
     /\ seen' = seen \cup new
     /\ trust' = [k \in Keys |-> IF k \in new THEN hop ELSE trust[k]]
     /\ next' = next \cup new
  /\ todo' = todo \ {a}
  /\ UNCHANGED <<edges, hop>>

\* The body of the loop over the frontier: every target of a not seen yet.
Expand(a) ==
  /\ a \in todo
  /\ LET new == Targets(a) \ seen IN
     /\ seen' = seen \cup new
     /\ trust' = [k \in Keys |-> IF k \in new THEN hop ELSE trust[k]]
     /\ next' = next \cup new
  /\ todo' = todo \ {a}
  /\ UNCHANGED <<edges, hop>>

SearchNext == StartHop \/ \E a \in Keys : Expand(a)
SearchSpec == SearchInit /\ [][SearchNext]_searchVars

Done == todo = {} /\ (next = {} \/ hop = MaxHops)

(***************************************************************************)
(* What the result means.  A walk of n subscribes from the root ends at k. *)
(***************************************************************************)
Walk(w, k, n) ==
  /\ w[0] = Root /\ w[n] = k
  /\ \A i \in 0..(n - 1) : <<w[i], w[i + 1]>> \in edges
Reaches(k, n) == \E w \in [0..n -> Keys] : Walk(w, k, n)

\* A key's trust is that of the shortest chain of subscribes from the root,
\* whatever other chains there are and in whatever order sets are iterated;
\* a key without a chain of at most MaxHops has none, and neither has the
\* root.
ShortestPath ==
  Done =>
    /\ trust[Root] = 0
    /\ \A k \in Keys : trust[k] > 0 => Reaches(k, trust[k])
    /\ \A k \in Keys \ {Root} : \A n \in 0..MaxHops :
         Reaches(k, n) => trust[k] \in 1..n

\* A set of keys that nobody outside it subscribes to gains no trust at any
\* moment of the search, however many keys and mutual subscribes it has.
SybilsGetNothing ==
  \A S \in SUBSET (Keys \ {Root}) :
    (\A e \in edges : e[2] \in S => e[1] \in S) => \A k \in S : trust[k] = 0

(***************************************************************************)
(* The strengthening that the proofs use.                                  *)
(***************************************************************************)

\* The keys of a frontier are those of one hop, those of the next are of the
\* current hop, and both are seen.
Frontiers ==
  /\ \A k \in todo : k \in seen /\ trust[k] = hop - 1
  /\ \A k \in next : k \in seen /\ trust[k] = hop
  /\ hop = 0 => todo = {}
  /\ \A k \in Keys : trust[k] <= hop

\* What is seen and not waiting in a frontier has been expanded.
Expanded(k) == k \in seen \ (todo \cup next)
FrontiersCoverHops ==
  /\ \A k \in Keys : k \in seen /\ trust[k] = hop => k \in next
  /\ \A a, b \in Keys :
       Expanded(a) /\ <<a, b>> \in edges => b \in seen /\ trust[b] <= trust[a] + 1

\* Exactly the keys seen have trust, the root apart, and each was reached by
\* a subscribe of a key one hop nearer.
SeenIsTrusted ==
  /\ Root \in seen /\ trust[Root] = 0
  /\ \A k \in Keys \ {Root} : k \in seen <=> trust[k] > 0
  /\ \A k \in Keys \ {Root} : k \in seen =>
       \E a \in Keys : a \in seen /\ <<a, k>> \in edges /\ trust[k] = trust[a] + 1

SearchInv == SearchTypeOK /\ Frontiers /\ FrontiersCoverHops /\ SeenIsTrusted
=============================================================================
