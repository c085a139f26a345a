\* Four keys and every graph of up to five subscribes; two hops, so that a
\* chain can be too long.
CONSTANTS
  k0 = k0
  k1 = k1
  k2 = k2
  k3 = k3
  Keys = {k0, k1, k2, k3}
  Root = k0
  MaxHops = 2
  MaxEdges = 5
  Graphs <- MCGraphs
SPECIFICATION SearchSpec
INVARIANTS
  ShortestPath
  SybilsGetNothing
\* The search ends.
CHECK_DEADLOCK FALSE
