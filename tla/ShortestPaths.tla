---------------------------- MODULE ShortestPaths ----------------------------
(* Shortest paths by their definition: what LDSP.c, LSP.c and CDAPSP_DE.c    *)
(* of the library src/dsp promise to compute, each in a way of its own.      *)
(* Weights are numbers below Infinity (LType_MAX_UI4); an edge that is not   *)
(* in the graph has weight Infinity, and so has a path that uses one.        *)
EXTENDS Naturals, Sequences, FiniteSets
LOCAL INSTANCE FiniteSetsExt
LOCAL INSTANCE SequencesExt

CONSTANTS Vertices, Infinity

Pairs == {p \in Vertices \X Vertices : p[1] # p[2]}

Source(p) == p[1]
Target(p) == p[Len(p)]

\* A path has an edge or none, and no repeated vertex.
IsPath(p) == p \in Seq(Vertices) /\ p # <<>> /\ IsInjective(p)

\* The weight of a way that goes on.
Plus(d, w) == IF d = Infinity \/ w = Infinity THEN Infinity ELSE d + w

PathWeight(weight, p) ==
  LET upTo[i \in 1 .. Len(p)] ==
        IF i = 1 THEN 0 ELSE Plus(upTo[i - 1], weight[<<p[i - 1], p[i]>>])
  IN  upTo[Len(p)]

\* The least weight of a walk of at most n edges from x to each vertex.
\* Weights are not negative, so that Cardinality(Vertices) - 1 edges will do.
Distances(weight, x) ==
  LET within[n \in Nat] ==
        IF n = 0 THEN [y \in Vertices |-> IF y = x THEN 0 ELSE Infinity]
        ELSE LET less == within[n - 1] IN
             [y \in Vertices |->
                Min({less[y]} \cup {Plus(less[z], weight[<<z, y>>]) : z \in Vertices \ {y}})]
  IN  within[Cardinality(Vertices) - 1]
=============================================================================
