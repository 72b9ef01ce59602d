------------------------------ MODULE FlowGraph ------------------------------
(***************************************************************************)
(* Control-flow graphs and what the analyses are about: reachability and   *)
(* dominance, defined by paths.  A graph gives each block 1..n the targets *)
(* of its terminator in order; block 1 is the entry.                       *)
(***************************************************************************)
EXTENDS Lists

Blocks(g) == DOMAIN g

(* There is an entry, and the targets are blocks.                          *)
IsGraph(g) == g # <<>> /\ g \in Seq(Seq(1..Len(g)))

(* Cfg::compute: the successors, and the predecessors in the order in      *)
(* which the blocks are walked, one entry per edge.                        *)
Successors(g, b) == g[b]
Edges(g, s, b) == {j \in DOMAIN g[s] : g[s][j] = b}
Predecessors(g, b) ==
  FlattenSeq([s \in 1..Len(g) |-> [j \in 1..Cardinality(Edges(g, s, b)) |-> s]])

(* The blocks some path from the entry reaches without going through x.    *)
ReachAvoiding(g, x) ==
  LET next(S) == S \cup ((UNION {ToSet(g[b]) : b \in S}) \ {x})
      round[n \in Nat] == IF n = 0 THEN {1} \ {x} ELSE LET S == round[n - 1] IN next(S)
  IN  round[Len(g)]

Reachable(g) == ReachAvoiding(g, 0)

(* a dominates b: every path from the entry to b goes through a.           *)
Dominates(g, a, b) == a = b \/ (b \in Reachable(g) /\ b \notin ReachAvoiding(g, a))
StrictlyDominates(g, a, b) == a # b /\ Dominates(g, a, b)

(* The immediate dominator: the strict dominator all others dominate.      *)
IsIdom(g, a, b) ==
  /\ StrictlyDominates(g, a, b)
  /\ \A c \in Blocks(g) : StrictlyDominates(g, c, b) => Dominates(g, c, a)
=============================================================================
