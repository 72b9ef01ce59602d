------------------------------ MODULE LoopsProofs ------------------------------
(***************************************************************************)
(* Theorems about control-flow graphs, for every graph: what the rounds of *)
(* ReachAvoiding compute, the laws of dominance, what Predecessors lists.  *)
(* And about the analyses, for every set of graphs.  The reachability sweep*)
(* and the post-order of Cfg: the search visits exactly the reachable      *)
(* blocks, and the order it leaves behind respects dominance.  DomTree:    *)
(* the fingers of intersect always meet, and when no round changes anything*)
(* any more the tree is the dominator tree, from which dominates and the   *)
(* dominance frontier are read off.  LoopInfo: what is collected backwards *)
(* from the tail of a back edge is a natural loop; loops around a reachable*)
(* block nest unless they share a header; the parent links lead through    *)
(* all of them.                                                            *)
(***************************************************************************)
EXTENDS Loops, DataLemmas

(* There is a path of one edge from a to b.                                *)
Edge(gr, a, b) == a \in Blocks(gr) /\ b \in ToSet(gr[a])

(* What IsGraph gives: the blocks are numbered from 1 without a gap, and   *)
(* the successors of each are among them.                                  *)
LEMMA GraphFacts ==
  ASSUME NEW gr, IsGraph(gr)
  PROVE  /\ Len(gr) \in Nat \ {0}
         /\ Blocks(gr) = 1..Len(gr)
         /\ 1 \in Blocks(gr)
         /\ \A b \in Blocks(gr) : gr[b] \in Seq(Blocks(gr)) /\ ToSet(gr[b]) \subseteq Blocks(gr)
         /\ IsFiniteSet(Blocks(gr)) /\ Cardinality(Blocks(gr)) = Len(gr)
<1>1. gr \in Seq(Seq(1..Len(gr))) /\ gr # <<>>
  BY DEF IsGraph
<1>2. Len(gr) \in Nat \ {0} /\ DOMAIN gr = 1..Len(gr)
  BY <1>1
<1>3. \A b \in 1..Len(gr) : gr[b] \in Seq(1..Len(gr))
  BY <1>1, <1>2
<1>4. \A b \in 1..Len(gr) : ToSet(gr[b]) \subseteq 1..Len(gr)
  <2> SUFFICES ASSUME NEW b \in 1..Len(gr), NEW t \in ToSet(gr[b]) PROVE t \in 1..Len(gr)
    OBVIOUS
  <2>1. PICK i \in DOMAIN gr[b] : t = gr[b][i]
    BY DEF ToSet
  <2> QED
    BY <1>3, <2>1
<1>5. IsFiniteSet(1..Len(gr)) /\ Cardinality(1..Len(gr)) = Len(gr)
  BY <1>2, Positions
<1> QED
  BY <1>2, <1>3, <1>4, <1>5 DEF Blocks

-----------------------------------------------------------------------------
(* One round of ReachAvoiding.                                             *)
Grown(gr, x, S) == S \cup ((UNION {ToSet(gr[b]) : b \in S}) \ {x})

(* A round of ReachAvoiding keeps what was reached and adds the targets of *)
(* its edges, x left out.                                                  *)
LEMMA GrownFacts ==
  ASSUME NEW gr, IsGraph(gr), NEW x, NEW S, S \subseteq Blocks(gr)
  PROVE  /\ Grown(gr, x, S) \subseteq Blocks(gr)
         /\ S \subseteq Grown(gr, x, S)
         /\ \A b \in S : \A t \in ToSet(gr[b]) : t # x => t \in Grown(gr, x, S)
         /\ x \notin S => x \notin Grown(gr, x, S)
         /\ \A t \in Grown(gr, x, S) : t \in S \/ (t # x /\ \E b \in S : Edge(gr, b, t))
<1>1. \A b \in S : b \in Blocks(gr) /\ ToSet(gr[b]) \subseteq Blocks(gr)
  BY GraphFacts
<1> DEFINE U == UNION {ToSet(gr[b]) : b \in S}
<1>0. \A t : t \in U <=> \E b \in S : t \in ToSet(gr[b])
  BY Zenon
<1>5. Grown(gr, x, S) = S \cup (U \ {x})
  BY DEF Grown
<1> HIDE DEF U
<1>2. \A t \in Grown(gr, x, S) : t \in S \/ (t # x /\ \E b \in S : t \in ToSet(gr[b]))
  BY <1>0, <1>5
<1>3. \A t \in Grown(gr, x, S) : t \in S \/ (t # x /\ \E b \in S : Edge(gr, b, t))
  BY <1>1, <1>2 DEF Edge
<1>4. /\ S \subseteq Grown(gr, x, S)
      /\ \A b \in S : \A t \in ToSet(gr[b]) : t # x => t \in Grown(gr, x, S)
      /\ x \notin S => x \notin Grown(gr, x, S)
  BY <1>0, <1>5
<1> QED
  BY <1>1, <1>2, <1>3, <1>4

(* ReachAvoiding is the last of a chain of rounds, one per block.          *)
LEMMA ReachRounds ==
  ASSUME NEW gr, IsGraph(gr), NEW x
  PROVE  \E f \in [Nat -> SUBSET Blocks(gr)] :
           /\ f[0] = {1} \ {x}
           /\ \A n \in Nat : f[n + 1] = Grown(gr, x, f[n])
           /\ ReachAvoiding(gr, x) = f[Len(gr)]
<1> DEFINE T == SUBSET Blocks(gr)
           base == [i \in {0} |-> {1} \ {x}]
           pre == [i \in Nat |-> i - 1]
           step == [p \in Nat \X T |-> Grown(gr, x, p[2])]
           Rec(f) == f = [n \in Nat |-> IF n = 0 THEN {1} \ {x} ELSE Grown(gr, x, f[n - 1])]
           round == CHOOSE f : Rec(f)
<1>1. WellPosed(Nat, T, {0}, base, pre, step)
  <2>1. \A i \in Nat \cap {0} : base[i] \in T
    BY GraphFacts
  <2>2. \A i \in Nat \ {0} : pre[i] \in Nat /\ pre[i] < i
    OBVIOUS
  <2>3. \A i \in Nat : \A t \in T : step[<<i, t>>] = Grown(gr, x, t)
    OBVIOUS
  <2>4. \A t \in T : Grown(gr, x, t) \in T
    BY GrownFacts
  <2> QED
    BY <2>1, <2>2, <2>3, <2>4 DEF WellPosed
<1>2. \E f : Rec(f)
  <2> HIDE DEF T, base, pre, step
  <2>1. PICK f \in [Nat -> T] : \A i \in Nat : f[i] = Value(f, i, {0}, base, pre, step)
    BY <1>1, RecursiveFunction
  <2> USE DEF T, base, pre, step
  <2>2. \A i \in Nat : f[i] = IF i = 0 THEN {1} \ {x} ELSE Grown(gr, x, f[i - 1])
    <3> SUFFICES ASSUME NEW i \in Nat
                 PROVE  f[i] = IF i = 0 THEN {1} \ {x} ELSE Grown(gr, x, f[i - 1])
      OBVIOUS
    <3>1. i # 0 => i - 1 \in Nat /\ pre[i] = i - 1 /\ f[i - 1] \in T
      BY <2>1
    <3>2. i # 0 => step[<<i, f[i - 1]>>] = Grown(gr, x, f[i - 1])
      BY <3>1
    <3>3. base[0] = {1} \ {x}
      OBVIOUS
    <3>4. f[i] = IF i \in {0} THEN base[i] ELSE step[<<i, f[pre[i]]>>]
      BY <2>1 DEF Value
    <3> HIDE DEF base, step, pre
    <3> QED
      BY <3>1, <3>2, <3>3, <3>4
  <2> QED
    BY <2>1, <2>2
<1>3. Rec(round)
  BY <1>2
<1>4. round[0] = {1} \ {x} /\ \A n \in Nat : round[n + 1] = Grown(gr, x, round[n])
  <2> HIDE DEF round
  <2>1. \A n \in Nat : round[n] = IF n = 0 THEN {1} \ {x} ELSE Grown(gr, x, round[n - 1])
    BY <1>3
  <2>2. \A n \in Nat : n + 1 \in Nat /\ n + 1 # 0 /\ (n + 1) - 1 = n
    OBVIOUS
  <2> QED
    BY <2>1, <2>2
<1>5. ReachAvoiding(gr, x) = round[Len(gr)]
  BY DEF ReachAvoiding, Grown
<1> HIDE DEF round
<1>6. \A n \in Nat : round[n] \in T
  <2>1. round[0] \in T
    BY <1>4, GraphFacts
  <2>2. \A n \in Nat : round[n] \in T => round[n + 1] \in T
    BY <1>4, GrownFacts
  <2> DEFINE S == {n \in Nat : round[n] \in T}
  <2>3. 0 \in S /\ \A n \in Nat : n \in S => n + 1 \in S
    BY <2>1, <2>2
  <2>4. Nat \subseteq S
    <3> HIDE DEF S
    <3> QED
      BY <2>3, InductionOnSet
  <2> QED
    BY <2>4
<1>7. round \in [Nat -> T]
  BY <1>3, <1>6
<1> QED
  BY <1>4, <1>5, <1>7

(* An increasing chain of subsets of a finite set, each a function of the  *)
(* one before, has stopped growing when there are no elements left.        *)
LEMMA GrowingChain ==
  ASSUME NEW U, IsFiniteSet(U), NEW f \in [Nat -> SUBSET U],
         \A n \in Nat : f[n] \subseteq f[n + 1],
         \A n \in Nat : f[n + 1] = f[n] => f[(n + 1) + 1] = f[n + 1]
  PROVE  f[Cardinality(U) + 1] = f[Cardinality(U)]
<1> DEFINE L == Cardinality(U)
<1>1. L \in Nat
  BY FS_CardinalityType
<1>2. SUFFICES ASSUME f[L + 1] # f[L] PROVE FALSE
  OBVIOUS
<1>3. \A n \in Nat : n <= L => f[n + 1] # f[n]
  <2> SUFFICES ASSUME NEW n \in Nat, n <= L, f[n + 1] = f[n] PROVE FALSE
    OBVIOUS
  <2> DEFINE S == {d \in Nat : f[(n + d) + 1] = f[n + d]}
  <2>1. 0 \in S
    OBVIOUS
  <2>2. \A d \in Nat : d \in S => d + 1 \in S
    <3> SUFFICES ASSUME NEW d \in Nat, f[(n + d) + 1] = f[n + d]
                 PROVE  f[(n + (d + 1)) + 1] = f[n + (d + 1)]
      OBVIOUS
    <3>1. n + d \in Nat /\ n + (d + 1) = (n + d) + 1
      OBVIOUS
    <3> QED
      BY <3>1
  <2>3. Nat \subseteq S
    <3> HIDE DEF S
    <3> QED
      BY <2>1, <2>2, InductionOnSet
  <2>4. L - n \in Nat /\ n + (L - n) = L
    BY <1>1
  <2>5. f[(n + (L - n)) + 1] = f[n + (L - n)]
    BY <2>3, <2>4
  <2> QED
    BY <1>2, <2>4, <2>5
<1>4. \A n \in Nat : IsFiniteSet(f[n]) /\ Cardinality(f[n]) \in Nat /\ Cardinality(f[n]) <= L
  BY FS_Subset, FS_CardinalityType
<1>5. \A n \in Nat : n <= L => Cardinality(f[n]) + 1 <= Cardinality(f[n + 1])
  <2> SUFFICES ASSUME NEW n \in Nat, n <= L
               PROVE  Cardinality(f[n]) + 1 <= Cardinality(f[n + 1])
    OBVIOUS
  <2>1. n + 1 \in Nat /\ f[n] \subseteq f[n + 1] /\ f[n] # f[n + 1]
    BY <1>3
  <2>2. f[n] \in SUBSET f[n + 1] /\ IsFiniteSet(f[n + 1])
    BY <1>4, <2>1
  <2>3. /\ Cardinality(f[n]) <= Cardinality(f[n + 1])
        /\ Cardinality(f[n + 1]) # Cardinality(f[n])
    BY <2>1, <2>2, FS_Subset
  <2>4. Cardinality(f[n]) \in Nat /\ Cardinality(f[n + 1]) \in Nat
    BY <1>4, <2>1
  <2> QED
    BY <2>3, <2>4
<1> DEFINE Big == {n \in Nat : n <= L + 1 => n <= Cardinality(f[n])}
<1>6. Nat \subseteq Big
  <2>1. 0 \in Big
    BY <1>4
  <2>2. \A n \in Nat : n \in Big => n + 1 \in Big
    <3> SUFFICES ASSUME NEW n \in Nat, n \in Big, n + 1 <= L + 1
                 PROVE  n + 1 <= Cardinality(f[n + 1])
      OBVIOUS
    <3>1. n <= L /\ n + 1 \in Nat /\ Cardinality(f[n]) \in Nat /\ Cardinality(f[n + 1]) \in Nat
      BY <1>1, <1>4
    <3>2. n <= Cardinality(f[n])
      BY <1>1, <3>1
    <3> QED
      BY <1>5, <3>1, <3>2
  <2> HIDE DEF Big
  <2> QED
    BY <2>1, <2>2, InductionOnSet
<1>7. L + 1 \in Big
  BY <1>1, <1>6
<1> QED
  BY <1>1, <1>4, <1>7

-----------------------------------------------------------------------------
(* ReachAvoiding is the least set that has the entry, unless that is x, and *)
(* the targets of its blocks, but x.                                        *)
LEMMA ReachClosed ==
  ASSUME NEW gr, IsGraph(gr), NEW x
  PROVE  /\ ReachAvoiding(gr, x) \subseteq Blocks(gr)
         /\ x \notin ReachAvoiding(gr, x)
         /\ x # 1 => 1 \in ReachAvoiding(gr, x)
         /\ \A a, b : a \in ReachAvoiding(gr, x) /\ Edge(gr, a, b) /\ b # x
                        => b \in ReachAvoiding(gr, x)
<1> DEFINE R == ReachAvoiding(gr, x)
           L == Len(gr)
<1>1. PICK f \in [Nat -> SUBSET Blocks(gr)] :
        /\ f[0] = {1} \ {x}
        /\ \A n \in Nat : f[n + 1] = Grown(gr, x, f[n])
        /\ R = f[L]
  BY ReachRounds
<1>2. L \in Nat /\ Cardinality(Blocks(gr)) = L /\ IsFiniteSet(Blocks(gr))
  BY GraphFacts
<1>3. \A n \in Nat : f[n] \subseteq f[n + 1]
  <2> SUFFICES ASSUME NEW n \in Nat PROVE f[n] \subseteq f[n + 1]
    OBVIOUS
  <2>1. f[n] \subseteq Blocks(gr) /\ f[n + 1] = Grown(gr, x, f[n])
    BY <1>1
  <2> QED
    BY <2>1, GrownFacts
<1>4. \A n \in Nat : f[n + 1] = f[n] => f[(n + 1) + 1] = f[n + 1]
  <2> SUFFICES ASSUME NEW n \in Nat, f[n + 1] = f[n] PROVE f[(n + 1) + 1] = f[n + 1]
    OBVIOUS
  <2>1. n + 1 \in Nat
    OBVIOUS
  <2>2. f[(n + 1) + 1] = Grown(gr, x, f[n + 1]) /\ f[n + 1] = Grown(gr, x, f[n])
    BY <1>1, <2>1
  <2> QED
    BY <2>2
<1>5. f[L + 1] = f[L]
  BY <1>2, <1>3, <1>4, GrowingChain
<1>6. R \subseteq Blocks(gr) /\ Grown(gr, x, R) = R
  BY <1>1, <1>2, <1>5
<1> DEFINE S == {n \in Nat : x \notin f[n] /\ f[0] \subseteq f[n]}
<1>7. Nat \subseteq S
  <2>1. 0 \in S
    BY <1>1
  <2>2. \A n \in Nat : n \in S => n + 1 \in S
    <3> SUFFICES ASSUME NEW n \in Nat, x \notin f[n], f[0] \subseteq f[n]
                 PROVE  x \notin f[n + 1] /\ f[0] \subseteq f[n + 1]
      OBVIOUS
    <3>1. f[n] \subseteq Blocks(gr) /\ f[n + 1] = Grown(gr, x, f[n])
      BY <1>1
    <3> QED
      BY <3>1, GrownFacts
  <2> HIDE DEF S
  <2> QED
    BY <2>1, <2>2, InductionOnSet
<1>8. x \notin R /\ f[0] \subseteq R
  BY <1>1, <1>2, <1>7
<1>9. \A a \in R : \A b \in ToSet(gr[a]) : b # x => b \in R
  BY <1>6, GrownFacts
<1> HIDE DEF R
<1>10. \A a, b : a \in R /\ Edge(gr, a, b) /\ b # x => b \in R
  BY <1>9 DEF Edge
<1> QED
  BY <1>1, <1>6, <1>8, <1>10 DEF R

(* ReachAvoiding is the least such set: what contains the entry and is     *)
(* closed under edges that do not lead to x contains it.                   *)
LEMMA ReachLeast ==
  ASSUME NEW gr, IsGraph(gr), NEW x, NEW S,
         x # 1 => 1 \in S,
         \A a, b : a \in S /\ Edge(gr, a, b) /\ b # x => b \in S
  PROVE  ReachAvoiding(gr, x) \subseteq S
<1>1. PICK f \in [Nat -> SUBSET Blocks(gr)] :
        /\ f[0] = {1} \ {x}
        /\ \A n \in Nat : f[n + 1] = Grown(gr, x, f[n])
        /\ ReachAvoiding(gr, x) = f[Len(gr)]
  BY ReachRounds
<1> DEFINE In == {n \in Nat : f[n] \subseteq S}
<1>2. 0 \in In
  BY <1>1
<1>3. \A n \in Nat : n \in In => n + 1 \in In
  <2> SUFFICES ASSUME NEW n \in Nat, f[n] \subseteq S, NEW t \in f[n + 1] PROVE t \in S
    OBVIOUS
  <2>1. f[n] \subseteq Blocks(gr) /\ t \in Grown(gr, x, f[n])
    BY <1>1
  <2>2. t \in f[n] \/ (t # x /\ \E b \in f[n] : Edge(gr, b, t))
    BY <2>1, GrownFacts
  <2> QED
    BY <2>2
<1>4. Nat \subseteq In
  <2> HIDE DEF In
  <2> QED
    BY <1>2, <1>3, InductionOnSet
<1> QED
  BY <1>1, <1>4, GraphFacts

-----------------------------------------------------------------------------
(* The laws of dominance, for blocks that are reachable.                   *)
LEMMA ReachableFacts ==
  ASSUME NEW gr, IsGraph(gr)
  PROVE  /\ Reachable(gr) \subseteq Blocks(gr)
         /\ 1 \in Reachable(gr)
         /\ \A a, b : a \in Reachable(gr) /\ Edge(gr, a, b) => b \in Reachable(gr)
         /\ \A x : ReachAvoiding(gr, x) \subseteq Reachable(gr)
<1>1. 0 \notin Blocks(gr)
  BY GraphFacts
<1>2. /\ Reachable(gr) \subseteq Blocks(gr)
      /\ 1 \in Reachable(gr)
      /\ \A a, b : a \in Reachable(gr) /\ Edge(gr, a, b) /\ b # 0 => b \in Reachable(gr)
  BY ReachClosed DEF Reachable
<1>3. \A a, b : Edge(gr, a, b) => b \in Blocks(gr)
  BY GraphFacts DEF Edge
<1>4. \A a, b : a \in Reachable(gr) /\ Edge(gr, a, b) => b \in Reachable(gr)
  BY <1>1, <1>2, <1>3
<1>5. \A x : ReachAvoiding(gr, x) \subseteq Reachable(gr)
  BY <1>2, <1>4, ReachLeast
<1> QED
  BY <1>2, <1>4, <1>5

(* A strict dominator is reached before what it dominates.                 *)
LEMMA DominatorReachable ==
  ASSUME NEW gr, IsGraph(gr), NEW a, NEW b, StrictlyDominates(gr, a, b)
  PROVE  a \in Reachable(gr) /\ b \in Reachable(gr) /\ b # 1
<1>1. a # b /\ b \in Reachable(gr) /\ b \notin ReachAvoiding(gr, a)
  BY DEF StrictlyDominates, Dominates
<1>2. ASSUME a \notin Reachable(gr) PROVE FALSE
  <2>1. a # 1
    BY <1>2, ReachableFacts
  <2>2. \A p, q : p \in ReachAvoiding(gr, a) /\ Edge(gr, p, q) => q \in ReachAvoiding(gr, a)
    <3> SUFFICES ASSUME NEW p, NEW q, p \in ReachAvoiding(gr, a), Edge(gr, p, q)
                 PROVE  q \in ReachAvoiding(gr, a)
      OBVIOUS
    <3>1. q # a
      BY <1>2, ReachableFacts
    <3> QED
      BY <3>1, ReachClosed
  <2>3. ReachAvoiding(gr, 0) \subseteq ReachAvoiding(gr, a)
    BY <2>1, <2>2, ReachClosed, ReachLeast
  <2> QED
    BY <1>1, <2>3 DEF Reachable
<1>3. b # 1
  <2>1. ASSUME b = 1 PROVE FALSE
    BY <1>1, <2>1, ReachClosed
  <2> QED
    BY <2>1
<1> QED
  BY <1>1, <1>2, <1>3

(* What dominates a block strictly dominates each of its predecessors that *)
(* is reachable.                                                           *)
LEMMA DominatesPredecessor ==
  ASSUME NEW gr, IsGraph(gr), NEW a, NEW b, StrictlyDominates(gr, a, b),
         NEW p \in Reachable(gr), Edge(gr, p, b)
  PROVE  Dominates(gr, a, p)
<1>1. SUFFICES ASSUME a # p, p \in ReachAvoiding(gr, a) PROVE FALSE
  BY DEF Dominates
<1>2. a # b /\ b \notin ReachAvoiding(gr, a)
  BY DEF StrictlyDominates, Dominates
<1> QED
  BY <1>1, <1>2, ReachClosed

(* Dominance is transitive, which DomTree relies on when it walks from     *)
(* parent to parent.                                                       *)
LEMMA DominanceTransitive ==
  ASSUME NEW gr, IsGraph(gr), NEW a, NEW b, NEW c,
         Dominates(gr, a, b), Dominates(gr, b, c)
  PROVE  Dominates(gr, a, c)
<1>1. CASE a = b \/ b = c
  BY <1>1
<1>2. CASE a # b /\ b # c
  <2>1. c \in Reachable(gr) /\ c \notin ReachAvoiding(gr, b) /\ b \notin ReachAvoiding(gr, a)
    BY <1>2 DEF Dominates
  <2>2. \A p, q : p \in ReachAvoiding(gr, a) /\ Edge(gr, p, q) /\ q # a
                    => q \in ReachAvoiding(gr, a)
    BY ReachClosed
  <2>3. ReachAvoiding(gr, a) \subseteq ReachAvoiding(gr, b)
    <3> DEFINE S == {q \in ReachAvoiding(gr, a) : q \in ReachAvoiding(gr, b)}
    <3>1. a # 1 => 1 \in S
      BY <2>1, ReachClosed
    <3>2. \A p, q : p \in S /\ Edge(gr, p, q) /\ q # a => q \in S
      <4> SUFFICES ASSUME NEW p \in S, NEW q, Edge(gr, p, q), q # a PROVE q \in S
        OBVIOUS
      <4>1. q \in ReachAvoiding(gr, a)
        BY <2>2
      <4>2. q # b
        BY <2>1, <4>1
      <4> QED
        BY <4>1, <4>2, ReachClosed
    <3>3. ReachAvoiding(gr, a) \subseteq S
      <4> HIDE DEF S
      <4> QED
        BY <3>1, <3>2, ReachLeast
    <3> QED
      BY <3>3
  <2> QED
    BY <2>1, <2>3 DEF Dominates
<1> QED
  BY <1>1, <1>2

(* Two blocks do not dominate each other.                                  *)
LEMMA DominanceAntisymmetric ==
  ASSUME NEW gr, IsGraph(gr), NEW a, NEW b,
         Dominates(gr, a, b), Dominates(gr, b, a), a \in Reachable(gr)
  PROVE  a = b
<1>1. SUFFICES ASSUME a # b PROVE FALSE
  OBVIOUS
<1>2. /\ a \in Reachable(gr) /\ b \in Reachable(gr)
      /\ b \notin ReachAvoiding(gr, a) /\ a \notin ReachAvoiding(gr, b)
  BY <1>1 DEF Dominates
(* A path from the entry comes to one of them first.                       *)
<1> DEFINE S == ReachAvoiding(gr, a) \cap ReachAvoiding(gr, b)
<1>3. a # 1 /\ b # 1
  BY <1>1, <1>2, ReachClosed
<1>4. 1 \in S
  BY <1>3, ReachClosed
<1>5. \A p, q : p \in S /\ Edge(gr, p, q) => q \in S
  <2> SUFFICES ASSUME NEW p \in S, NEW q, Edge(gr, p, q) PROVE q \in S
    OBVIOUS
  <2>1. q # a
    BY <1>1, <1>2, ReachClosed
  <2>2. q # b
    BY <1>1, <1>2, ReachClosed
  <2> QED
    BY <2>1, <2>2, ReachClosed
<1>6. ReachAvoiding(gr, 0) \subseteq S
  <2> HIDE DEF S
  <2> QED
    BY <1>4, <1>5, ReachLeast
<1>7. a \in S
  BY <1>2, <1>6 DEF Reachable
<1> QED
  BY <1>7, ReachClosed

(* Of two dominators of a block one dominates the other.                   *)
LEMMA DominatorsOrdered ==
  ASSUME NEW gr, IsGraph(gr), NEW a, NEW b, NEW c,
         Dominates(gr, a, c), Dominates(gr, b, c), c \in Reachable(gr)
  PROVE  Dominates(gr, a, b) \/ Dominates(gr, b, a)
<1>1. SUFFICES ASSUME a # b, a # c, b # c,
                      a \in Reachable(gr) => a \in ReachAvoiding(gr, b),
                      b \in Reachable(gr) => b \in ReachAvoiding(gr, a)
               PROVE  FALSE
  BY DEF Dominates
<1>2. c \notin ReachAvoiding(gr, a) /\ c \notin ReachAvoiding(gr, b)
  BY <1>1 DEF Dominates
<1>3. StrictlyDominates(gr, a, c) /\ StrictlyDominates(gr, b, c)
  BY <1>1 DEF StrictlyDominates
<1>4. a \in ReachAvoiding(gr, b) /\ b \in ReachAvoiding(gr, a)
  BY <1>1, <1>3, DominatorReachable
(* From a the block c is reached without b, or from b without a.           *)
<1> DEFINE S == ReachAvoiding(gr, a) \cup ReachAvoiding(gr, b)
<1>5. \A p, q : p \in S /\ Edge(gr, p, q) => q \in S
  <2> SUFFICES ASSUME NEW p \in S, NEW q, Edge(gr, p, q) PROVE q \in S
    OBVIOUS
  <2>1. CASE q = a \/ q = b
    BY <1>4, <2>1
  <2>2. CASE q # a /\ q # b
    BY <2>2, ReachClosed
  <2> QED
    BY <2>1, <2>2
<1>6. 1 \in S
  BY <1>1, ReachClosed
<1>7. ReachAvoiding(gr, 0) \subseteq S
  <2> HIDE DEF S
  <2> QED
    BY <1>5, <1>6, ReachLeast
<1>8. c \in Reachable(gr)
  OBVIOUS
<1> QED
  BY <1>2, <1>7, <1>8 DEF Reachable

-----------------------------------------------------------------------------
(* The predecessors of a block are the sources of the edges to it.         *)
LEMMA PredecessorsFacts ==
  ASSUME NEW gr, IsGraph(gr), NEW b
  PROVE  /\ Predecessors(gr, b) \in Seq(Blocks(gr))
         /\ \A p : p \in ToSet(Predecessors(gr, b)) <=> Edge(gr, p, b)
<1> DEFINE n(s) == Cardinality(Edges(gr, s, b))
           ss == [s \in 1..Len(gr) |-> [j \in 1..n(s) |-> s]]
<1>1. /\ Len(gr) \in Nat \ {0} /\ Blocks(gr) = 1..Len(gr)
      /\ \A s \in 1..Len(gr) : gr[s] \in Seq(Blocks(gr))
  BY GraphFacts
<1>2. \A s \in 1..Len(gr) : n(s) \in Nat /\ (n(s) # 0 <=> Edge(gr, s, b))
  <2> SUFFICES ASSUME NEW s \in 1..Len(gr)
               PROVE  n(s) \in Nat /\ (n(s) # 0 <=> Edge(gr, s, b))
    OBVIOUS
  <2>1. DOMAIN gr[s] = 1..Len(gr[s]) /\ Len(gr[s]) \in Nat
    BY <1>1
  <2>2. IsFiniteSet(1..Len(gr[s]))
    BY <2>1, Positions
  <2>3. Edges(gr, s, b) \in SUBSET DOMAIN gr[s]
    BY DEF Edges
  <2>4. IsFiniteSet(Edges(gr, s, b))
    BY <2>1, <2>2, <2>3, FS_Subset
  <2>5. n(s) \in Nat /\ (n(s) = 0 <=> Edges(gr, s, b) = {})
    BY <2>4, FS_CardinalityType, FS_EmptySet
  <2>6. Edges(gr, s, b) # {} <=> b \in ToSet(gr[s])
    BY DEF Edges, ToSet
  <2> QED
    BY <1>1, <2>5, <2>6 DEF Edge
<1> HIDE DEF n
<1>3. /\ ss \in Seq(Seq(Blocks(gr))) /\ Len(ss) = Len(gr) /\ ss # <<>>
      /\ \A s \in 1..Len(gr) : ss[s] = [j \in 1..n(s) |-> s]
  <2>1. \A s \in 1..Len(gr) : [j \in 1..n(s) |-> s] \in Seq(Blocks(gr))
    BY <1>1, <1>2
  <2> QED
    BY <1>1, <2>1
<1>4. \A s \in 1..Len(gr) : \A p : p \in ToSet(ss[s]) <=> p = s /\ Edge(gr, s, b)
  <2> SUFFICES ASSUME NEW s \in 1..Len(gr), NEW p
               PROVE  p \in ToSet(ss[s]) <=> p = s /\ Edge(gr, s, b)
    OBVIOUS
  <2>1. ss[s] = [j \in 1..n(s) |-> s] /\ n(s) \in Nat
    BY <1>2, <1>3
  <2>2. p \in ToSet(ss[s]) <=> \E j \in 1..n(s) : p = s
    BY <2>1 DEF ToSet
  <2>3. (\E j \in 1..n(s) : TRUE) <=> n(s) # 0
    BY <2>1
  <2> QED
    BY <1>2, <2>2, <2>3
<1>5. Predecessors(gr, b) = FlattenSeq(ss)
  BY DEF Predecessors, n
<1> HIDE DEF ss
<1>6. /\ FlattenSeq(ss) \in Seq(Blocks(gr))
      /\ \A p : p \in ToSet(FlattenSeq(ss)) <=> \E s \in 1..Len(ss) : p \in ToSet(ss[s])
  BY <1>3, FlattenElements
<1>7. \A p : Edge(gr, p, b) => p \in 1..Len(gr)
  BY <1>1 DEF Edge
<1>8. ASSUME NEW p PROVE p \in ToSet(FlattenSeq(ss)) <=> Edge(gr, p, b)
  <2>1. p \in ToSet(FlattenSeq(ss)) <=> \E s \in 1..Len(gr) : p \in ToSet(ss[s])
    BY <1>3, <1>6
  <2> QED
    BY <1>4, <1>7, <2>1
<1> QED
  BY <1>5, <1>6, <1>8

-----------------------------------------------------------------------------
(* What the analysis maintains: the blocks of the search's calls.          *)
Walkers == {calls[i].blk : i \in DOMAIN calls}

CfgTypeOK ==
  /\ IsGraph(g)
  /\ todo \in Seq(Blocks(g))
  /\ reachable \subseteq Blocks(g)
  /\ calls \in Seq([blk : Blocks(g), next : Nat \ {0}])
  /\ visited \subseteq Blocks(g)
  /\ order \in Seq(Blocks(g))

(* What is marked or still to look at is reachable, and closed under the   *)
(* targets of what is marked.                                              *)
SweepInv ==
  /\ reachable \cup ToSet(todo) \subseteq Reachable(g)
  /\ 1 \in reachable \cup ToSet(todo)
  /\ \A a, b : a \in reachable /\ Edge(g, a, b) => b \in reachable \cup ToSet(todo)
  /\ phase # "reach" => todo = <<>>

(* Where the search stands: the blocks it has entered are those of its     *)
(* calls and those it has recorded, each once; the calls follow edges from *)
(* the entry.                                                              *)
CallsInv ==
  /\ phase = "reach" => calls = <<>> /\ visited = {} /\ order = <<>>
  /\ phase \notin {"reach", "order"} => calls = <<>>
  /\ phase # "reach" => 1 \in visited
  /\ visited = Walkers \cup ToSet(order)
  /\ visited \subseteq Reachable(g)
  /\ \A i, j \in DOMAIN order : i # j => order[i] # order[j]
  /\ \A i, j \in DOMAIN calls : i # j => calls[i].blk # calls[j].blk
  /\ \A i \in DOMAIN calls : calls[i].blk \notin ToSet(order)
  /\ calls # <<>> => calls[1].blk = 1
  /\ \A i \in DOMAIN calls : i # 1 => Edge(g, calls[i - 1].blk, calls[i].blk)

(* What the search has passed it has entered.                              *)
ScanInv ==
  /\ \A i \in DOMAIN calls : \A m \in DOMAIN g[calls[i].blk] :
       m < calls[i].next => g[calls[i].blk][m] \in visited
  /\ \A b \in ToSet(order) : ToSet(g[b]) \subseteq visited

(* A recorded block other than the entry was entered from a block that is  *)
(* recorded later, or not yet; the entry comes last.                       *)
ParentInv ==
  /\ \A i \in DOMAIN order :
       order[i] # 1 => \/ \E j \in DOMAIN order : i < j /\ Edge(g, order[j], order[i])
                       \/ \E c \in DOMAIN calls : Edge(g, calls[c].blk, order[i])
  /\ phase # "reach" /\ calls = <<>> => order # <<>> /\ order[Len(order)] = 1

CfgInv == CfgTypeOK /\ SweepInv /\ CallsInv /\ ScanInv /\ ParentInv

-----------------------------------------------------------------------------
(* The steps of the analyses that come after Cfg only move phase on.       *)
CfgQuiet ==
  /\ UNCHANGED <<g, todo, reachable, calls, visited, order>>
  /\ \/ phase' = phase
     \/ /\ phase' \notin {"reach", "order"}
        /\ Ordered \/ phase \notin {"reach", "order"}

(* Every step of the analyses is a step of Cfg or leaves what Cfg computed *)
(* alone.                                                                  *)
LEMMA StepsOfCfg ==
  ASSUME [Next]_vars
  PROVE  CfgNext \/ CfgQuiet
<1> USE DEF CfgQuiet, cfgVars, domVars, domAll, loopVars, fixed, vars, Ordered
<1>1. CASE DomNext
  <2>1. CASE StartDom
    BY <2>1 DEF StartDom
  <2>2. CASE Block
    BY <2>2 DEF Block
  <2>3. CASE Pred
    BY <2>3 DEF Pred
  <2>4. CASE Walk
    BY <2>4 DEF Walk
  <2>5. CASE Meet
    BY <2>5 DEF Meet
  <2>6. CASE Commit
    BY <2>6 DEF Commit
  <2>7. CASE EndRound
    BY <2>7 DEF EndRound
  <2> QED
    BY <1>1, <2>1, <2>2, <2>3, <2>4, <2>5, <2>6, <2>7 DEF DomNext
<1>2. CASE StartSearch
  BY <1>2 DEF StartSearch
<1>3. CASE Search
  BY <1>3 DEF Search
<1>4. CASE StartCollect
  BY <1>4 DEF StartCollect
<1>5. CASE Collect
  BY <1>5 DEF Collect
<1>6. CASE EndLoop
  BY <1>6 DEF EndLoop
<1>7. CASE Nest
  BY <1>7 DEF Nest
<1>8. CASE \E b \in Blocks(g) : Query(b)
  BY <1>8 DEF Query
<1>9. CASE Climb
  BY <1>9 DEF Climb
<1>10. CASE UNCHANGED vars
  BY <1>10
<1> QED
  BY <1>1, <1>2, <1>3, <1>4, <1>5, <1>6, <1>7, <1>8, <1>9, <1>10 DEF Next, Done

-----------------------------------------------------------------------------
(* Cfg::compute starts with the entry on its stack and nothing marked.     *)
LEMMA CfgInitInv ==
  ASSUME CfgInit
  PROVE  CfgInv
<1>1. IsGraph(g)
  BY GraphsAssumption DEF CfgInit
<1>2. 1 \in Blocks(g) /\ 1 \in Reachable(g)
  BY <1>1, GraphFacts, ReachableFacts
<1>3. /\ phase = "reach" /\ todo = <<1>> /\ reachable = {}
      /\ calls = <<>> /\ visited = {} /\ order = <<>>
  BY DEF CfgInit
<1>4. ToSet(todo) = {1} /\ ToSet(order) = {} /\ Walkers = {}
  BY <1>3 DEF ToSet, Walkers
<1>5. CfgTypeOK
  BY <1>1, <1>2, <1>3 DEF CfgTypeOK
<1>6. SweepInv
  BY <1>2, <1>3, <1>4 DEF SweepInv
<1>7. CallsInv
  BY <1>3, <1>4 DEF CallsInv
<1>8. ScanInv /\ ParentInv
  BY <1>3, <1>4 DEF ScanInv, ParentInv
<1> QED
  BY <1>5, <1>6, <1>7, <1>8 DEF CfgInv

-----------------------------------------------------------------------------
(* Sweep: the block on top of the stack gives way to its targets.          *)
LEMMA SweepStep ==
  ASSUME CfgInv, Sweep
  PROVE  CfgInv'
<1> DEFINE b == Last(todo)
<1>1. /\ IsGraph(g) /\ todo \in Seq(Blocks(g)) /\ todo # <<>> /\ reachable \subseteq Blocks(g)
      /\ phase = "reach"
  BY DEF CfgInv, CfgTypeOK, Sweep
<1>2. /\ b \in Blocks(g) /\ Front(todo) \in Seq(Blocks(g))
      /\ ToSet(todo) = ToSet(Front(todo)) \cup {b}
  BY <1>1, FrontLast
<1>3. UNCHANGED <<g, phase, calls, visited, order>>
  BY DEF Sweep
<1>4. g[b] \in Seq(Blocks(g))
  BY <1>1, <1>2, GraphFacts
<1>5. /\ todo' \in Seq(Blocks(g))
      /\ reachable' = reachable \cup {b}
      /\ \/ b \in reachable /\ ToSet(todo') = ToSet(Front(todo))
         \/ ToSet(todo') = ToSet(Front(todo)) \cup ToSet(g[b])
  <2>1. CASE b \in reachable
    BY <1>2, <2>1 DEF Sweep
  <2>2. CASE b \notin reachable
    <3>1. todo' = Front(todo) \o g[b] /\ reachable' = reachable \cup {b}
      BY <2>2 DEF Sweep, Successors
    <3> QED
      BY <1>2, <1>4, <3>1, ConcatElements
  <2> QED
    BY <2>1, <2>2
<1>6. CfgTypeOK'
  BY <1>2, <1>3, <1>5 DEF CfgInv, CfgTypeOK
<1>7. SweepInv'
  <2>1. /\ reachable \cup ToSet(todo) \subseteq Reachable(g)
        /\ 1 \in reachable \cup ToSet(todo)
        /\ \A p, q : p \in reachable /\ Edge(g, p, q) => q \in reachable \cup ToSet(todo)
    BY DEF CfgInv, SweepInv
  <2>2. b \in Reachable(g) /\ ToSet(g[b]) \subseteq Reachable(g)
    <3>1. b \in Reachable(g)
      BY <1>2, <2>1
    <3>2. \A t \in ToSet(g[b]) : Edge(g, b, t)
      BY <1>2 DEF Edge
    <3> QED
      BY <1>1, <3>1, <3>2, ReachableFacts
  <2>3. reachable' \cup ToSet(todo') \subseteq Reachable(g)
    BY <1>2, <1>5, <2>1, <2>2
  <2>4. 1 \in reachable' \cup ToSet(todo')
    BY <1>2, <1>5, <2>1
  <2>5. \A p, q : p \in reachable' /\ Edge(g, p, q) => q \in reachable' \cup ToSet(todo')
    <3> SUFFICES ASSUME NEW p \in reachable', NEW q, Edge(g, p, q)
                 PROVE  q \in reachable' \cup ToSet(todo')
      OBVIOUS
    <3>1. CASE p \in reachable
      BY <1>2, <1>5, <2>1, <3>1
    <3>2. CASE p \notin reachable
      <4>1. p = b /\ q \in ToSet(g[b])
        BY <1>5, <3>2 DEF Edge
      <4> QED
        BY <1>5, <3>2, <4>1
    <3> QED
      BY <3>1, <3>2
  <2> QED
    BY <1>1, <1>3, <2>3, <2>4, <2>5 DEF SweepInv
<1>8. CallsInv'
  BY <1>3 DEF CfgInv, CallsInv, Walkers
<1>9. ScanInv' /\ ParentInv'
  BY <1>3 DEF CfgInv, ScanInv, ParentInv
<1> QED
  BY <1>6, <1>7, <1>8, <1>9 DEF CfgInv

(* StartOrder: the first call, on the entry.                               *)
LEMMA StartOrderStep ==
  ASSUME CfgInv, StartOrder
  PROVE  CfgInv'
<1>1. /\ IsGraph(g) /\ phase = "reach" /\ todo = <<>> /\ order = <<>>
  BY DEF CfgInv, CfgTypeOK, CallsInv, StartOrder
<1>2. /\ phase' = "order" /\ calls' = <<[blk |-> 1, next |-> 1]>> /\ visited' = {1}
      /\ UNCHANGED <<g, todo, reachable, order>>
  BY DEF StartOrder
<1>3. 1 \in Blocks(g) /\ 1 \in Reachable(g)
  BY <1>1, GraphFacts, ReachableFacts
<1>4. /\ calls' \in Seq([blk : Blocks(g), next : Nat \ {0}]) /\ DOMAIN calls' = {1}
      /\ calls'[1].blk = 1 /\ calls'[1].next = 1 /\ calls' # <<>>
  BY <1>2, <1>3
<1>5. Walkers' = {1} /\ ToSet(order') = {} /\ DOMAIN order' = {}
  BY <1>1, <1>2, <1>4 DEF Walkers, ToSet
<1>6. CfgTypeOK'
  BY <1>2, <1>3, <1>4 DEF CfgInv, CfgTypeOK
<1>7. SweepInv'
  BY <1>1, <1>2 DEF CfgInv, SweepInv
<1>8. CallsInv'
  BY <1>2, <1>3, <1>4, <1>5 DEF CallsInv
<1>9. ScanInv'
  <2>1. \A i \in DOMAIN calls' : \A m \in DOMAIN g[calls'[i].blk] : ~(m < calls'[i].next)
    BY <1>1, <1>3, <1>4, GraphFacts
  <2> QED
    BY <1>2, <1>5, <2>1 DEF ScanInv
<1>10. ParentInv'
  BY <1>4, <1>5 DEF ParentInv
<1> QED
  BY <1>6, <1>7, <1>8, <1>9, <1>10 DEF CfgInv

(* Descend: the topmost call moves on to its next target, which is called  *)
(* if it has not been entered.                                             *)
DescendTo(n, t) ==
  /\ n = Len(calls) /\ n \in Nat \ {0}
  /\ calls[n].next \in DOMAIN g[calls[n].blk] /\ t = g[calls[n].blk][calls[n].next]
  /\ Edge(g, calls[n].blk, t)
  /\ calls' \in Seq([blk : Blocks(g), next : Nat \ {0}])
  /\ \A i \in 1..n : /\ calls'[i].blk = calls[i].blk
                     /\ calls'[i].next = IF i = n THEN calls[i].next + 1 ELSE calls[i].next
  /\ \/ t \in visited /\ DOMAIN calls' = 1..n
     \/ /\ t \notin visited /\ DOMAIN calls' = 1..(n + 1)
        /\ calls'[n + 1].blk = t /\ calls'[n + 1].next = 1
  /\ visited' = visited \cup {t}
  /\ UNCHANGED <<g, phase, todo, reachable, order>>

(* What a call of dfs_post on the next successor does to the calls.        *)
LEMMA DescendFacts ==
  ASSUME CfgInv, Descend
  PROVE  \E n, t : DescendTo(n, t)
<1> DEFINE Call == [blk : Blocks(g), next : Nat \ {0}]
           n == Len(calls)
           top == Last(calls)
           t == g[top.blk][top.next]
           resumed == [calls EXCEPT ![Len(calls)].next = @ + 1]
<1>1. IsGraph(g) /\ calls \in Seq(Call) /\ calls # <<>> /\ top.next <= Len(g[top.blk])
  BY DEF CfgInv, CfgTypeOK, Descend, Successors
<1>2. /\ n \in Nat \ {0} /\ DOMAIN calls = 1..n /\ top = calls[n] /\ top \in Call
      /\ \A i \in 1..n : calls[i] \in Call
  <2> HIDE DEF Call
  <2> QED
    BY <1>1, FrontLast
<1>3. top.blk \in Blocks(g) /\ top.next \in Nat \ {0}
  BY <1>2
<1>4. top.next \in DOMAIN g[top.blk] /\ Edge(g, top.blk, t) /\ t \in Blocks(g)
  <2>1. g[top.blk] \in Seq(Blocks(g))
    BY <1>1, <1>3, GraphFacts
  <2>2. top.next \in DOMAIN g[top.blk] /\ t \in Blocks(g)
    BY <1>1, <1>3, <2>1
  <2> QED
    BY <1>3, <2>2 DEF Edge, ToSet
<1>5. /\ resumed \in Seq(Call) /\ Len(resumed) = n /\ DOMAIN resumed = 1..n
      /\ \A i \in 1..n : /\ resumed[i].blk = calls[i].blk
                         /\ resumed[i].next = IF i = n THEN calls[i].next + 1 ELSE calls[i].next
  <2>1. \A i \in 1..n : resumed[i] = IF i = n THEN [calls[i] EXCEPT !.next = @ + 1] ELSE calls[i]
    BY <1>1, <1>2
  <2>2. \A i \in 1..n : /\ [calls[i] EXCEPT !.next = @ + 1] \in Call
                        /\ [calls[i] EXCEPT !.next = @ + 1].blk = calls[i].blk
                        /\ [calls[i] EXCEPT !.next = @ + 1].next = calls[i].next + 1
    BY <1>2
  <2>3. DOMAIN resumed = 1..n /\ \A i \in 1..n : resumed[i] \in Call
    <3> HIDE DEF Call
    <3> QED
      BY <1>2, <2>1, <2>2
  <2>4. resumed = [i \in 1..n |-> resumed[i]]
    BY <1>1, <1>2
  <2>5. resumed \in Seq(Call) /\ Len(resumed) = n
    <3> HIDE DEF Call, resumed, n
    <3> QED
      BY <1>2, <2>3, <2>4
  <2> HIDE DEF resumed, Call
  <2> QED
    BY <2>1, <2>2, <2>3, <2>5
<1>6. /\ calls' = IF t \in visited THEN resumed ELSE Append(resumed, [blk |-> t, next |-> 1])
      /\ visited' = visited \cup {t}
      /\ UNCHANGED <<g, phase, todo, reachable, order>>
  BY DEF Descend, Successors
<1> DEFINE new == [blk |-> t, next |-> 1]
<1>7. new \in Call /\ new.blk = t /\ new.next = 1
  BY <1>4
<1>8. /\ calls' \in Seq(Call)
      /\ \A i \in 1..n : calls'[i] = resumed[i]
      /\ \/ t \in visited /\ DOMAIN calls' = 1..n
         \/ t \notin visited /\ DOMAIN calls' = 1..(n + 1) /\ calls'[n + 1] = new
  <2> HIDE DEF Call, new, resumed, t, n
  <2>1. CASE t \in visited
    BY <1>5, <1>6, <2>1
  <2>2. CASE t \notin visited
    <3>1. calls' = Append(resumed, new)
      BY <1>6, <2>2 DEF new
    <3> QED
      BY <1>5, <1>7, <2>2, <3>1, AppendFacts
  <2> QED
    BY <2>1, <2>2
<1>9. DescendTo(n, t)
  <2>1. n = Len(calls) /\ n \in Nat \ {0}
    BY <1>2
  <2>2. calls[n].next \in DOMAIN g[calls[n].blk] /\ t = g[calls[n].blk][calls[n].next]
        /\ Edge(g, calls[n].blk, t)
    BY <1>2, <1>4
  <2>3. calls' \in Seq([blk : Blocks(g), next : Nat \ {0}])
    BY <1>8
  <2>4. \A i \in 1..n : /\ calls'[i].blk = calls[i].blk
                        /\ calls'[i].next = IF i = n THEN calls[i].next + 1 ELSE calls[i].next
    <3> HIDE DEF resumed, n
    <3> QED
      BY <1>5, <1>8
  <2>5. \/ t \in visited /\ DOMAIN calls' = 1..n
        \/ /\ t \notin visited /\ DOMAIN calls' = 1..(n + 1)
           /\ calls'[n + 1].blk = t /\ calls'[n + 1].next = 1
    <3> HIDE DEF new, n, t
    <3> QED
      BY <1>7, <1>8
  <2> HIDE DEF t, n
  <2> QED
    BY <1>6, <2>1, <2>2, <2>3, <2>4, <2>5 DEF DescendTo
<1> HIDE DEF n, t
<1> QED
  BY <1>9

(* Descend: a block is entered once, from the block of the innermost call. *)
LEMMA DescendStep ==
  ASSUME CfgInv, Descend
  PROVE  CfgInv'
<1>1. PICK n, t : DescendTo(n, t)
  BY DescendFacts
<1>2. /\ IsGraph(g) /\ calls \in Seq([blk : Blocks(g), next : Nat \ {0}])
      /\ phase = "order" /\ calls # <<>>
  BY DEF CfgInv, CfgTypeOK, Descend
<1>3. /\ n = Len(calls) /\ n \in Nat \ {0} /\ DOMAIN calls = 1..n
      /\ UNCHANGED <<g, phase, todo, reachable, order>> /\ visited' = visited \cup {t}
      /\ Edge(g, calls[n].blk, t)
      /\ \A i \in 1..n : calls'[i].blk = calls[i].blk
      /\ 1..n \subseteq DOMAIN calls'
      /\ \A i \in DOMAIN calls' : i \notin 1..n => i = n + 1 /\ calls'[i].blk = t /\ t \notin visited
      /\ t \notin visited => n + 1 \in DOMAIN calls' /\ calls'[n + 1].blk = t
      /\ calls' # <<>>
  BY <1>1, <1>2 DEF DescendTo
<1>4. /\ visited = Walkers \cup ToSet(order) /\ visited \subseteq Reachable(g)
      /\ \A i, j \in DOMAIN order : i # j => order[i] # order[j]
      /\ \A i, j \in DOMAIN calls : i # j => calls[i].blk # calls[j].blk
      /\ \A i \in DOMAIN calls : calls[i].blk \notin ToSet(order)
      /\ calls[1].blk = 1 /\ 1 \in visited
      /\ \A i \in DOMAIN calls : i # 1 => Edge(g, calls[i - 1].blk, calls[i].blk)
  BY <1>2 DEF CfgInv, CallsInv
<1>5. /\ \A i \in DOMAIN calls : calls[i].blk \in Walkers
      /\ Walkers' = Walkers \cup (IF t \in visited THEN {} ELSE {t})
      /\ ToSet(order') = ToSet(order)
  <2>1. \A i \in DOMAIN calls : calls[i].blk \in Walkers
    BY DEF Walkers
  <2>2. Walkers' \subseteq Walkers \cup (IF t \in visited THEN {} ELSE {t})
    BY <1>3 DEF Walkers
  <2>3. Walkers \cup (IF t \in visited THEN {} ELSE {t}) \subseteq Walkers'
    BY <1>3 DEF Walkers
  <2> QED
    BY <1>3, <2>1, <2>2, <2>3 DEF ToSet
<1>6. t \in Reachable(g) /\ t \in Blocks(g)
  BY <1>2, <1>3, <1>4, <1>5, ReachableFacts
<1>7. CfgTypeOK'
  BY <1>1, <1>3, <1>6 DEF CfgInv, CfgTypeOK, DescendTo
<1>8. SweepInv'
  BY <1>3 DEF CfgInv, SweepInv
<1>9. CallsInv'
  <2>1. visited' = Walkers' \cup ToSet(order') /\ visited' \subseteq Reachable(g')
        /\ 1 \in visited'
    BY <1>3, <1>4, <1>5, <1>6
  <2>2. \A i, j \in DOMAIN calls' : i # j => calls'[i].blk # calls'[j].blk
    BY <1>3, <1>4, <1>5
  <2>3. \A i \in DOMAIN calls' : calls'[i].blk \notin ToSet(order')
    BY <1>3, <1>4, <1>5
  <2>4. calls'[1].blk = 1
    BY <1>3, <1>4
  <2>5. \A i \in DOMAIN calls' : i # 1 => Edge(g', calls'[i - 1].blk, calls'[i].blk)
    <3> SUFFICES ASSUME NEW i \in DOMAIN calls', i # 1
                 PROVE  Edge(g, calls'[i - 1].blk, calls'[i].blk)
      BY <1>3
    <3>1. CASE i \in 1..n
      BY <1>3, <1>4, <3>1
    <3>2. CASE i \notin 1..n
      BY <1>3, <3>2
    <3> QED
      BY <3>1, <3>2
  <2> QED
    BY <1>2, <1>3, <1>4, <2>1, <2>2, <2>3, <2>4, <2>5 DEF CallsInv
<1>10. ScanInv'
  <2>1. /\ \A i \in DOMAIN calls : \A m \in DOMAIN g[calls[i].blk] :
             m < calls[i].next => g[calls[i].blk][m] \in visited
        /\ \A b \in ToSet(order) : ToSet(g[b]) \subseteq visited
    BY DEF CfgInv, ScanInv
  <2>2. ASSUME NEW i \in DOMAIN calls', NEW m \in DOMAIN g[calls'[i].blk], m < calls'[i].next
        PROVE  g[calls'[i].blk][m] \in visited'
    <3>0. calls' \in Seq([blk : Blocks(g), next : Nat \ {0}])
      BY <1>1 DEF DescendTo
    <3>1. calls'[i].blk \in Blocks(g)
      <4>1. calls'[i] \in [blk : Blocks(g), next : Nat \ {0}]
        BY <2>2, <3>0, SeqElement, Zenon
      <4> QED
        BY <4>1
    <3>2. m \in Nat \ {0}
      <4>1. g[calls'[i].blk] \in Seq(Blocks(g))
        BY <1>2, <3>1, GraphFacts
      <4> QED
        BY <2>2, <4>1
    <3>3. CASE i \in 1..n /\ i # n
      BY <1>1, <1>3, <2>1, <2>2, <3>3 DEF DescendTo
    <3>4. CASE i = n
      <4>1. calls'[i].blk = calls[n].blk /\ calls'[i].next = calls[n].next + 1
            /\ calls[n].next \in Nat /\ t = g[calls[n].blk][calls[n].next]
        <5>1. calls[n] \in [blk : Blocks(g), next : Nat \ {0}]
          <6>1. n \in DOMAIN calls
            BY <1>3
          <6> QED
            BY <1>2, <6>1, SeqElement, Zenon
        <5>2. calls[n].next \in Nat
          BY <5>1
        <5> QED
          BY <1>1, <1>3, <3>4, <5>2 DEF DescendTo
      <4>2. CASE m = calls[n].next
        BY <1>3, <4>1, <4>2
      <4>3. CASE m # calls[n].next
        <5>1. m < calls[n].next
          BY <2>2, <3>2, <4>1, <4>3
        <5> QED
          BY <1>3, <2>1, <2>2, <4>1, <5>1
      <4> QED
        BY <4>2, <4>3
    <3>5. CASE i \notin 1..n
      <4>1. calls'[i].next = 1
        BY <1>1, <1>3, <3>5 DEF DescendTo
      <4> QED
        BY <2>2, <3>2, <4>1
    <3> QED
      BY <1>3, <3>3, <3>4, <3>5
  <2> QED
    BY <1>3, <1>5, <2>1, <2>2 DEF ScanInv
<1>11. ParentInv'
  <2>1. \A i \in DOMAIN order :
          order[i] # 1 => \/ \E j \in DOMAIN order : i < j /\ Edge(g, order[j], order[i])
                          \/ \E c \in DOMAIN calls : Edge(g, calls[c].blk, order[i])
    BY DEF CfgInv, ParentInv
  <2>2. \A i \in DOMAIN order :
          (\E c \in DOMAIN calls : Edge(g, calls[c].blk, order[i]))
            => \E c \in DOMAIN calls' : Edge(g, calls'[c].blk, order[i])
    BY <1>3
  <2> QED
    BY <1>3, <2>1, <2>2 DEF ParentInv
<1> QED
  BY <1>7, <1>8, <1>9, <1>10, <1>11 DEF CfgInv

(* Return: the topmost call records its block, all of whose targets have   *)
(* been entered.                                                           *)
LEMMA ReturnStep ==
  ASSUME CfgInv, Return
  PROVE  CfgInv'
<1> DEFINE Call == [blk : Blocks(g), next : Nat \ {0}]
           n == Len(calls)
           m == Len(order)
           b == calls[n].blk
<1>1. /\ IsGraph(g) /\ calls \in Seq(Call) /\ calls # <<>> /\ order \in Seq(Blocks(g))
      /\ phase = "order"
  BY DEF CfgInv, CfgTypeOK, Return
<1>2. /\ n \in Nat \ {0} /\ DOMAIN calls = 1..n /\ Last(calls) = calls[n] /\ calls[n] \in Call
      /\ Front(calls) \in Seq(Call) /\ DOMAIN Front(calls) = 1..(n - 1)
      /\ \A i \in 1..(n - 1) : Front(calls)[i] = calls[i]
  <2> HIDE DEF Call, n, m, b
  <2>1. /\ Len(calls) \in Nat \ {0} /\ DOMAIN calls = 1..Len(calls) /\ Len(calls) \in DOMAIN calls
        /\ Last(calls) \in Call /\ Last(calls) = calls[Len(calls)]
        /\ Front(calls) \in Seq(Call)
        /\ DOMAIN Front(calls) = 1..(Len(calls) - 1)
        /\ \A i \in 1..(Len(calls) - 1) : Front(calls)[i] = calls[i]
    BY <1>1, FrontLast
  <2> QED
    BY <2>1 DEF n
<1>3. b \in Blocks(g) /\ calls[n].next \in Nat /\ calls[n].next > Len(g[b])
  BY <1>2 DEF Return, Successors
<1>4. /\ order' = Append(order, b) /\ calls' = Front(calls)
      /\ UNCHANGED <<g, phase, todo, reachable, visited>>
  BY <1>2 DEF Return
<1>5. /\ order' \in Seq(Blocks(g)) /\ m \in Nat /\ DOMAIN order = 1..m /\ DOMAIN order' = 1..(m + 1)
      /\ Len(order') = m + 1
      /\ \A i \in 1..m : order'[i] = order[i]
      /\ order'[m + 1] = b /\ ToSet(order') = ToSet(order) \cup {b}
  BY <1>1, <1>3, <1>4, AppendFacts
<1>6. /\ DOMAIN calls' = 1..(n - 1) /\ \A i \in 1..(n - 1) : calls'[i] = calls[i]
      /\ calls' \in Seq(Call)
  BY <1>2, <1>4
<1>7. /\ visited = Walkers \cup ToSet(order) /\ visited \subseteq Reachable(g)
      /\ \A i, j \in DOMAIN order : i # j => order[i] # order[j]
      /\ \A i, j \in DOMAIN calls : i # j => calls[i].blk # calls[j].blk
      /\ \A i \in DOMAIN calls : calls[i].blk \notin ToSet(order)
      /\ calls[1].blk = 1 /\ 1 \in visited
      /\ \A i \in DOMAIN calls : i # 1 => Edge(g, calls[i - 1].blk, calls[i].blk)
  BY <1>1 DEF CfgInv, CallsInv
<1> HIDE DEF Call, n, m, b
<1>8. \A i \in 1..m : order[i] \in ToSet(order)
  BY <1>5 DEF ToSet
<1>9. Walkers = Walkers' \cup {b} /\ b \notin ToSet(order)
  <2>1. n \in DOMAIN calls /\ b = calls[n].blk
    BY <1>2 DEF b
  <2>2. Walkers \subseteq Walkers' \cup {b}
    BY <1>2, <1>6, <2>1 DEF Walkers
  <2>3. Walkers' \cup {b} \subseteq Walkers
    BY <1>2, <1>6, <2>1 DEF Walkers
  <2> QED
    BY <1>7, <2>1, <2>2, <2>3
<1>10. CfgTypeOK'
  BY <1>4, <1>5, <1>6 DEF CfgInv, CfgTypeOK, Call
<1>11. SweepInv'
  BY <1>4 DEF CfgInv, SweepInv
<1>12. \A i \in DOMAIN calls' : i \in DOMAIN calls /\ calls'[i].blk = calls[i].blk
                                /\ calls'[i].next = calls[i].next /\ i # n
  BY <1>2, <1>6
<1>13. CallsInv'
  <2>1. visited' = Walkers' \cup ToSet(order')
    BY <1>4, <1>5, <1>7, <1>9
  <2>2. \A i, j \in DOMAIN order' : i # j => order'[i] # order'[j]
    <3> SUFFICES ASSUME NEW i \in 1..(m + 1), NEW j \in 1..(m + 1), i < j
                 PROVE  order'[i] # order'[j]
      BY <1>5
    <3>1. i \in 1..m
      BY <1>5
    <3>2. CASE j = m + 1
      BY <1>5, <1>8, <1>9, <3>1, <3>2
    <3>3. CASE j # m + 1
      <4>1. j \in 1..m
        BY <1>5, <3>3
      <4> QED
        BY <1>5, <1>7, <3>1, <4>1
    <3> QED
      BY <3>2, <3>3
  <2>3. \A i, j \in DOMAIN calls' : i # j => calls'[i].blk # calls'[j].blk
    BY <1>7, <1>12
  <2>4. \A i \in DOMAIN calls' : calls'[i].blk \notin ToSet(order')
    <3> SUFFICES ASSUME NEW i \in DOMAIN calls' PROVE calls'[i].blk \notin ToSet(order')
      OBVIOUS
    <3>1. calls[i].blk # b
      BY <1>2, <1>7, <1>12 DEF b
    <3> QED
      BY <1>5, <1>7, <1>12, <3>1
  <2>5. calls' # <<>> => calls'[1].blk = 1
    <3> SUFFICES ASSUME calls' # <<>> PROVE calls'[1].blk = 1
      OBVIOUS
    <3>1. 1 \in DOMAIN calls'
      <4>1. DOMAIN calls' # {}
        BY <1>6, EmptyDomain
      <4> QED
        BY <1>2, <1>6, <4>1
    <3> QED
      BY <1>7, <1>12, <3>1
  <2>6. \A i \in DOMAIN calls' : i # 1 => Edge(g', calls'[i - 1].blk, calls'[i].blk)
    <3> SUFFICES ASSUME NEW i \in DOMAIN calls', i # 1
                 PROVE  Edge(g, calls'[i - 1].blk, calls'[i].blk)
      BY <1>4
    <3>1. i - 1 \in DOMAIN calls'
      BY <1>2, <1>6
    <3> QED
      BY <1>7, <1>12, <3>1
  <2> QED
    BY <1>1, <1>4, <1>7, <2>1, <2>2, <2>3, <2>4, <2>5, <2>6 DEF CallsInv
<1>14. ScanInv'
  <2>1. /\ \A i \in DOMAIN calls : \A k0 \in DOMAIN g[calls[i].blk] :
             k0 < calls[i].next => g[calls[i].blk][k0] \in visited
        /\ \A c \in ToSet(order) : ToSet(g[c]) \subseteq visited
    BY DEF CfgInv, ScanInv
  <2>2. ToSet(g[b]) \subseteq visited
    <3>1. g[b] \in Seq(Blocks(g))
      BY <1>1, <1>3, GraphFacts
    <3>2. \A k0 \in DOMAIN g[b] : k0 \in Nat /\ k0 <= Len(g[b]) /\ Len(g[b]) \in Nat
      BY <3>1
    <3>3. \A k0 \in DOMAIN g[b] : k0 < calls[n].next
      BY <1>3, <3>2
    <3>4. n \in DOMAIN calls /\ b = calls[n].blk
      BY <1>2 DEF b
    <3> QED
      BY <2>1, <3>3, <3>4 DEF ToSet
  <2> QED
    BY <1>4, <1>5, <1>12, <2>1, <2>2 DEF ScanInv
<1>15. ParentInv'
  <2>1. \A i \in DOMAIN order :
          order[i] # 1 => \/ \E j \in DOMAIN order : i < j /\ Edge(g, order[j], order[i])
                          \/ \E c \in DOMAIN calls : Edge(g, calls[c].blk, order[i])
    BY DEF CfgInv, ParentInv
  <2>2. ASSUME NEW i \in DOMAIN order', order'[i] # 1
        PROVE  \/ \E j \in DOMAIN order' : i < j /\ Edge(g, order'[j], order'[i])
               \/ \E c \in DOMAIN calls' : Edge(g, calls'[c].blk, order'[i])
    <3>1. CASE i = m + 1
      <4>1. n # 1
        BY <1>5, <1>7, <2>2, <3>1 DEF b
      <4>2. n - 1 \in DOMAIN calls' /\ Edge(g, calls[n - 1].blk, calls[n].blk)
        <5>1. n \in DOMAIN calls /\ n - 1 \in 1..(n - 1)
          BY <1>2, <4>1
        <5> QED
          BY <1>6, <1>7, <4>1, <5>1
      <4>3. order'[i] = calls[n].blk /\ calls'[n - 1].blk = calls[n - 1].blk
        BY <1>5, <1>12, <3>1, <4>2 DEF b
      <4> QED
        BY <4>2, <4>3
    <3>2. CASE i # m + 1
      <4>1. i \in 1..m /\ order'[i] = order[i]
        BY <1>5, <2>2, <3>2
      <4>2. CASE \E j \in DOMAIN order : i < j /\ Edge(g, order[j], order[i])
        <5>1. \A j \in DOMAIN order : j \in DOMAIN order' /\ order'[j] = order[j]
          BY <1>5
        <5> QED
          BY <4>1, <4>2, <5>1
      <4>3. CASE \E c \in DOMAIN calls : Edge(g, calls[c].blk, order[i])
        <5>1. PICK c \in DOMAIN calls : Edge(g, calls[c].blk, order[i])
          BY <4>3
        <5>2. CASE c = n
          <6>1. m + 1 \in DOMAIN order' /\ i < m + 1 /\ order'[m + 1] = calls[n].blk
            BY <1>5, <4>1 DEF b
          <6> QED
            BY <4>1, <5>1, <5>2, <6>1
        <5>3. CASE c # n
          <6>1. c \in DOMAIN calls' /\ calls'[c].blk = calls[c].blk
            BY <1>2, <1>6, <5>3
          <6> QED
            BY <4>1, <5>1, <6>1
        <5> QED
          BY <5>2, <5>3
      <4> QED
        BY <1>5, <2>1, <2>2, <4>1, <4>2, <4>3
    <3> QED
      BY <3>1, <3>2
  <2>3. calls' = <<>> => order' # <<>> /\ order'[Len(order')] = 1
    <3> SUFFICES ASSUME calls' = <<>> PROVE order' # <<>> /\ order'[Len(order')] = 1
      OBVIOUS
    <3>1. DOMAIN calls' = {}
      OBVIOUS
    <3>2. n = 1
      BY <1>2, <1>6, <3>1
    <3>3. order'[Len(order')] = 1
      BY <1>5, <1>7, <3>2 DEF b
    <3>4. m + 1 \in DOMAIN order'
      BY <1>5
    <3> QED
      BY <3>3, <3>4
  <2> QED
    BY <1>4, <2>2, <2>3 DEF ParentInv
<1> QED
  BY <1>10, <1>11, <1>13, <1>14, <1>15 DEF CfgInv

(* The later analyses leave the order as it is.                            *)
LEMMA CfgQuietStep ==
  ASSUME CfgInv, CfgQuiet
  PROVE  CfgInv'
<1>1. UNCHANGED <<g, todo, reachable, calls, visited, order>>
  BY DEF CfgQuiet
<1>2. CfgTypeOK' /\ ScanInv'
  BY <1>1 DEF CfgInv, CfgTypeOK, ScanInv
<1>3. /\ phase' = "reach" <=> phase = "reach"
      /\ phase' \in {"reach", "order"} => phase' = phase
      /\ phase' # phase => phase \notin {"reach", "order"} \/ (phase = "order" /\ calls = <<>>)
  BY DEF CfgQuiet, Ordered
<1>4. SweepInv'
  BY <1>1, <1>3 DEF CfgInv, SweepInv
<1>5. Walkers' = Walkers
  BY <1>1 DEF Walkers
<1>6. CallsInv'
  BY <1>1, <1>3, <1>5 DEF CfgInv, CallsInv
<1>7. ParentInv'
  BY <1>1, <1>3 DEF CfgInv, ParentInv
<1> QED
  BY <1>2, <1>4, <1>6, <1>7 DEF CfgInv

(* The invariant of the sweep and the post-order, through all analyses.    *)
THEOREM CfgInvariant == Spec => []CfgInv
<1>1. Init => CfgInv
  BY CfgInitInv DEF Init, DomInit
<1>2. CfgInv /\ [Next]_vars => CfgInv'
  BY StepsOfCfg, SweepStep, StartOrderStep, DescendStep, ReturnStep, CfgQuietStep DEF CfgNext
<1> QED
  BY <1>1, <1>2, PTL DEF Spec

-----------------------------------------------------------------------------
(* What a complete post-order says, from when it is complete on.           *)
Complete == phase # "reach" /\ calls = <<>>

(* r lists the reachable blocks, each once, from the entry on, each after  *)
(* a block that it can be entered from.                                    *)
IsRpo(gr, r) ==
  /\ IsGraph(gr) /\ r \in Seq(Blocks(gr)) /\ Len(r) \in Nat \ {0} /\ DOMAIN r = 1..Len(r)
  /\ \A i, j \in 1..Len(r) : r[i] = r[j] => i = j
  /\ \A b : b \in Reachable(gr) <=> \E i \in 1..Len(r) : b = r[i]
  /\ r[1] = 1
  /\ \A j \in 1..Len(r) : j # 1 => \E i \in 1..Len(r) : i < j /\ Edge(gr, r[i], r[j])

(* What dominators.rs relies on when it calls rpo().                       *)
LEMMA RpoFacts ==
  ASSUME CfgInv, Complete
  PROVE  IsRpo(g, rpo) /\ reachable = Reachable(g)
<1> DEFINE L == Len(order)
<1>1. /\ IsGraph(g) /\ order \in Seq(Blocks(g)) /\ order # <<>> /\ order[L] = 1
      /\ todo = <<>> /\ calls = <<>>
  BY DEF CfgInv, CfgTypeOK, SweepInv, ParentInv, Complete
<1>2. L \in Nat \ {0} /\ DOMAIN order = 1..L /\ \A i \in 1..L : order[i] \in Blocks(g)
  BY <1>1
<1>3. /\ rpo = [i \in 1..L |-> order[(L - i) + 1]]
      /\ rpo \in Seq(Blocks(g)) /\ Len(rpo) = L /\ DOMAIN rpo = 1..L
      /\ \A i \in 1..L : (L - i) + 1 \in 1..L /\ rpo[i] = order[(L - i) + 1]
      /\ \A i \in 1..L : order[i] = rpo[(L - i) + 1]
  <2>1. rpo = [i \in 1..L |-> order[(L - i) + 1]]
    BY DEF rpo, Reverse
  <2>2. \A i \in 1..L : (L - i) + 1 \in 1..L /\ (L - ((L - i) + 1)) + 1 = i
    BY <1>2
  <2>3. \A i \in 1..L : order[(L - i) + 1] \in Blocks(g)
    BY <1>2, <2>2
  <2> HIDE DEF L
  <2> QED
    BY <1>2, <2>1, <2>2, <2>3
<1>4. /\ visited = Walkers \cup ToSet(order) /\ visited \subseteq Reachable(g) /\ 1 \in visited
      /\ \A i, j \in DOMAIN order : i # j => order[i] # order[j]
  BY DEF CfgInv, CallsInv, Complete
<1>5. /\ \A b \in ToSet(order) : ToSet(g[b]) \subseteq visited
      /\ \A i \in DOMAIN order :
           order[i] # 1 => \/ \E j \in DOMAIN order : i < j /\ Edge(g, order[j], order[i])
                           \/ \E c \in DOMAIN calls : Edge(g, calls[c].blk, order[i])
  BY DEF CfgInv, ScanInv, ParentInv
<1>6. Walkers = {} /\ visited = ToSet(order) /\ DOMAIN calls = {}
  BY <1>1, <1>4 DEF Walkers
<1>7. Reachable(g) = visited
  <2>1. \A a, b : a \in visited /\ Edge(g, a, b) => b \in visited
    BY <1>5, <1>6 DEF Edge
  <2>2. Reachable(g) \subseteq visited
    BY <1>1, <1>4, <2>1, ReachLeast DEF Reachable
  <2> QED
    BY <1>4, <2>2
<1>8. reachable = Reachable(g)
  <2>1. ToSet(todo) = {}
    BY <1>1 DEF ToSet
  <2>2. /\ reachable \subseteq Reachable(g) /\ 1 \in reachable
        /\ \A a, b : a \in reachable /\ Edge(g, a, b) => b \in reachable
    BY <2>1 DEF CfgInv, SweepInv
  <2>3. Reachable(g) \subseteq reachable
    BY <1>1, <2>2, ReachLeast DEF Reachable
  <2> QED
    BY <2>2, <2>3
<1> HIDE DEF L
<1>9. \A i, j \in 1..L : rpo[i] = rpo[j] => i = j
  <2> SUFFICES ASSUME NEW i \in 1..L, NEW j \in 1..L, rpo[i] = rpo[j] PROVE i = j
    OBVIOUS
  <2>1. (L - i) + 1 \in 1..L /\ (L - j) + 1 \in 1..L
        /\ order[(L - i) + 1] = order[(L - j) + 1]
    BY <1>3
  <2>2. (L - i) + 1 = (L - j) + 1
    BY <1>2, <1>4, <2>1
  <2> QED
    BY <1>2, <2>2
<1>10. \A b : b \in Reachable(g) <=> \E i \in 1..L : b = rpo[i]
  <2>1. \A b : b \in Reachable(g) <=> \E i \in 1..L : b = order[i]
    BY <1>2, <1>6, <1>7 DEF ToSet
  <2>2. \A b : (\E i \in 1..L : b = order[i]) => \E i \in 1..L : b = rpo[i]
    BY <1>2, <1>3
  <2>3. \A b : (\E i \in 1..L : b = rpo[i]) => \E i \in 1..L : b = order[i]
    BY <1>3
  <2> QED
    BY <2>1, <2>2, <2>3
<1>11. rpo[1] = 1
  BY <1>1, <1>2, <1>3
<1>12. ASSUME NEW j \in 1..L, j # 1
       PROVE  \E i \in 1..L : i < j /\ Edge(g, rpo[i], rpo[j])
  <2>1. rpo[j] # 1
    BY <1>2, <1>9, <1>11, <1>12
  <2> DEFINE k0 == (L - j) + 1
  <2>2. k0 \in DOMAIN order /\ order[k0] = rpo[j]
    BY <1>2, <1>3
  <2>3. PICK l \in DOMAIN order : k0 < l /\ Edge(g, order[l], order[k0])
    <3> HIDE DEF k0
    <3> QED
      BY <1>5, <1>6, <2>1, <2>2
  <2>4. (L - l) + 1 \in 1..L /\ (L - l) + 1 < j /\ order[l] = rpo[(L - l) + 1]
    BY <1>2, <1>3, <2>3
  <2> QED
    BY <2>2, <2>3, <2>4
<1> QED
  BY <1>1, <1>2, <1>3, <1>8, <1>9, <1>10, <1>11, <1>12 DEF IsRpo

(* A strict dominator comes earlier in the reverse post-order.             *)
LEMMA DominatorEarlier ==
  ASSUME NEW gr, NEW r, IsRpo(gr, r), NEW i \in 1..Len(r), NEW j \in 1..Len(r),
         StrictlyDominates(gr, r[i], r[j])
  PROVE  i < j
<1> DEFINE R == ReachAvoiding(gr, r[i])
           Late == {n \in 1..Len(r) : n < i /\ r[n] \notin R}
<1>1. /\ IsGraph(gr) /\ Len(r) \in Nat \ {0} /\ r[1] = 1
      /\ \A m, n \in 1..Len(r) : r[m] = r[n] => m = n
      /\ \A n \in 1..Len(r) : n # 1 =>
           \E m \in 1..Len(r) : m < n /\ Edge(gr, r[m], r[n])
  BY DEF IsRpo
<1>2. r[i] # r[j] /\ r[j] \notin R
  BY DEF StrictlyDominates, Dominates
<1>3. SUFFICES ASSUME j < i PROVE FALSE
  BY <1>1, <1>2
<1>4. j \in Late /\ Late \subseteq Nat
  BY <1>1, <1>2, <1>3
<1>5. PICK n \in Late : \A m \in Late : n <= m
  <2> HIDE DEF Late
  <2> QED
    BY <1>4, LeastNatural
<1>6. n \in 1..Len(r) /\ n < i /\ r[n] \notin R /\ r[n] # r[i]
  BY <1>1, <1>5
<1>7. n # 1
  <2>1. ASSUME n = 1 PROVE FALSE
    <3>1. r[n] = 1 /\ r[i] # 1
      BY <1>1, <1>6, <2>1
    <3> QED
      BY <1>1, <1>6, <3>1, ReachClosed
  <2> QED
    BY <2>1
<1>8. PICK m \in 1..Len(r) : m < n /\ Edge(gr, r[m], r[n])
  BY <1>1, <1>6, <1>7
<1>9. r[m] \in R
  BY <1>1, <1>5, <1>6, <1>8
<1> QED
  BY <1>1, <1>6, <1>8, <1>9, ReachClosed

(* rpo() is a reverse post-order for every graph.                          *)
THEOREM OrderIsReverseAlways == Spec => []OrderIsReverse
<1>1. CfgInv => OrderIsReverse
  <2> SUFFICES ASSUME CfgInv, Ordered PROVE OrderIsReverse!2
    BY DEF OrderIsReverse
  <2>1. Complete
    BY DEF Ordered, Complete
  <2>7. IsRpo(g, rpo) /\ reachable = Reachable(g)
    BY <2>1, RpoFacts
  <2>2. /\ IsGraph(g) /\ Len(rpo) \in Nat \ {0} /\ DOMAIN rpo = 1..Len(rpo)
        /\ \A i, j \in 1..Len(rpo) : rpo[i] = rpo[j] => i = j
        /\ reachable = Reachable(g)
        /\ \A b : b \in Reachable(g) <=> \E i \in 1..Len(rpo) : b = rpo[i]
        /\ rpo[1] = 1
        /\ \A j \in 1..Len(rpo) : j # 1 =>
             \E i \in 1..Len(rpo) : i < j /\ Edge(g, rpo[i], rpo[j])
    BY <2>7 DEF IsRpo
  <2>3. ToSet(rpo) = reachable
    BY <2>2 DEF ToSet
  <2>4. Len(rpo) = Cardinality(reachable)
    <3> DEFINE f == [i \in 1..Len(rpo) |-> rpo[i]]
    <3>1. f \in Bijection(1..Len(rpo), reachable)
      BY <2>2 DEF Bijection, Injection, Surjection, IsInjective
    <3>2. IsFiniteSet(1..Len(rpo)) /\ Cardinality(1..Len(rpo)) = Len(rpo)
      BY <2>2, Positions
    <3>3. ExistsBijection(1..Len(rpo), reachable)
      BY <3>1 DEF ExistsBijection
    <3> QED
      BY <3>2, <3>3, FS_Bijection
  <2>5. \A i, j \in 1..Len(rpo) : StrictlyDominates(g, rpo[i], rpo[j]) => i < j
    BY <2>7, DominatorEarlier
  <2>6. \A j \in 2..Len(rpo) : \E i \in 1..(j - 1) : rpo[j] \in ToSet(g[rpo[i]])
    <3> SUFFICES ASSUME NEW j \in 2..Len(rpo)
                 PROVE  \E i \in 1..(j - 1) : rpo[j] \in ToSet(g[rpo[i]])
      OBVIOUS
    <3>1. PICK i \in 1..Len(rpo) : i < j /\ Edge(g, rpo[i], rpo[j])
      BY <2>2
    <3>2. i \in 1..(j - 1)
      BY <2>2, <3>1
    <3> QED
      BY <3>1, <3>2 DEF Edge
  <2> QED
    BY <2>2, <2>3, <2>4, <2>5, <2>6
<1> QED
  BY <1>1, CfgInvariant, PTL

-----------------------------------------------------------------------------
-----------------------------------------------------------------------------
(* The dominator tree.                                                     *)

(* id is a tree of positions rooted in 1, for those that have a parent: it *)
(* leads toward the entry and passes no strict dominator by.               *)
Tree(gr, r, id) ==
  /\ id \in [1..Len(r) -> 0..Len(r)] /\ id[1] = 1
  /\ \A i \in 2..Len(r) : id[i] # 0 =>
       /\ id[i] < i /\ id[id[i]] # 0
       /\ \A a \in Blocks(gr) : StrictlyDominates(gr, a, r[i]) => Dominates(gr, a, r[id[i]])

(* Position a is on the way from i to the root, i included.                *)
Up(id, a, i) ==
  \A S \in SUBSET DOMAIN id : i \in S /\ (\A j \in S : id[j] \in S) => a \in S

(* c has been processed and passes no strict dominator of p by.            *)
Candidate(gr, r, id, p, c) ==
  /\ c \in 1..Len(r) /\ id[c] # 0
  /\ \A a \in Blocks(gr) : StrictlyDominates(gr, a, r[p]) => Dominates(gr, a, r[c])

(* c is above the first n - 1 predecessors of p, those processed.          *)
Seen(gr, r, id, p, n, c) ==
  \A j \in DOMAIN Predecessors(gr, r[p]) : \A i \in 1..Len(r) :
    j < n /\ r[i] = Predecessors(gr, r[p])[j] /\ id[i] # 0 => Up(id, c, i)

(* The parent of i is above every predecessor of i.                        *)
Settled(gr, r, id, i) ==
  \A j \in 1..Len(r) : Edge(gr, r[j], r[i]) => Up(id, id[i], j)

Full(r, id) == \A i \in 1..Len(r) : id[i] # 0

-----------------------------------------------------------------------------
Rounds == {"block", "preds", "intersect"}

TreeInv ==
  /\ phase \in {"reach", "order"} => idom = <<>>
  /\ phase \notin {"reach", "order"} => Tree(g, rpo, idom)

(* A round: in the first one the positions before pos have a parent, later *)
(* all of them; as long as nothing changed, those before pos are settled.  *)
RoundInv ==
  phase \in Rounds =>
    /\ pos \in 2..(Len(rpo) + 1)
    /\ Full(rpo, idom) \/ \A i \in 1..Len(rpo) : idom[i] # 0 <=> i < pos
    /\ ~changed => \A i \in 2..(pos - 1) : Settled(g, rpo, idom, i)

(* new_idom while the predecessors of pos are intersected.                 *)
PredsInv ==
  phase \in {"preds", "intersect"} =>
    /\ pos <= Len(rpo)
    /\ k \in 1..(Len(Preds(pos)) + 1)
    /\ Candidate(g, rpo, idom, pos, cand)
    /\ Seen(g, rpo, idom, pos, k, cand)

(* The fingers of intersect, on their way up.                              *)
IntersectInv ==
  phase = "intersect" =>
    /\ k \in DOMAIN Preds(pos)
    /\ \E i \in 1..Len(rpo) : rpo[i] = Preds(pos)[k] /\ idom[i] # 0 /\ Up(idom, finger1, i)
    /\ Up(idom, finger2, cand)
    /\ Candidate(g, rpo, idom, pos, finger1)
    /\ Candidate(g, rpo, idom, pos, finger2)

(* After the rounds.                                                       *)
FinalInv ==
  phase \notin {"reach", "order"} \cup Rounds =>
    /\ Full(rpo, idom)
    /\ \A i \in 2..Len(rpo) : Settled(g, rpo, idom, i)

DomInv == TreeInv /\ RoundInv /\ PredsInv /\ IntersectInv /\ FinalInv

-----------------------------------------------------------------------------
(* What the order says of positions: rpo_idx is its inverse.               *)
LEMMA RpoIdxFacts ==
  ASSUME CfgInv, Complete
  PROVE  /\ IsGraph(g) /\ IsRpo(g, rpo) /\ Len(rpo) \in Nat \ {0}
         /\ reachable = Reachable(g) /\ reachable \subseteq Blocks(g)
         /\ 0 \notin Blocks(g)
         /\ \A i \in 1..Len(rpo) : rpo[i] \in reachable /\ RpoIdx(rpo[i]) = i
         /\ \A b : b \in reachable => RpoIdx(b) \in 1..Len(rpo) /\ rpo[RpoIdx(b)] = b
         /\ \A b : b \notin reachable => RpoIdx(b) = 0
<1>1. IsRpo(g, rpo) /\ reachable = Reachable(g)
  BY RpoFacts
<1>2. /\ IsGraph(g) /\ Len(rpo) \in Nat \ {0}
      /\ \A i, j \in 1..Len(rpo) : rpo[i] = rpo[j] => i = j
      /\ \A b : b \in reachable <=> \E i \in 1..Len(rpo) : b = rpo[i]
  BY <1>1 DEF IsRpo
<1>3. \A b : b \in reachable => RpoIdx(b) \in 1..Len(rpo) /\ rpo[RpoIdx(b)] = b
  <2> SUFFICES ASSUME NEW b \in reachable
               PROVE  RpoIdx(b) \in 1..Len(rpo) /\ rpo[RpoIdx(b)] = b
    OBVIOUS
  <2>1. \E i \in 1..Len(rpo) : rpo[i] = b
    BY <1>2
  <2> QED
    BY <2>1 DEF RpoIdx
<1>4. \A i \in 1..Len(rpo) : rpo[i] \in reachable /\ RpoIdx(rpo[i]) = i
  BY <1>2, <1>3
<1>5. \A b : b \notin reachable => RpoIdx(b) = 0
  BY DEF RpoIdx
<1>6. reachable \subseteq Blocks(g) /\ 0 \notin Blocks(g)
  BY <1>1, <1>2, ReachableFacts, GraphFacts
<1> QED
  BY <1>1, <1>2, <1>3, <1>4, <1>5, <1>6

(* ps lists the sources of the edges to position p; one comes earlier.     *)
Sources(gr, r, p, ps) ==
  /\ ps \in Seq(Blocks(gr)) /\ Len(ps) \in Nat /\ DOMAIN ps = 1..Len(ps)
  /\ \A j \in DOMAIN ps : Edge(gr, ps[j], r[p])
  /\ \A b : Edge(gr, b, r[p]) => \E j \in DOMAIN ps : b = ps[j]
  /\ \E i \in 1..(p - 1) : \E j \in DOMAIN ps : r[i] = ps[j]

(* The predecessors that compute intersects are the sources of the edges,  *)
(* and one of them comes earlier in the order.                             *)
LEMMA PredsFacts ==
  ASSUME NEW gr, NEW r, IsRpo(gr, r), NEW p \in 2..Len(r)
  PROVE  Sources(gr, r, p, Predecessors(gr, r[p]))
<1> DEFINE ps == Predecessors(gr, r[p])
<1>1. /\ IsGraph(gr) /\ Len(r) \in Nat \ {0} /\ p \in 1..Len(r) /\ p # 1
      /\ \A j \in 1..Len(r) : j # 1 => \E i \in 1..Len(r) : i < j /\ Edge(gr, r[i], r[j])
  BY DEF IsRpo
<1>2. ps \in Seq(Blocks(gr)) /\ \A b : b \in ToSet(ps) <=> Edge(gr, b, r[p])
  BY <1>1, PredecessorsFacts
<1> HIDE DEF ps
<1>3. \A b : b \in ToSet(ps) <=> \E j \in DOMAIN ps : b = ps[j]
  BY DEF ToSet
<1>4. PICK i \in 1..Len(r) : i < p /\ Edge(gr, r[i], r[p])
  BY <1>1
<1>5. i \in 1..(p - 1) /\ \E j \in DOMAIN ps : r[i] = ps[j]
  BY <1>1, <1>2, <1>3, <1>4
<1>6. Len(ps) \in Nat /\ DOMAIN ps = 1..Len(ps)
  BY <1>2
<1>7. \A j \in DOMAIN ps : Edge(gr, ps[j], r[p])
  BY <1>2, <1>3
<1>8. \A b : Edge(gr, b, r[p]) => \E j \in DOMAIN ps : b = ps[j]
  BY <1>2, <1>3
<1> QED
  BY <1>2, <1>5, <1>6, <1>7, <1>8 DEF ps, Sources

-----------------------------------------------------------------------------
(* The way up the tree.                                                    *)
LEMMA UpTransitive ==
  ASSUME NEW id, NEW a, NEW b, NEW c, Up(id, a, b), Up(id, b, c)
  PROVE  Up(id, a, c)
BY DEF Up

(* One step up the tree: idom of a position that has one.                  *)
LEMMA UpFacts ==
  ASSUME NEW gr, NEW r, NEW id, Len(r) \in Nat \ {0}, Tree(gr, r, id),
         NEW i \in 1..Len(r), id[i] # 0
  PROVE  /\ Up(id, i, i)
         /\ id[i] \in 1..Len(r) /\ id[id[i]] # 0 /\ Up(id, id[i], i)
         /\ i # 1 => id[i] < i
         /\ \A a : Up(id, a, i) => /\ a \in 1..Len(r) /\ a <= i /\ id[a] # 0
                                   /\ a = i \/ Up(id, a, id[i])
<1>1. /\ id \in [1..Len(r) -> 0..Len(r)] /\ id[1] = 1 /\ DOMAIN id = 1..Len(r)
      /\ \A m \in 2..Len(r) : id[m] # 0 => id[m] < m /\ id[id[m]] # 0
  BY DEF Tree
<1>2. \A m \in 1..Len(r) : id[m] # 0 => id[m] \in 1..Len(r) /\ id[id[m]] # 0 /\ id[m] <= m
                                        /\ (m # 1 => id[m] < m)
  <2> SUFFICES ASSUME NEW m \in 1..Len(r), id[m] # 0
               PROVE  id[m] \in 1..Len(r) /\ id[id[m]] # 0 /\ id[m] <= m /\ (m # 1 => id[m] < m)
    OBVIOUS
  <2>1. CASE m = 1
    BY <1>1, <2>1
  <2>2. CASE m # 1
    <3>1. m \in 2..Len(r)
      BY <2>2
    <3> QED
      BY <1>1, <3>1
  <2> QED
    BY <2>1, <2>2
<1>3. Up(id, i, i)
  BY DEF Up
<1>4. Up(id, id[i], i)
  BY DEF Up
<1>5. ASSUME NEW a, Up(id, a, i)
      PROVE  /\ a \in 1..Len(r) /\ a <= i /\ id[a] # 0
             /\ a = i \/ Up(id, a, id[i])
  <2> DEFINE S == {m \in 1..Len(r) : m <= i /\ id[m] # 0}
  <2>1. S \in SUBSET DOMAIN id /\ i \in S
    BY <1>1
  <2>2. \A m \in S : id[m] \in S
    BY <1>2
  <2>3. a \in S
    <3> HIDE DEF S
    <3> QED
      BY <1>5, <2>1, <2>2 DEF Up
  <2>4. a = i \/ Up(id, a, id[i])
    <3> SUFFICES ASSUME a # i, NEW R \in SUBSET DOMAIN id, id[i] \in R, \A j \in R : id[j] \in R
                 PROVE  a \in R
      BY DEF Up
    <3> DEFINE Ri == R \cup {i}
    <3>1. Ri \in SUBSET DOMAIN id /\ i \in Ri /\ \A j \in Ri : id[j] \in Ri
      BY <1>1
    <3>2. a \in Ri
      <4> HIDE DEF Ri
      <4> QED
        BY <1>5, <3>1 DEF Up
    <3> QED
      BY <3>2
  <2> QED
    BY <2>3, <2>4
<1> QED
  BY <1>2, <1>3, <1>4, <1>5

(* One step of intersect: the finger further from the entry is no strict   *)
(* dominator of the block, for it would dominate the other finger.         *)
LEMMA FingerStep ==
  ASSUME NEW gr, NEW r, IsRpo(gr, r), NEW id, Tree(gr, r, id), NEW p \in 2..Len(r),
         NEW f, NEW h, Candidate(gr, r, id, p, f), Candidate(gr, r, id, p, h), h < f
  PROVE  Candidate(gr, r, id, p, id[f]) /\ id[f] < f /\ Up(id, id[f], f)
<1>1. /\ f \in 1..Len(r) /\ id[f] # 0 /\ h \in 1..Len(r)
      /\ \A a \in Blocks(gr) : StrictlyDominates(gr, a, r[p]) =>
                                 Dominates(gr, a, r[f]) /\ Dominates(gr, a, r[h])
  BY DEF Candidate
<1>2. Len(r) \in Nat \ {0} /\ f \in 2..Len(r) /\ r[f] # r[h]
  BY <1>1 DEF IsRpo
<1>3. id[f] \in 1..Len(r) /\ id[id[f]] # 0 /\ id[f] < f /\ Up(id, id[f], f)
  BY <1>1, <1>2, UpFacts
<1>4. ASSUME NEW a \in Blocks(gr), StrictlyDominates(gr, a, r[p])
      PROVE  Dominates(gr, a, r[id[f]])
  <2>1. Dominates(gr, a, r[f]) /\ Dominates(gr, a, r[h])
    BY <1>1, <1>4
  <2>2. a # r[f]
    <3>1. SUFFICES ASSUME a = r[f] PROVE FALSE
      OBVIOUS
    <3>2. StrictlyDominates(gr, r[f], r[h])
      BY <1>2, <2>1, <3>1 DEF StrictlyDominates
    <3>3. f < h
      BY <1>1, <3>2, DominatorEarlier
    <3> QED
      BY <1>1, <1>2, <3>3
  <2>3. StrictlyDominates(gr, a, r[f])
    BY <2>1, <2>2 DEF StrictlyDominates
  <2> QED
    BY <1>1, <1>2, <2>3 DEF Tree
<1> QED
  BY <1>3, <1>4 DEF Candidate

-----------------------------------------------------------------------------
(* StartDom: the entry is its own parent, no other position has one.       *)
LEMMA StartDomStep ==
  ASSUME CfgInv, DomInv, StartDom
  PROVE  DomInv'
<1>1. /\ Complete /\ phase' = "block" /\ pos' = 2 /\ changed' = FALSE
      /\ idom' = [i \in 1..Len(rpo) |-> IF i = 1 THEN 1 ELSE 0]
      /\ g' = g /\ rpo' = rpo
  BY DEF StartDom, Ordered, Complete, rpo
<1>2. Len(rpo) \in Nat \ {0}
  BY <1>1, RpoIdxFacts
<1>3. \A i \in 1..Len(rpo) : idom'[i] = IF i = 1 THEN 1 ELSE 0
  BY <1>1
<1>4. TreeInv'
  <2>1. idom' \in [1..Len(rpo) -> 0..Len(rpo)] /\ idom'[1] = 1
    BY <1>1, <1>2
  <2>2. \A i \in 2..Len(rpo) : idom'[i] = 0
    BY <1>2, <1>3
  <2> QED
    BY <1>1, <2>1, <2>2 DEF TreeInv, Tree
<1>5. RoundInv'
  <2>1. \A i \in 1..Len(rpo) : idom'[i] # 0 <=> i < 2
    BY <1>2, <1>3
  <2> QED
    BY <1>1, <1>2, <2>1 DEF RoundInv
<1>6. PredsInv' /\ IntersectInv' /\ FinalInv'
  BY <1>1 DEF PredsInv, IntersectInv, FinalInv, Rounds
<1> QED
  BY <1>4, <1>5, <1>6 DEF DomInv

(* A state of the rounds.                                                  *)
LEMMA RoundFacts ==
  ASSUME CfgInv, DomInv, phase \in Rounds
  PROVE  /\ IsGraph(g) /\ IsRpo(g, rpo) /\ Len(rpo) \in Nat \ {0}
         /\ Tree(g, rpo, idom) /\ DOMAIN idom = 1..Len(rpo) /\ idom[1] = 1
         /\ idom \in [1..Len(rpo) -> 0..Len(rpo)]
         /\ pos \in 2..(Len(rpo) + 1)
         /\ \A i \in 1..Len(rpo) : i < pos => idom[i] # 0
         /\ Full(rpo, idom) \/ \A i \in 1..Len(rpo) : idom[i] # 0 <=> i < pos
         /\ ~changed => \A i \in 2..(pos - 1) : Settled(g, rpo, idom, i)
         /\ \A i \in 1..Len(rpo) : Processed(rpo[i]) <=> idom[i] # 0
         /\ \A b : Processed(b) =>
              RpoIdx(b) \in 1..Len(rpo) /\ rpo[RpoIdx(b)] = b /\ b \in Reachable(g)
<1>1. Complete /\ phase \notin {"reach", "order"}
  BY DEF CfgInv, CallsInv, Complete, Rounds
<1>2. /\ IsGraph(g) /\ IsRpo(g, rpo) /\ Len(rpo) \in Nat \ {0} /\ reachable = Reachable(g)
      /\ \A i \in 1..Len(rpo) : rpo[i] \in reachable /\ RpoIdx(rpo[i]) = i
      /\ \A b : b \in reachable => RpoIdx(b) \in 1..Len(rpo) /\ rpo[RpoIdx(b)] = b
      /\ \A b : b \notin reachable => RpoIdx(b) = 0
  BY <1>1, RpoIdxFacts
<1>3. Tree(g, rpo, idom)
  BY <1>1 DEF DomInv, TreeInv
<1>4. DOMAIN idom = 1..Len(rpo) /\ idom[1] = 1 /\ idom \in [1..Len(rpo) -> 0..Len(rpo)]
  BY <1>3 DEF Tree
<1>5. /\ pos \in 2..(Len(rpo) + 1)
      /\ Full(rpo, idom) \/ \A i \in 1..Len(rpo) : idom[i] # 0 <=> i < pos
      /\ ~changed => \A i \in 2..(pos - 1) : Settled(g, rpo, idom, i)
  BY DEF DomInv, RoundInv
<1>6. \A i \in 1..Len(rpo) : i < pos => idom[i] # 0
  BY <1>5 DEF Full
<1>7. \A i \in 1..Len(rpo) : Processed(rpo[i]) <=> idom[i] # 0
  BY <1>2 DEF Processed
<1>8. \A b : Processed(b) =>
        RpoIdx(b) \in 1..Len(rpo) /\ rpo[RpoIdx(b)] = b /\ b \in Reachable(g)
  BY <1>2 DEF Processed
<1> QED
  BY <1>2, <1>3, <1>4, <1>5, <1>6, <1>7, <1>8

(* Block: new_idom starts as a predecessor that has been processed; the    *)
(* one earlier in the order is there, so no block is left for later.       *)
LEMMA BlockStep ==
  ASSUME CfgInv, DomInv, Block
  PROVE  DomInv'
<1> DEFINE L == Len(rpo)
           ps == Preds(pos)
           done == {m \in DOMAIN ps : Processed(ps[m])}
<1>1. phase = "block" /\ pos <= L /\ phase \in Rounds
  BY DEF Block, Rounds
<1>2. /\ IsGraph(g) /\ IsRpo(g, rpo) /\ Len(rpo) \in Nat \ {0}
      /\ Tree(g, rpo, idom) /\ pos \in 2..(L + 1)
      /\ \A i \in 1..L : i < pos => idom[i] # 0
      /\ \A i \in 1..L : Processed(rpo[i]) <=> idom[i] # 0
      /\ \A b : Processed(b) => RpoIdx(b) \in 1..L /\ rpo[RpoIdx(b)] = b /\ b \in Reachable(g)
  BY <1>1, RoundFacts
<1>3. pos \in 2..L
  BY <1>1, <1>2
<1>4. /\ ps \in Seq(Blocks(g)) /\ Len(ps) \in Nat /\ DOMAIN ps = 1..Len(ps)
      /\ \A j \in DOMAIN ps : Edge(g, ps[j], rpo[pos])
      /\ \E i \in 1..(pos - 1) : \E j \in DOMAIN ps : rpo[i] = ps[j]
  <2>1. Sources(g, rpo, pos, Predecessors(g, rpo[pos]))
    <3> HIDE DEF L, ps
    <3> QED
      BY <1>2, <1>3, PredsFacts DEF L
  <2>2. Sources(g, rpo, pos, ps)
    BY <2>1 DEF Preds
  <2> HIDE DEF ps
  <2> QED
    BY <2>2 DEF Sources
<1> HIDE DEF ps, L
<1>5. done # {}
  <2>1. PICK i \in 1..(pos - 1), j \in DOMAIN ps : rpo[i] = ps[j]
    BY <1>4
  <2>2. i \in 1..L /\ idom[i] # 0
    BY <1>2, <1>3, <2>1 DEF L
  <2>3. Processed(ps[j])
    BY <1>2, <2>1, <2>2
  <2> QED
    BY <2>1, <2>3
<1>6. PICK m \in done : m = Min(done)
  <2>1. done \subseteq Nat
    BY <1>4
  <2> HIDE DEF done
  <2>2. \E x \in done : \A y \in done : x <= y
    BY <1>5, <2>1, LeastNatural
  <2> QED
    BY <2>2 DEF Min
<1>7. /\ cand' = RpoIdx(ps[m]) /\ k' = 1 /\ phase' = "preds"
      /\ UNCHANGED <<g, order, idom, pos, changed>>
  BY <1>5, <1>6 DEF Block, ps
<1>8. m \in DOMAIN ps /\ Processed(ps[m])
  OBVIOUS
<1> HIDE DEF done
<1>9. rpo' = rpo
  BY <1>7 DEF rpo
<1>10. Candidate(g, rpo, idom, pos, cand')
  <2>1. cand' \in 1..L /\ rpo[cand'] = ps[m] /\ ps[m] \in Reachable(g) /\ idom[cand'] # 0
    BY <1>2, <1>7, <1>8 DEF Processed
  <2>2. ASSUME NEW a \in Blocks(g), StrictlyDominates(g, a, rpo[pos])
        PROVE  Dominates(g, a, rpo[cand'])
    BY <1>2, <1>4, <1>8, <2>1, <2>2, DominatesPredecessor
  <2> QED
    BY <2>1, <2>2 DEF Candidate, L
<1>11. Seen(g, rpo, idom, pos, 1, cand')
  BY <1>4 DEF Seen, ps, Preds
<1>12. TreeInv'
  BY <1>2, <1>7, <1>9 DEF TreeInv
<1>13. RoundInv'
  BY <1>1, <1>7, <1>9 DEF DomInv, RoundInv, Rounds
<1>14. PredsInv'
  <2>1. 1 \in 1..(Len(ps) + 1) /\ Preds(pos)' = ps
    BY <1>4, <1>7, <1>9 DEF Preds, ps
  <2> QED
    BY <1>1, <1>7, <1>9, <1>10, <1>11, <2>1 DEF PredsInv, L
<1>15. IntersectInv' /\ FinalInv'
  BY <1>7 DEF IntersectInv, FinalInv, Rounds
<1> QED
  BY <1>12, <1>13, <1>14, <1>15 DEF DomInv

(* While the predecessors of a position are intersected.                   *)
LEMMA PredsNow ==
  ASSUME CfgInv, DomInv, phase \in {"preds", "intersect"}
  PROVE  /\ pos \in 2..Len(rpo)
         /\ Len(Preds(pos)) \in Nat /\ DOMAIN Preds(pos) = 1..Len(Preds(pos))
         /\ \A j \in DOMAIN Preds(pos) : Edge(g, Preds(pos)[j], rpo[pos])
         /\ \A b : Edge(g, b, rpo[pos]) => \E j \in DOMAIN Preds(pos) : b = Preds(pos)[j]
         /\ \E i \in 1..(pos - 1) : \E j \in DOMAIN Preds(pos) : rpo[i] = Preds(pos)[j]
         /\ k \in 1..(Len(Preds(pos)) + 1)
         /\ Candidate(g, rpo, idom, pos, cand)
         /\ Seen(g, rpo, idom, pos, k, cand)
<1>1. phase \in Rounds
  BY DEF Rounds
<1>2. /\ pos <= Len(rpo) /\ k \in 1..(Len(Preds(pos)) + 1)
      /\ Candidate(g, rpo, idom, pos, cand) /\ Seen(g, rpo, idom, pos, k, cand)
  BY DEF DomInv, PredsInv
<1>3. IsRpo(g, rpo) /\ Len(rpo) \in Nat \ {0} /\ pos \in 2..(Len(rpo) + 1)
  BY <1>1, RoundFacts
<1>4. pos \in 2..Len(rpo)
  BY <1>2, <1>3
<1>5. Sources(g, rpo, pos, Preds(pos))
  <2>1. Sources(g, rpo, pos, Predecessors(g, rpo[pos]))
    BY <1>3, <1>4, PredsFacts
  <2> QED
    BY <2>1 DEF Preds
<1> QED
  BY <1>2, <1>4, <1>5 DEF Sources

(* Pred: a predecessor that is new_idom already, or not processed, changes *)
(* nothing; the others start intersect.                                    *)
LEMMA PredStep ==
  ASSUME CfgInv, DomInv, Pred
  PROVE  DomInv'
<1> DEFINE b == Preds(pos)[k]
<1>1. phase = "preds" /\ phase \in Rounds /\ k <= Len(Preds(pos))
  BY DEF Pred, Rounds
<1>2. UNCHANGED <<g, order, idom, pos, cand, changed>> /\ rpo' = rpo
  BY DEF Pred, rpo
<1>3. /\ pos \in 2..Len(rpo) /\ Len(Preds(pos)) \in Nat
      /\ DOMAIN Preds(pos) = 1..Len(Preds(pos)) /\ k \in 1..(Len(Preds(pos)) + 1)
      /\ \A j \in DOMAIN Preds(pos) : Edge(g, Preds(pos)[j], rpo[pos])
      /\ Candidate(g, rpo, idom, pos, cand) /\ Seen(g, rpo, idom, pos, k, cand)
  BY <1>1, PredsNow
<1>4. /\ IsGraph(g) /\ IsRpo(g, rpo) /\ Len(rpo) \in Nat \ {0} /\ Tree(g, rpo, idom)
      /\ \A i \in 1..Len(rpo) : Processed(rpo[i]) <=> idom[i] # 0
      /\ \A p : Processed(p) => RpoIdx(p) \in 1..Len(rpo) /\ rpo[RpoIdx(p)] = p /\ p \in Reachable(g)
  BY <1>1, RoundFacts
<1>5. k \in DOMAIN Preds(pos)
  BY <1>1, <1>3
<1>6. /\ \A i, j \in 1..Len(rpo) : rpo[i] = rpo[j] => i = j
      /\ cand \in 1..Len(rpo) /\ idom[cand] # 0
  BY <1>3, <1>4 DEF IsRpo, Candidate
<1>7. Up(idom, cand, cand)
  BY DEF Up
<1>8. Preds(pos)' = Preds(pos)
  BY <1>2 DEF Preds
<1>9. TreeInv'
  <2>1. phase' \notin {"reach", "order"}
    BY <1>1 DEF Pred
  <2> QED
    BY <1>2, <1>4, <2>1 DEF TreeInv
<1>10. RoundInv'
  BY <1>1, <1>2 DEF DomInv, RoundInv, Rounds
<1>11. FinalInv'
  <2>1. phase' \in Rounds
    BY <1>1 DEF Pred, Rounds
  <2> QED
    BY <2>1 DEF FinalInv
<1>12. CASE Processed(b) /\ RpoIdx(b) # cand
  <2>1. finger1' = RpoIdx(b) /\ finger2' = cand /\ phase' = "intersect" /\ k' = k
    BY <1>12 DEF Pred
  <2>2. PredsInv'
    BY <1>2, <1>3, <1>8, <2>1 DEF PredsInv
  <2>3. RpoIdx(b) \in 1..Len(rpo) /\ rpo[RpoIdx(b)] = b /\ idom[RpoIdx(b)] # 0
    BY <1>4, <1>12 DEF Processed
  <2>4. Candidate(g, rpo, idom, pos, RpoIdx(b))
    <3> SUFFICES ASSUME NEW a \in Blocks(g), StrictlyDominates(g, a, rpo[pos])
                 PROVE  Dominates(g, a, b)
      BY <2>3 DEF Candidate
    <3> QED
      BY <1>3, <1>4, <1>5, <1>12, DominatesPredecessor
  <2>5. Up(idom, RpoIdx(b), RpoIdx(b))
    BY DEF Up
  <2>6. IntersectInv'
    BY <1>2, <1>3, <1>5, <1>7, <1>8, <2>1, <2>3, <2>4, <2>5 DEF IntersectInv
  <2> QED
    BY <1>9, <1>10, <1>11, <2>2, <2>6 DEF DomInv
<1>13. CASE ~(Processed(b) /\ RpoIdx(b) # cand)
  <2>1. k' = k + 1 /\ phase' = phase
    BY <1>13 DEF Pred
  <2>2. k + 1 \in 1..(Len(Preds(pos)) + 1)
    BY <1>1, <1>3
  <2>3. Seen(g, rpo, idom, pos, k + 1, cand)
    <3> SUFFICES ASSUME NEW j \in DOMAIN Preds(pos), NEW i \in 1..Len(rpo),
                        j < k + 1, rpo[i] = Preds(pos)[j], idom[i] # 0
                 PROVE  Up(idom, cand, i)
      BY DEF Seen, Preds
    <3>1. CASE j < k
      BY <1>3, <3>1 DEF Seen, Preds
    <3>2. CASE ~(j < k)
      <4>1. j = k
        BY <1>3, <3>2
      <4>2. rpo[i] = b /\ Processed(b)
        BY <1>4, <4>1
      <4>3. RpoIdx(b) = cand /\ RpoIdx(b) \in 1..Len(rpo) /\ rpo[RpoIdx(b)] = b
        BY <1>4, <1>13, <4>2
      <4>4. i = cand
        BY <1>6, <4>2, <4>3
      <4> QED
        BY <1>7, <4>4
    <3> QED
      BY <3>1, <3>2
  <2>4. PredsInv'
    BY <1>2, <1>3, <1>8, <2>1, <2>2, <2>3 DEF PredsInv
  <2>5. IntersectInv'
    BY <1>1, <2>1 DEF IntersectInv
  <2> QED
    BY <1>9, <1>10, <1>11, <2>4, <2>5 DEF DomInv
<1> QED
  BY <1>12, <1>13

(* Walk: the finger that moves stays above where it started.               *)
LEMMA WalkStep ==
  ASSUME CfgInv, DomInv, Walk
  PROVE  DomInv'
<1>1. /\ phase = "intersect" /\ finger1 # finger2
      /\ UNCHANGED <<g, phase, order, idom, pos, cand, k, changed>> /\ rpo' = rpo
  BY DEF Walk, cfgVars, rpo
<1>2. Preds(pos)' = Preds(pos)
  BY <1>1 DEF Preds
<1>3. pos \in 2..Len(rpo)
  BY <1>1, PredsNow
<1>4. IsRpo(g, rpo) /\ Tree(g, rpo, idom)
  BY <1>1, RoundFacts DEF Rounds
<1>5. PICK i \in 1..Len(rpo) :
        rpo[i] = Preds(pos)[k] /\ idom[i] # 0 /\ Up(idom, finger1, i)
  BY <1>1 DEF DomInv, IntersectInv
<1>6. /\ k \in DOMAIN Preds(pos) /\ Up(idom, finger2, cand)
      /\ Candidate(g, rpo, idom, pos, finger1) /\ Candidate(g, rpo, idom, pos, finger2)
  BY <1>1 DEF DomInv, IntersectInv
<1>7. finger1 \in 1..Len(rpo) /\ finger2 \in 1..Len(rpo)
  BY <1>6 DEF Candidate
<1>8. IntersectInv'
  <2>1. CASE finger2 < finger1
    <3>1. finger1' = idom[finger1] /\ finger2' = finger2
      BY <1>7, <2>1 DEF Walk
    <3>2. Candidate(g, rpo, idom, pos, finger1') /\ Up(idom, finger1', finger1)
      BY <1>3, <1>4, <1>6, <2>1, <3>1, FingerStep
    <3>3. Up(idom, finger1', i)
      BY <1>5, <3>2, UpTransitive
    <3> QED
      BY <1>1, <1>2, <1>5, <1>6, <3>1, <3>2, <3>3 DEF IntersectInv
  <2>2. CASE ~(finger2 < finger1)
    <3>1. finger1 < finger2 /\ ~(finger1 > finger2)
      BY <1>1, <1>7, <2>2
    <3>2. finger2' = idom[finger2] /\ finger1' = finger1
      BY <3>1 DEF Walk
    <3>3. Candidate(g, rpo, idom, pos, finger2') /\ Up(idom, finger2', finger2)
      BY <1>3, <1>4, <1>6, <3>1, <3>2, FingerStep
    <3>4. Up(idom, finger2', cand)
      BY <1>6, <3>3, UpTransitive
    <3> QED
      BY <1>1, <1>2, <1>5, <1>6, <3>2, <3>3, <3>4 DEF IntersectInv
  <2> QED
    BY <2>1, <2>2
<1>9. TreeInv' /\ RoundInv' /\ FinalInv'
  BY <1>1 DEF DomInv, TreeInv, RoundInv, FinalInv, Rounds
<1>10. PredsInv'
  BY <1>1, <1>2 DEF DomInv, PredsInv
<1> QED
  BY <1>8, <1>9, <1>10 DEF DomInv

(* Meet: the fingers met above new_idom and above the predecessor.         *)
LEMMA MeetStep ==
  ASSUME CfgInv, DomInv, Meet
  PROVE  DomInv'
<1>1. /\ phase = "intersect" /\ finger1 = finger2 /\ cand' = finger1 /\ k' = k + 1
      /\ phase' = "preds"
      /\ UNCHANGED <<g, order, idom, pos, changed>> /\ rpo' = rpo
  BY DEF Meet, rpo
<1>2. Preds(pos)' = Preds(pos)
  BY <1>1 DEF Preds
<1>3. /\ pos \in 2..Len(rpo) /\ Len(Preds(pos)) \in Nat
      /\ DOMAIN Preds(pos) = 1..Len(Preds(pos))
      /\ Seen(g, rpo, idom, pos, k, cand)
  BY <1>1, PredsNow
<1>4. PICK i \in 1..Len(rpo) :
        rpo[i] = Preds(pos)[k] /\ idom[i] # 0 /\ Up(idom, finger1, i)
  BY <1>1 DEF DomInv, IntersectInv
<1>5. /\ k \in DOMAIN Preds(pos) /\ Up(idom, finger1, cand)
      /\ Candidate(g, rpo, idom, pos, finger1)
  BY <1>1 DEF DomInv, IntersectInv
<1>6. \A m, n \in 1..Len(rpo) : rpo[m] = rpo[n] => m = n
  <2>1. IsRpo(g, rpo)
    BY <1>1, RoundFacts DEF Rounds
  <2> QED
    BY <2>1 DEF IsRpo
<1>7. Seen(g, rpo, idom, pos, k + 1, finger1)
  <2> SUFFICES ASSUME NEW j \in DOMAIN Preds(pos), NEW m \in 1..Len(rpo),
                      j < k + 1, rpo[m] = Preds(pos)[j], idom[m] # 0
               PROVE  Up(idom, finger1, m)
    BY DEF Seen, Preds
  <2>1. CASE j < k
    <3>1. Up(idom, cand, m)
      BY <1>3, <2>1 DEF Seen, Preds
    <3> QED
      BY <1>5, <3>1, UpTransitive
  <2>2. CASE ~(j < k)
    <3>1. j = k
      BY <1>3, <1>5, <2>2
    <3>2. m = i
      BY <1>4, <1>6, <3>1
    <3> QED
      BY <1>4, <3>2
  <2> QED
    BY <2>1, <2>2
<1>8. PredsInv'
  <2>1. k + 1 \in 1..(Len(Preds(pos)) + 1) /\ pos <= Len(rpo)
    BY <1>3, <1>5
  <2> QED
    BY <1>1, <1>2, <1>5, <1>7, <2>1 DEF PredsInv
<1>9. TreeInv' /\ RoundInv' /\ FinalInv' /\ IntersectInv'
  BY <1>1 DEF DomInv, TreeInv, RoundInv, FinalInv, IntersectInv, Rounds
<1> QED
  BY <1>8, <1>9 DEF DomInv

(* A position gets a parent that was processed before it.                  *)
WithParent(id, p, c) == [id EXCEPT ![p] = c]

(* Setting idom[i] to a candidate keeps the tree a tree.                   *)
LEMMA CommitTree ==
  ASSUME NEW gr, NEW r, NEW id, Len(r) \in Nat \ {0}, Tree(gr, r, id),
         NEW p \in 2..Len(r), NEW c, c < p, Candidate(gr, r, id, p, c),
         NEW new, new = WithParent(id, p, c)
  PROVE  /\ Tree(gr, r, new) /\ c # 0
         /\ \A i \in 1..Len(r) : new[i] = IF i = p THEN c ELSE id[i]
<1>1. /\ id \in [1..Len(r) -> 0..Len(r)] /\ id[1] = 1
      /\ \A i \in 2..Len(r) : id[i] # 0 =>
           /\ id[i] < i /\ id[id[i]] # 0
           /\ \A a \in Blocks(gr) : StrictlyDominates(gr, a, r[i]) => Dominates(gr, a, r[id[i]])
  BY DEF Tree
<1>2. /\ c \in 1..Len(r) /\ id[c] # 0
      /\ \A a \in Blocks(gr) : StrictlyDominates(gr, a, r[p]) => Dominates(gr, a, r[c])
  BY DEF Candidate
<1>3. /\ new \in [1..Len(r) -> 0..Len(r)]
      /\ \A i \in 1..Len(r) : new[i] = IF i = p THEN c ELSE id[i]
      /\ c # 0
  BY <1>1, <1>2 DEF WithParent
<1>4. \A i \in 1..Len(r) : id[i] # 0 => new[i] # 0
  BY <1>2, <1>3
<1>5. ASSUME NEW i \in 2..Len(r), new[i] # 0
      PROVE  /\ new[i] < i /\ new[new[i]] # 0
             /\ \A a \in Blocks(gr) : StrictlyDominates(gr, a, r[i]) => Dominates(gr, a, r[new[i]])
  <2>1. CASE i = p
    <3>1. new[i] = c
      BY <1>3, <2>1
    <3> QED
      BY <1>2, <1>4, <2>1, <3>1
  <2>2. CASE i # p
    <3>1. new[i] = id[i] /\ id[i] # 0 /\ id[i] \in 1..Len(r)
      BY <1>1, <1>3, <1>5, <2>2
    <3> QED
      BY <1>1, <1>4, <3>1
  <2> QED
    BY <2>1, <2>2
<1>6. new[1] = 1
  BY <1>1, <1>3
<1>7. Tree(gr, r, new)
  BY <1>3, <1>5, <1>6 DEF Tree
<1> QED
  BY <1>3, <1>7

(* Commit: new_idom comes before the position, above a predecessor that    *)
(* does; the position is settled if that was its parent before.            *)
LEMMA CommitStep ==
  ASSUME CfgInv, DomInv, Commit
  PROVE  DomInv'
<1> DEFINE new == [idom EXCEPT ![pos] = cand]
<1>1. /\ phase = "preds" /\ k > Len(Preds(pos)) /\ idom' = new
      /\ changed' = (changed \/ idom[pos] # cand) /\ pos' = pos + 1 /\ phase' = "block"
      /\ g' = g /\ rpo' = rpo
  BY DEF Commit, rpo
<1>2. /\ pos \in 2..Len(rpo) /\ Len(Preds(pos)) \in Nat
      /\ DOMAIN Preds(pos) = 1..Len(Preds(pos)) /\ k \in 1..(Len(Preds(pos)) + 1)
      /\ \A b : Edge(g, b, rpo[pos]) => \E j \in DOMAIN Preds(pos) : b = Preds(pos)[j]
      /\ \E i \in 1..(pos - 1) : \E j \in DOMAIN Preds(pos) : rpo[i] = Preds(pos)[j]
      /\ Candidate(g, rpo, idom, pos, cand) /\ Seen(g, rpo, idom, pos, k, cand)
  BY <1>1, PredsNow
<1>3. /\ Len(rpo) \in Nat \ {0} /\ Tree(g, rpo, idom) /\ idom \in [1..Len(rpo) -> 0..Len(rpo)]
      /\ \A i \in 1..Len(rpo) : i < pos => idom[i] # 0
      /\ Full(rpo, idom) \/ \A i \in 1..Len(rpo) : idom[i] # 0 <=> i < pos
      /\ ~changed => \A i \in 2..(pos - 1) : Settled(g, rpo, idom, i)
  BY <1>1, RoundFacts DEF Rounds
<1>4. ASSUME NEW i \in 1..Len(rpo), NEW j \in DOMAIN Preds(pos),
             rpo[i] = Preds(pos)[j], idom[i] # 0
      PROVE  Up(idom, cand, i)
  <2>1. j < k
    BY <1>1, <1>2
  <2> QED
    BY <1>2, <1>4, <2>1 DEF Seen, Preds
<1>5. cand < pos
  <2>1. PICK i \in 1..(pos - 1), j \in DOMAIN Preds(pos) : rpo[i] = Preds(pos)[j]
    BY <1>2
  <2>2. i \in 1..Len(rpo) /\ i < pos /\ idom[i] # 0
    BY <1>2, <1>3, <2>1
  <2>3. Up(idom, cand, i)
    BY <1>4, <2>1, <2>2
  <2>4. cand \in 1..Len(rpo) /\ cand <= i
    BY <1>3, <2>2, <2>3, UpFacts
  <2> QED
    BY <1>2, <2>2, <2>4
<1>6. /\ Tree(g, rpo, new) /\ cand # 0
      /\ \A i \in 1..Len(rpo) : new[i] = IF i = pos THEN cand ELSE idom[i]
  <2>1. new = WithParent(idom, pos, cand)
    BY DEF WithParent
  <2>2. Len(rpo) \in Nat \ {0} /\ Tree(g, rpo, idom) /\ pos \in 2..Len(rpo) /\ cand < pos
    BY <1>2, <1>3, <1>5
  <2>3. Candidate(g, rpo, idom, pos, cand)
    BY <1>2
  <2> HIDE DEF new
  <2> QED
    BY <2>1, <2>2, <2>3, CommitTree
<1>7. TreeInv'
  BY <1>1, <1>6 DEF TreeInv
<1>8. RoundInv'
  <2>1. pos + 1 \in 2..(Len(rpo) + 1)
    BY <1>2, <1>3
  <2>2. Full(rpo, new) \/ \A i \in 1..Len(rpo) : new[i] # 0 <=> i < pos + 1
    <3> HIDE DEF new
    <3>1. CASE Full(rpo, idom)
      BY <1>6, <3>1 DEF Full
    <3>2. CASE \A i \in 1..Len(rpo) : idom[i] # 0 <=> i < pos
      <4>1. \A i \in 1..Len(rpo) : i < pos + 1 <=> (i < pos \/ i = pos)
        BY <1>2, <1>3
      <4> QED
        BY <1>6, <3>2, <4>1
    <3> QED
      BY <1>3, <3>1, <3>2
  <2>3. ASSUME ~changed' PROVE \A i \in 2..pos : Settled(g, rpo, new, i)
    <3>1. ~changed /\ idom[pos] = cand
      BY <1>1, <2>3
    <3>2. new = idom
      BY <1>2, <1>3, <3>1
    <3>3. Full(rpo, idom)
      BY <1>2, <1>3, <1>6, <3>1
    <3>4. Settled(g, rpo, idom, pos)
      <4> SUFFICES ASSUME NEW i \in 1..Len(rpo), Edge(g, rpo[i], rpo[pos])
                   PROVE  Up(idom, cand, i)
        BY <3>1 DEF Settled
      <4>1. PICK j \in DOMAIN Preds(pos) : rpo[i] = Preds(pos)[j]
        BY <1>2
      <4>2. idom[i] # 0
        BY <3>3 DEF Full
      <4> QED
        BY <1>4, <4>1, <4>2
    <3>5. \A i \in 2..pos : i \in 2..(pos - 1) \/ i = pos
      BY <1>2, <1>3
    <3> QED
      BY <1>3, <3>1, <3>2, <3>4, <3>5
  <2>4. (pos + 1) - 1 = pos
    BY <1>2, <1>3
  <2> HIDE DEF new
  <2> QED
    BY <1>1, <2>1, <2>2, <2>3, <2>4 DEF RoundInv
<1>9. PredsInv' /\ IntersectInv' /\ FinalInv'
  BY <1>1 DEF PredsInv, IntersectInv, FinalInv, Rounds
<1> QED
  BY <1>7, <1>8, <1>9 DEF DomInv

(* EndRound: after a round without a change all positions are settled.     *)
LEMMA EndRoundStep ==
  ASSUME CfgInv, DomInv, EndRound
  PROVE  DomInv'
<1>1. /\ phase = "block" /\ pos > Len(rpo)
      /\ phase' = IF changed THEN "block" ELSE "tree"
      /\ pos' = 2 /\ changed' = FALSE /\ UNCHANGED <<g, order, idom>> /\ rpo' = rpo
  BY DEF EndRound, rpo
<1>2. /\ Len(rpo) \in Nat \ {0} /\ Tree(g, rpo, idom) /\ pos \in 2..(Len(rpo) + 1)
      /\ \A i \in 1..Len(rpo) : i < pos => idom[i] # 0
      /\ ~changed => \A i \in 2..(pos - 1) : Settled(g, rpo, idom, i)
  BY <1>1, RoundFacts DEF Rounds
<1>3. pos - 1 = Len(rpo) /\ \A i \in 1..Len(rpo) : i < pos
  BY <1>1, <1>2
<1>4. Full(rpo, idom)
  BY <1>2, <1>3 DEF Full
<1>5. TreeInv'
  BY <1>1, <1>2 DEF TreeInv
<1>6. RoundInv'
  <2>1. 2 \in 2..(Len(rpo) + 1) /\ \A i \in 2..(2 - 1) : FALSE
    BY <1>2
  <2> QED
    BY <1>1, <1>4, <2>1 DEF RoundInv
<1>7. FinalInv'
  BY <1>1, <1>2, <1>3, <1>4 DEF FinalInv, Rounds
<1>8. PredsInv' /\ IntersectInv'
  BY <1>1 DEF PredsInv, IntersectInv
<1> QED
  BY <1>5, <1>6, <1>7, <1>8 DEF DomInv

-----------------------------------------------------------------------------
(* The steps before the rounds, and those of the analyses after them.      *)
DomQuiet ==
  /\ UNCHANGED <<g, reachable, order, calls, idom, pos, cand, k, finger1, finger2, changed>>
  /\ \/ phase' = phase
     \/ phase \notin {"reach", "order"} \cup Rounds /\ phase' \notin {"reach", "order"} \cup Rounds

(* Every step of the analyses is a step of Cfg, a step of DomTree, or      *)
(* leaves the tree alone.                                                  *)
LEMMA StepsOfDom ==
  ASSUME [Next]_vars
  PROVE  \/ CfgNext /\ UNCHANGED domVars
         \/ StartDom \/ Block \/ Pred \/ Walk \/ Meet \/ Commit \/ EndRound
         \/ DomQuiet
<1> USE DEF DomQuiet, Rounds, cfgVars, domVars, domAll, loopVars, fixed, vars
<1>1. CASE DomNext
  BY <1>1 DEF DomNext
<1>2. CASE StartSearch
  BY <1>2 DEF StartSearch
<1>3. CASE Search
  BY <1>3 DEF Search
<1>4. CASE StartCollect
  BY <1>4 DEF StartCollect
<1>5. CASE Collect
  BY <1>5 DEF Collect
<1>6. CASE EndLoop
  BY <1>6 DEF EndLoop
<1>7. CASE Nest
  BY <1>7 DEF Nest
<1>8. CASE \E b \in Blocks(g) : Query(b)
  BY <1>8 DEF Query
<1>9. CASE Climb
  BY <1>9 DEF Climb
<1>10. CASE UNCHANGED vars
  BY <1>10
<1> QED
  BY <1>1, <1>2, <1>3, <1>4, <1>5, <1>6, <1>7, <1>8, <1>9, <1>10 DEF Next, Done

(* The analyses after DomTree leave the tree as it is.                     *)
LEMMA DomQuietStep ==
  ASSUME DomInv, DomQuiet
  PROVE  DomInv'
<1>1. UNCHANGED <<g, order, idom, pos, cand, k, finger1, finger2, changed>> /\ rpo' = rpo
  BY DEF DomQuiet, rpo
<1>2. Preds(pos)' = Preds(pos)
  BY <1>1 DEF Preds
<1>3. \/ phase' = phase
      \/ phase \notin {"reach", "order"} \cup Rounds /\ phase' \notin {"reach", "order"} \cup Rounds
  BY DEF DomQuiet
<1>4. TreeInv'
  BY <1>1, <1>3 DEF DomInv, TreeInv
<1>5. RoundInv'
  BY <1>1, <1>3 DEF DomInv, RoundInv
<1>6. PredsInv'
  BY <1>1, <1>2, <1>3 DEF DomInv, PredsInv, Rounds
<1>7. IntersectInv'
  BY <1>1, <1>2, <1>3 DEF DomInv, IntersectInv, Rounds
<1>8. FinalInv'
  BY <1>1, <1>3 DEF DomInv, FinalInv
<1> QED
  BY <1>4, <1>5, <1>6, <1>7, <1>8 DEF DomInv

(* The sweep and the search run before the first round.                    *)
LEMMA BeforeRounds ==
  ASSUME DomInv, CfgNext, UNCHANGED domVars
  PROVE  DomInv'
<1>1. phase \in {"reach", "order"} /\ phase' \in {"reach", "order"} /\ idom' = idom
  BY DEF CfgNext, Sweep, StartOrder, Descend, Return, domVars
<1>2. idom = <<>>
  BY <1>1 DEF DomInv, TreeInv
<1> QED
  BY <1>1, <1>2 DEF DomInv, TreeInv, RoundInv, PredsInv, IntersectInv, FinalInv, Rounds

(* The invariant of the dominator tree, through all analyses.              *)
THEOREM DomInvariant == Spec => [](CfgInv /\ DomInv)
<1>1. Init => DomInv
  BY DEF Init, DomInit, CfgInit, DomInv, TreeInv, RoundInv, PredsInv, IntersectInv, FinalInv, Rounds
<1>2. CfgInv /\ DomInv /\ [Next]_vars => DomInv'
  BY StepsOfDom, BeforeRounds, StartDomStep, BlockStep, PredStep, WalkStep, MeetStep,
     CommitStep, EndRoundStep, DomQuietStep
<1> QED
  BY <1>1, <1>2, CfgInvariant, PTL DEF Spec

(* The fingers of intersect always move toward the entry and stay on       *)
(* processed blocks: intersect terminates and never reads UNDEF.           *)
THEOREM IdomEarlierAlways == Spec => []IdomEarlier
<1>1. CfgInv /\ DomInv => IdomEarlier
  <2> SUFFICES ASSUME CfgInv, DomInv PROVE IdomEarlier
    OBVIOUS
  <2>1. \A i \in 2..Len(idom) : idom[i] < i
    <3>1. CASE phase \in {"reach", "order"}
      BY <3>1 DEF DomInv, TreeInv
    <3>2. CASE phase \notin {"reach", "order"}
      <4>1. Tree(g, rpo, idom) /\ Len(rpo) \in Nat \ {0}
        <5>1. Complete
          BY <3>2 DEF CfgInv, CallsInv, Complete
        <5> QED
          BY <3>2, <5>1, RpoIdxFacts DEF DomInv, TreeInv
      <4>2. /\ idom \in [1..Len(rpo) -> 0..Len(rpo)] /\ Len(rpo) \in Nat \ {0}
            /\ \A i \in 2..Len(rpo) : idom[i] # 0 => idom[i] < i
        BY <4>1 DEF Tree
      <4>3. Len(idom) = Len(rpo)
        BY <4>2
      <4> QED
        BY <4>2, <4>3
    <3> QED
      BY <3>1, <3>2
  <2>2. phase = "intersect" => finger1 > 0 /\ finger2 > 0
    <3> SUFFICES ASSUME phase = "intersect" PROVE finger1 > 0 /\ finger2 > 0
      OBVIOUS
    <3>1. finger1 \in 1..Len(rpo) /\ finger2 \in 1..Len(rpo)
      BY DEF DomInv, IntersectInv, Candidate
    <3> QED
      BY <3>1
  <2>3. phase = "preds" => cand > 0
    <3> SUFFICES ASSUME phase = "preds" PROVE cand > 0
      OBVIOUS
    <3>1. cand \in 1..Len(rpo)
      BY DEF DomInv, PredsInv, Candidate
    <3> QED
      BY <3>1
  <2> QED
    BY <2>1, <2>2, <2>3 DEF IdomEarlier
<1> QED
  BY <1>1, DomInvariant, PTL

-----------------------------------------------------------------------------
(* A tree in which every position is settled is the dominator tree.        *)
Final(gr, r, id) ==
  /\ IsRpo(gr, r) /\ Tree(gr, r, id) /\ Full(r, id)
  /\ \A i \in 2..Len(r) : Settled(gr, r, id, i)

(* What the finished tree gives for each position.                         *)
LEMMA FinalFacts ==
  ASSUME NEW gr, NEW r, NEW id, Final(gr, r, id)
  PROVE  /\ IsGraph(gr) /\ Len(r) \in Nat \ {0} /\ r[1] = 1
         /\ \A i \in 1..Len(r) : r[i] \in Reachable(gr) /\ r[i] \in Blocks(gr)
         /\ \A b : b \in Reachable(gr) => \E i \in 1..Len(r) : b = r[i]
         /\ \A i, j \in 1..Len(r) : r[i] = r[j] => i = j
         /\ DOMAIN id = 1..Len(r) /\ id[1] = 1
         /\ \A i \in 1..Len(r) : id[i] # 0 /\ id[i] \in 1..Len(r) /\ (i # 1 => id[i] < i)
         /\ \A i \in 2..Len(r) : \A a \in Blocks(gr) :
              StrictlyDominates(gr, a, r[i]) => Dominates(gr, a, r[id[i]])
<1>1. IsRpo(gr, r) /\ Tree(gr, r, id) /\ Full(r, id)
  BY DEF Final
<1>2. /\ IsGraph(gr) /\ Len(r) \in Nat \ {0} /\ r[1] = 1
      /\ \A i, j \in 1..Len(r) : r[i] = r[j] => i = j
      /\ \A b : b \in Reachable(gr) <=> \E i \in 1..Len(r) : b = r[i]
  BY <1>1 DEF IsRpo
<1>3. \A i \in 1..Len(r) : r[i] \in Reachable(gr)
  BY <1>2
<1>4. \A i \in 1..Len(r) : r[i] \in Blocks(gr)
  BY <1>2, <1>3, ReachableFacts
<1>5. DOMAIN id = 1..Len(r) /\ id[1] = 1
  BY <1>1 DEF Tree
<1>6. \A i \in 1..Len(r) : id[i] # 0
  BY <1>1 DEF Full
<1>7. \A i \in 1..Len(r) : id[i] \in 1..Len(r) /\ (i # 1 => id[i] < i)
  BY <1>1, <1>2, <1>6, UpFacts
<1>8. \A i \in 2..Len(r) : \A a \in Blocks(gr) :
        StrictlyDominates(gr, a, r[i]) => Dominates(gr, a, r[id[i]])
  <2>1. \A i \in 2..Len(r) : id[i] # 0
    BY <1>2, <1>6
  <2> QED
    BY <1>1, <2>1 DEF Tree
<1> QED
  BY <1>2, <1>3, <1>4, <1>5, <1>6, <1>7, <1>8

(* What is on the way up from a block dominates it.                        *)
LEMMA AboveDominates ==
  ASSUME NEW gr, NEW r, NEW id, Final(gr, r, id),
         NEW d \in 1..Len(r), NEW j \in 1..Len(r), Up(id, d, j)
  PROVE  Dominates(gr, r[d], r[j])
<1>1. /\ IsGraph(gr) /\ Len(r) \in Nat \ {0} /\ r[1] = 1
      /\ \A i \in 1..Len(r) : r[i] \in Reachable(gr) /\ id[i] # 0
      /\ \A b : b \in Reachable(gr) => \E i \in 1..Len(r) : b = r[i]
      /\ \A m, n \in 1..Len(r) : r[m] = r[n] => m = n
  BY FinalFacts
<1>2. Tree(gr, r, id) /\ \A i \in 2..Len(r) : Settled(gr, r, id, i)
  BY DEF Final
<1>3. \A i \in 1..Len(r) : \A a : Up(id, a, i) => a <= i /\ (a = i \/ Up(id, a, id[i]))
  BY <1>1, <1>2, UpFacts
<1> DEFINE S == {b \in Reachable(gr) : \E i \in 1..Len(r) : b = r[i] /\ ~Up(id, d, i)}
<1>4. ASSUME r[d] # 1 PROVE 1 \in S
  <2>1. 1 \in 1..Len(r) /\ d # 1
    BY <1>1, <1>4
  <2>2. ~Up(id, d, 1)
    BY <1>3, <2>1
  <2> QED
    BY <1>1, <2>1, <2>2
<1>5. ASSUME NEW a, NEW b, a \in S, Edge(gr, a, b), b # r[d] PROVE b \in S
  <2>1. PICK i \in 1..Len(r) : a = r[i] /\ ~Up(id, d, i)
    BY <1>5
  <2>2. b \in Reachable(gr)
    BY <1>1, <1>5, ReachableFacts
  <2>3. PICK m \in 1..Len(r) : b = r[m]
    BY <1>1, <2>2
  <2>4. ASSUME Up(id, d, m) PROVE FALSE
    <3>1. d # m /\ d <= m /\ Up(id, d, id[m])
      BY <1>3, <1>5, <2>3, <2>4
    <3>2. m \in 2..Len(r)
      BY <1>1, <3>1
    <3>3. Up(id, id[m], i)
      BY <1>2, <1>5, <2>1, <2>3, <3>2 DEF Settled
    <3>4. Up(id, d, i)
      BY <3>1, <3>3, UpTransitive
    <3> QED
      BY <2>1, <3>4
  <2> QED
    BY <2>2, <2>3, <2>4
<1>6. ReachAvoiding(gr, r[d]) \subseteq S
  <2> HIDE DEF S
  <2> QED
    BY <1>1, <1>4, <1>5, ReachLeast
<1>7. r[j] \notin S
  BY <1>1
<1> QED
  BY <1>1, <1>6, <1>7 DEF Dominates

(* The parent is the immediate dominator.                                  *)
LEMMA ParentIsIdom ==
  ASSUME NEW gr, NEW r, NEW id, Final(gr, r, id), NEW i \in 2..Len(r)
  PROVE  IsIdom(gr, r[id[i]], r[i])
<1>1. /\ Len(r) \in Nat \ {0}
      /\ \A m \in 1..Len(r) : id[m] # 0 /\ id[m] \in 1..Len(r) /\ (m # 1 => id[m] < m)
      /\ \A m, n \in 1..Len(r) : r[m] = r[n] => m = n
      /\ \A a \in Blocks(gr) : StrictlyDominates(gr, a, r[i]) => Dominates(gr, a, r[id[i]])
  BY FinalFacts
<1>2. i \in 1..Len(r) /\ i # 1
  BY <1>1
<1>3. Tree(gr, r, id)
  BY DEF Final
<1>4. Up(id, id[i], i)
  BY <1>1, <1>2, <1>3, UpFacts
<1>5. Dominates(gr, r[id[i]], r[i])
  BY <1>1, <1>2, <1>4, AboveDominates
<1>6. r[id[i]] # r[i]
  BY <1>1, <1>2
<1> QED
  BY <1>1, <1>5, <1>6 DEF IsIdom, StrictlyDominates

(* The blocks collected on the way up from a block are its strict          *)
(* dominators: what a search along parents finds.                          *)
LEMMA ChainFacts ==
  ASSUME NEW gr, NEW r, NEW id, Final(gr, r, id),
         NEW up, \A i \in 1..Len(r) :
                   up[i] = IF i = 1 THEN {} ELSE {r[id[i]]} \cup up[id[i]]
  PROVE  \A i \in 1..Len(r) : \A c : c \in up[i] <=> StrictlyDominates(gr, c, r[i])
<1>1. /\ IsGraph(gr) /\ Len(r) \in Nat \ {0} /\ r[1] = 1
      /\ \A i \in 1..Len(r) : r[i] \in Reachable(gr) /\ r[i] \in Blocks(gr)
      /\ \A m \in 1..Len(r) : id[m] # 0 /\ id[m] \in 1..Len(r) /\ (m # 1 => id[m] < m)
  BY FinalFacts
<1> DEFINE Bad == {i \in 1..Len(r) : \E c : ~(c \in up[i] <=> StrictlyDominates(gr, c, r[i]))}
<1>2. SUFFICES ASSUME Bad # {} PROVE FALSE
  OBVIOUS
<1>3. PICK i \in Bad : \A m \in Bad : i <= m
  <2>1. Bad \subseteq Nat
    BY <1>1
  <2> HIDE DEF Bad
  <2> QED
    BY <1>2, <2>1, LeastNatural
<1>4. PICK c : ~(c \in up[i] <=> StrictlyDominates(gr, c, r[i]))
  OBVIOUS
<1>5. i \in 1..Len(r)
  OBVIOUS
<1>6. i # 1
  <2>1. ASSUME i = 1 PROVE FALSE
    <3>1. up[i] = {} /\ r[i] = 1
      BY <1>1, <1>5, <2>1
    <3>2. StrictlyDominates(gr, c, 1)
      BY <1>4, <3>1
    <3> QED
      BY <1>1, <3>2, DominatorReachable
  <2> QED
    BY <2>1
<1>7. /\ i \in 2..Len(r) /\ id[i] \in 1..Len(r) /\ id[i] < i
      /\ up[i] = {r[id[i]]} \cup up[id[i]]
  <2>1. up[i] = IF i = 1 THEN {} ELSE {r[id[i]]} \cup up[id[i]]
    BY <1>5
  <2>2. up[i] = {r[id[i]]} \cup up[id[i]]
    BY <1>6, <2>1
  <2> QED
    BY <1>1, <1>5, <1>6, <2>2
<1>8. id[i] \notin Bad
  <2> HIDE DEF Bad
  <2> QED
    BY <1>1, <1>3, <1>7
<1>9. c \in up[id[i]] <=> StrictlyDominates(gr, c, r[id[i]])
  BY <1>7, <1>8
<1>10. c \in up[i] <=> Dominates(gr, c, r[id[i]])
  BY <1>7, <1>9 DEF StrictlyDominates, Dominates
<1> DEFINE p == r[id[i]]
<1>11. StrictlyDominates(gr, p, r[i]) /\ \A a \in Blocks(gr) :
         StrictlyDominates(gr, a, r[i]) => Dominates(gr, a, p)
  BY <1>7, ParentIsIdom DEF IsIdom
<1>12. p \in Reachable(gr)
  BY <1>1, <1>7
<1>13. ASSUME StrictlyDominates(gr, c, r[i]) PROVE Dominates(gr, c, p)
  <2>1. c \in Blocks(gr)
    BY <1>1, <1>13, DominatorReachable, ReachableFacts
  <2> QED
    BY <1>11, <1>13, <2>1
<1>14. ASSUME Dominates(gr, c, p) PROVE StrictlyDominates(gr, c, r[i])
  <2>1. Dominates(gr, p, r[i]) /\ p # r[i]
    BY <1>11 DEF StrictlyDominates
  <2>2. Dominates(gr, c, r[i])
    BY <1>1, <1>14, <2>1, DominanceTransitive
  <2>3. c # r[i]
    <3>1. SUFFICES ASSUME c = r[i] PROVE FALSE
      OBVIOUS
    <3>2. p = r[i]
      BY <1>1, <1>12, <1>14, <2>1, <3>1, DominanceAntisymmetric
    <3> QED
      BY <2>1, <3>2
  <2> QED
    BY <2>2, <2>3 DEF StrictlyDominates
<1> QED
  BY <1>4, <1>10, <1>13, <1>14

(* Such a collection exists: the way up always ends.                       *)
Collects(gr, r, id, up) ==
  up = [i \in 1..Len(r) |-> IF i = 1 THEN {} ELSE {r[id[i]]} \cup up[id[i]]]

(* The blocks strictly_dominates meets on the way up from a position,      *)
(* collected; the way up always ends.                                      *)
LEMMA CollectionExists ==
  ASSUME NEW gr, NEW r, NEW id, Final(gr, r, id)
  PROVE  \E up : Collects(gr, r, id, up)
<1> DEFINE D == 1..Len(r)
           T == SUBSET Blocks(gr)
           base == [i \in {1} |-> {}]
           step == [p \in D \X T |-> {r[id[p[1]]]} \cup p[2]]
<1>1. /\ Len(r) \in Nat \ {0} /\ \A i \in D : r[i] \in Blocks(gr)
      /\ \A i \in D : id[i] \in D /\ (i # 1 => id[i] < i)
  BY FinalFacts
<1>2. WellPosed(D, T, {1}, base, id, step)
  <2>1. \A i \in D : \A t \in T : step[<<i, t>>] = {r[id[i]]} \cup t
    OBVIOUS
  <2>2. \A i \in D : \A t \in T : {r[id[i]]} \cup t \in T
    BY <1>1
  <2>3. \A i \in D \cap {1} : base[i] \in T
    OBVIOUS
  <2>4. \A i \in D \ {1} : id[i] \in D /\ id[i] < i
    BY <1>1
  <2>5. D \subseteq Nat
    OBVIOUS
  <2> HIDE DEF D, T, base, step
  <2> QED
    BY <2>1, <2>2, <2>3, <2>4, <2>5 DEF WellPosed
<1>3. PICK up \in [D -> T] : \A i \in D : up[i] = Value(up, i, {1}, base, id, step)
  <2> HIDE DEF D, T, base, step
  <2> QED
    BY <1>2, RecursiveFunction
<1>4. \A i \in D : up[i] = IF i = 1 THEN {} ELSE {r[id[i]]} \cup up[id[i]]
  <2> SUFFICES ASSUME NEW i \in D
               PROVE  up[i] = IF i = 1 THEN {} ELSE {r[id[i]]} \cup up[id[i]]
    OBVIOUS
  <2>1. up[i] = IF i \in {1} THEN base[i] ELSE step[<<i, up[id[i]]>>]
    BY <1>3 DEF Value
  <2>2. id[i] \in D /\ up[id[i]] \in T
    BY <1>1, <1>3
  <2>3. step[<<i, up[id[i]]>>] = {r[id[i]]} \cup up[id[i]]
    BY <2>2
  <2>4. base[1] = {}
    OBVIOUS
  <2> HIDE DEF base, step
  <2> QED
    BY <2>1, <2>3, <2>4
<1>5. up = [i \in D |-> up[i]]
  BY <1>3
<1> QED
  BY <1>4, <1>5 DEF Collects

(* Above lists the strict dominators.                                      *)
LEMMA AboveFacts ==
  ASSUME CfgInv, Complete, Final(g, rpo, idom)
  PROVE  \A b, c : c \in Above(b) <=> StrictlyDominates(g, c, b)
<1> DEFINE up == CHOOSE up : Collects(g, rpo, idom, up)
<1>1. Collects(g, rpo, idom, up)
  BY CollectionExists
<1>2. \A b : Above(b) = IF RpoIdx(b) = 0 THEN {} ELSE up[RpoIdx(b)]
  BY DEF Above, Collects
<1> HIDE DEF up
<1>3. \A i \in 1..Len(rpo) :
        up[i] = IF i = 1 THEN {} ELSE {rpo[idom[i]]} \cup up[idom[i]]
  BY <1>1 DEF Collects
<1>4. \A i \in 1..Len(rpo) : \A c : c \in up[i] <=> StrictlyDominates(g, c, rpo[i])
  BY <1>3, ChainFacts
<1>5. /\ IsGraph(g) /\ reachable = Reachable(g)
      /\ \A b : b \in reachable => RpoIdx(b) \in 1..Len(rpo) /\ rpo[RpoIdx(b)] = b
      /\ \A b : b \notin reachable => RpoIdx(b) = 0
  BY RpoIdxFacts
<1> SUFFICES ASSUME NEW b, NEW c PROVE c \in Above(b) <=> StrictlyDominates(g, c, b)
  OBVIOUS
<1>6. CASE b \in reachable
  <2>1. RpoIdx(b) \in 1..Len(rpo) /\ RpoIdx(b) # 0 /\ rpo[RpoIdx(b)] = b
    BY <1>5, <1>6
  <2>2. Above(b) = up[RpoIdx(b)]
    BY <1>2, <2>1
  <2> QED
    BY <1>4, <2>1, <2>2
<1>7. CASE b \notin reachable
  <2>1. Above(b) = {}
    BY <1>2, <1>5, <1>7
  <2>2. ~StrictlyDominates(g, c, b)
    BY <1>5, <1>7, DominatorReachable
  <2> QED
    BY <2>1, <2>2
<1> QED
  BY <1>6, <1>7

(* After the rounds the tree is final.                                     *)
LEMMA TreeFinal ==
  ASSUME CfgInv, DomInv, phase \notin {"reach", "order"} \cup Rounds
  PROVE  Complete /\ Final(g, rpo, idom)
<1>1. Complete
  BY DEF CfgInv, CallsInv, Complete
<1>2. IsRpo(g, rpo)
  BY <1>1, RpoIdxFacts
<1> QED
  BY <1>1, <1>2 DEF DomInv, TreeInv, FinalInv, Final

(* What idom and strictly_dominates answer.                                *)
LEMMA TreeAnswers ==
  ASSUME CfgInv, DomInv, phase \notin {"reach", "order"} \cup Rounds
  PROVE  /\ \A b \in reachable : b # 1 => IsIdom(g, Idom(b), b)
         /\ \A b, c : c \in Above(b) <=> StrictlyDominates(g, c, b)
         /\ \A b : Idom(b) = 0 <=> ~(b \in reachable /\ b # 1)
<1>1. Complete /\ Final(g, rpo, idom)
  BY TreeFinal
<1>2. /\ IsGraph(g) /\ Len(rpo) \in Nat \ {0} /\ rpo[1] = 1
      /\ \A i, j \in 1..Len(rpo) : rpo[i] = rpo[j] => i = j
      /\ \A i \in 1..Len(rpo) : rpo[i] \in Blocks(g) /\ idom[i] \in 1..Len(rpo)
  BY <1>1, FinalFacts
<1>3. /\ \A i \in 1..Len(rpo) : RpoIdx(rpo[i]) = i
      /\ \A b : b \in reachable => RpoIdx(b) \in 1..Len(rpo) /\ rpo[RpoIdx(b)] = b
      /\ \A b : b \notin reachable => RpoIdx(b) = 0
      /\ 0 \notin Blocks(g)
  BY <1>1, RpoIdxFacts
<1>4. \A b \in reachable : b # 1 => RpoIdx(b) \in 2..Len(rpo) /\ Idom(b) = rpo[idom[RpoIdx(b)]]
  <2> SUFFICES ASSUME NEW b \in reachable, b # 1
               PROVE  RpoIdx(b) \in 2..Len(rpo) /\ Idom(b) = rpo[idom[RpoIdx(b)]]
    OBVIOUS
  <2>1. RpoIdx(b) \in 1..Len(rpo) /\ RpoIdx(b) # 1
    BY <1>2, <1>3
  <2> QED
    BY <1>2, <2>1 DEF Idom
<1>5. \A b \in reachable : b # 1 => IsIdom(g, Idom(b), b)
  BY <1>1, <1>3, <1>4, ParentIsIdom
<1>6. \A b, c : c \in Above(b) <=> StrictlyDominates(g, c, b)
  BY <1>1, AboveFacts
<1>7. ASSUME NEW b PROVE Idom(b) = 0 <=> ~(b \in reachable /\ b # 1)
  <2>1. CASE b \in reachable /\ b # 1
    <3>1. RpoIdx(b) \in 1..Len(rpo) /\ Idom(b) = rpo[idom[RpoIdx(b)]]
      BY <1>2, <1>4, <2>1
    <3> QED
      BY <1>2, <1>3, <2>1, <3>1
  <2>2. CASE b \notin reachable
    BY <1>3, <2>2 DEF Idom
  <2>3. CASE b = 1
    <3>1. RpoIdx(b) = 1
      BY <1>2, <1>3, <2>3
    <3> QED
      BY <2>3, <3>1 DEF Idom
  <2> QED
    BY <2>1, <2>2, <2>3
<1> QED
  BY <1>5, <1>6, <1>7

(* The result of DomTree::compute is the dominator tree.                   *)
THEOREM CorrectAlways == Spec => []Correct
<1>1. CfgInv /\ DomInv => Correct
  <2> SUFFICES ASSUME CfgInv, DomInv, phase = "tree", NEW b \in Blocks(g) \ {1}
               PROVE  /\ b \in reachable => IsIdom(g, Idom(b), b)
                      /\ \A a \in Blocks(g) : a \in Above(b) <=> StrictlyDominates(g, a, b)
    BY DEF Correct
  <2>1. phase \notin {"reach", "order"} \cup Rounds
    BY DEF Rounds
  <2> QED
    BY <2>1, TreeAnswers
<1> QED
  BY <1>1, DomInvariant, PTL

-----------------------------------------------------------------------------
(* A block entered from one block only is dominated by it.                 *)
LEMMA OnlyPredecessor ==
  ASSUME NEW gr, IsGraph(gr), NEW p, NEW y \in Reachable(gr), y # 1, p # y,
         \A q : Edge(gr, q, y) => q = p
  PROVE  Dominates(gr, p, y)
<1> DEFINE S == ReachAvoiding(gr, p) \ {y}
<1>1. p # 1 => 1 \in S
  BY ReachClosed
<1>2. ASSUME NEW a, NEW b, a \in S, Edge(gr, a, b), b # p PROVE b \in S
  <2>1. a \in ReachAvoiding(gr, p) /\ a # p
    BY <1>2, ReachClosed
  <2> QED
    BY <1>2, <2>1, ReachClosed
<1>3. ReachAvoiding(gr, p) \subseteq S
  <2> HIDE DEF S
  <2> QED
    BY <1>1, <1>2, ReachLeast
<1> QED
  BY <1>3 DEF Dominates

(* A block outside the subtree of a dominator of one of its predecessors   *)
(* has two predecessors at least, so the count test drops nothing.         *)
LEMMA FrontierIsJoin ==
  ASSUME NEW gr, NEW r, IsRpo(gr, r), NEW y \in Reachable(gr), y # 1,
         NEW p, Edge(gr, p, y), NEW b, Dominates(gr, b, p), ~StrictlyDominates(gr, b, y)
  PROVE  Len(Predecessors(gr, y)) >= 2
<1>1. PICK j \in 1..Len(r) : y = r[j] /\ j # 1
  BY DEF IsRpo
<1>2. /\ IsGraph(gr) /\ Len(r) \in Nat \ {0} /\ j \in 2..Len(r)
      /\ \A m, n \in 1..Len(r) : r[m] = r[n] => m = n
      /\ \A i \in 1..Len(r) : r[i] \in Reachable(gr)
  BY <1>1 DEF IsRpo
<1> DEFINE ps == Predecessors(gr, y)
<1>3. Sources(gr, r, j, ps)
  BY <1>1, <1>2, PredsFacts
<1> HIDE DEF ps
<1>4. /\ Len(ps) \in Nat /\ DOMAIN ps = 1..Len(ps)
      /\ \A n \in DOMAIN ps : Edge(gr, ps[n], y)
      /\ \A q : Edge(gr, q, y) => \E n \in DOMAIN ps : q = ps[n]
      /\ \E i \in 1..(j - 1) : \E n \in DOMAIN ps : r[i] = ps[n]
  BY <1>1, <1>3 DEF Sources
<1>5. SUFFICES ASSUME Len(ps) <= 1 PROVE FALSE
  BY <1>4 DEF ps
<1>6. \A m, n \in DOMAIN ps : m = n
  BY <1>4, <1>5
<1>7. \A q : Edge(gr, q, y) => q = p
  BY <1>4, <1>6
<1>8. PICK i \in 1..(j - 1), n \in DOMAIN ps : r[i] = ps[n]
  BY <1>4
<1>9. i \in 1..Len(r) /\ i # j
  BY <1>2
<1>10. p = r[i] /\ p # y /\ p \in Reachable(gr)
  BY <1>1, <1>2, <1>4, <1>7, <1>8, <1>9
<1>11. Dominates(gr, p, y)
  BY <1>2, <1>7, <1>10, OnlyPredecessor
<1>12. Dominates(gr, b, y)
  BY <1>2, <1>11, DominanceTransitive
<1>13. b = y
  BY <1>12 DEF StrictlyDominates
<1>14. p = y
  BY <1>2, <1>10, <1>11, <1>13, DominanceAntisymmetric
<1> QED
  BY <1>10, <1>14

(* Which blocks a runner visits: with d the immediate dominator of y, the  *)
(* runner stops at d, below which no dominator of y is left.               *)
LEMMA RunnerFacts ==
  ASSUME NEW gr, IsGraph(gr), NEW y \in Reachable(gr), NEW d, IsIdom(gr, d, y),
         NEW p, Edge(gr, p, y), NEW b \in Blocks(gr), Dominates(gr, b, p)
  PROVE  (Dominates(gr, d, p) => b # d /\ StrictlyDominates(gr, d, b))
           <=> ~StrictlyDominates(gr, b, y)
<1>1. /\ StrictlyDominates(gr, d, y) /\ d # y /\ Dominates(gr, d, y) /\ d \in Reachable(gr)
      /\ StrictlyDominates(gr, b, y) => Dominates(gr, b, d)
  BY DominatorReachable DEF IsIdom, StrictlyDominates
<1>2. CASE p \notin Reachable(gr)
  <2>1. b = p
    BY <1>2 DEF Dominates
  <2>2. ~Dominates(gr, d, p)
    BY <1>1, <1>2 DEF Dominates
  <2>3. ~StrictlyDominates(gr, b, y)
    BY <1>2, <2>1, DominatorReachable
  <2> QED
    BY <2>2, <2>3
<1>3. CASE p \in Reachable(gr)
  <2>1. Dominates(gr, d, p)
    BY <1>1, <1>3, DominatesPredecessor
  <2>2. ASSUME StrictlyDominates(gr, d, b), StrictlyDominates(gr, b, y) PROVE FALSE
    <3>1. Dominates(gr, b, d) /\ Dominates(gr, d, b) /\ d # b
      BY <1>1, <2>2 DEF StrictlyDominates
    <3> QED
      BY <1>1, <3>1, DominanceAntisymmetric
  <2>3. ASSUME ~StrictlyDominates(gr, b, y) PROVE StrictlyDominates(gr, d, b)
    <3>1. SUFFICES ASSUME Dominates(gr, b, d) PROVE FALSE
      <4>1. Dominates(gr, d, b) \/ Dominates(gr, b, d)
        BY <1>3, <2>1, DominatorsOrdered
      <4>2. Dominates(gr, d, b) /\ d = b => Dominates(gr, b, d)
        OBVIOUS
      <4> QED
        BY <4>1, <4>2 DEF StrictlyDominates
    <3>2. Dominates(gr, b, y)
      BY <1>1, <3>1, DominanceTransitive
    <3>3. b = y
      BY <2>3, <3>2 DEF StrictlyDominates
    <3> QED
      BY <1>1, <3>1, <3>3, DominanceAntisymmetric
  <2>4. StrictlyDominates(gr, d, b) => b # d
    BY DEF StrictlyDominates
  <2> QED
    BY <2>1, <2>2, <2>3, <2>4
<1> QED
  BY <1>2, <1>3

(* dominance_frontier returns the frontier of its documentation.           *)
THEOREM FrontierCorrectAlways == Spec => []FrontierCorrect
<1>1. CfgInv /\ DomInv => FrontierCorrect
  <2> SUFFICES ASSUME CfgInv, DomInv, phase = "tree", NEW b \in Blocks(g)
               PROVE  DominanceFrontier(b) =
                        {y \in reachable \ {1} :
                           /\ \E p \in ToSet(Predecessors(g, y)) : Dominates(g, b, p)
                           /\ ~StrictlyDominates(g, b, y)}
    BY DEF FrontierCorrect
  <2>1. phase \notin {"reach", "order"} \cup Rounds
    BY DEF Rounds
  <2>2. /\ \A y \in reachable : y # 1 => IsIdom(g, Idom(y), y)
        /\ \A y, c : c \in Above(y) <=> StrictlyDominates(g, c, y)
        /\ \A y : Idom(y) = 0 <=> ~(y \in reachable /\ y # 1)
    BY <2>1, TreeAnswers
  <2>3. /\ IsGraph(g) /\ IsRpo(g, rpo) /\ reachable = Reachable(g) /\ reachable \subseteq Blocks(g)
    BY <2>1, TreeFinal, RpoIdxFacts
  <2>4. \A y, p : p \in ToSet(Predecessors(g, y)) <=> Edge(g, p, y)
    BY <2>3, PredecessorsFacts
  <2>5. \A p, c : c \in {p} \cup Above(p) <=> Dominates(g, c, p)
    <3> SUFFICES ASSUME NEW p, NEW c PROVE c \in {p} \cup Above(p) <=> Dominates(g, c, p)
      OBVIOUS
    <3>1. c \in Above(p) <=> StrictlyDominates(g, c, p)
      BY <2>2
    <3> QED
      BY <3>1 DEF StrictlyDominates, Dominates
  <2>6. \A y, p : b \in Runners(p, y) <=>
          /\ Dominates(g, b, p)
          /\ Dominates(g, Idom(y), p) => b # Idom(y) /\ StrictlyDominates(g, Idom(y), b)
    BY <2>2, <2>5 DEF Runners
  <2>7. ASSUME NEW y \in reachable \ {1}, NEW p, Edge(g, p, y)
        PROVE  b \in Runners(p, y) <=> Dominates(g, b, p) /\ ~StrictlyDominates(g, b, y)
    <3>1. IsIdom(g, Idom(y), y) /\ y \in Reachable(g)
      BY <2>2, <2>3
    <3>2. Dominates(g, b, p) =>
            ((Dominates(g, Idom(y), p) => b # Idom(y) /\ StrictlyDominates(g, Idom(y), b))
               <=> ~StrictlyDominates(g, b, y))
      BY <2>3, <2>7, <3>1, RunnerFacts
    <3> QED
      BY <2>6, <3>2
  <2>8. ASSUME NEW y \in reachable \ {1}, NEW p, Edge(g, p, y),
               Dominates(g, b, p), ~StrictlyDominates(g, b, y)
        PROVE  Len(Predecessors(g, y)) >= 2
    <3>1. y \in Reachable(g) /\ y # 1
      BY <2>3
    <3> QED
      BY <2>3, <2>8, <3>1, FrontierIsJoin
  <2>9. \A y : y \in DominanceFrontier(b) <=>
          /\ y \in reachable \ {1}
          /\ \E p \in ToSet(Predecessors(g, y)) : Dominates(g, b, p)
          /\ ~StrictlyDominates(g, b, y)
    <3> SUFFICES ASSUME NEW y
                 PROVE  y \in DominanceFrontier(b) <=>
                          /\ y \in reachable \ {1}
                          /\ \E p \in ToSet(Predecessors(g, y)) : Dominates(g, b, p)
                          /\ ~StrictlyDominates(g, b, y)
      OBVIOUS
    <3>1. y \in DominanceFrontier(b) <=>
            /\ y \in reachable \ {1} /\ Len(Predecessors(g, y)) >= 2
            /\ \E p \in ToSet(Predecessors(g, y)) : b \in Runners(p, y)
      BY <2>2, <2>3 DEF DominanceFrontier
    <3> QED
      BY <2>4, <2>7, <2>8, <3>1
  <2> QED
    BY <2>9
<1> QED
  BY <1>1, DomInvariant, PTL

-----------------------------------------------------------------------------
(* The loops.                                                              *)

Early == {"reach", "order", "tree", "search"} \cup Rounds

(* What the search for back edges has still to look at is reachable; it    *)
(* records edges from reachable blocks to blocks that dominate them.       *)
IsBackEdge(e) ==
  /\ e[1] \in Reachable(g) /\ e[2] \in Blocks(g)
  /\ Edge(g, e[1], e[2]) /\ Dominates(g, e[2], e[1])

SearchInv ==
  /\ stack \in Seq(Blocks(g)) /\ ToSet(stack) \subseteq Reachable(g)
  /\ backEdges \in Seq(Blocks(g) \X Blocks(g))
  /\ \A e \in ToSet(backEdges) : IsBackEdge(e)

(* Every source of an edge to a block of D, other than h, is in S.         *)
Backward(h, D, S) == \A a, c : Edge(g, a, c) /\ c \in D /\ c # h => a \in S

(* bd has been collected backwards from the tail t of a back edge to h.    *)
Collected(t, h, bd) ==
  \A S \in SUBSET Blocks(g) :
    h \in S /\ t \in S /\ Backward(h, S \cap bd, S) => bd \subseteq S

Natural(h, bd) ==
  /\ bd \subseteq Blocks(g) /\ h \in bd
  /\ \A b \in bd \cap Reachable(g) : Dominates(g, h, b)
  /\ \E t \in bd \cap Reachable(g) : Edge(g, t, h) /\ Collected(t, h, bd)

(* The body being collected, whose header is not in the queue.             *)
CollectInv ==
  phase = "collect" =>
    /\ Len(loops) < Len(backEdges)
    /\ Natural(backEdges[Len(loops) + 1][2], body)
    /\ queue \in Seq(Blocks(g))
    /\ \A q \in ToSet(queue) : q \in body /\ q # backEdges[Len(loops) + 1][2]
    /\ Backward(backEdges[Len(loops) + 1][2], body \ ToSet(queue), body)

LoopsInv ==
  /\ phase \in Early => loops = <<>>
  /\ loops \in Seq([header : Blocks(g), body : SUBSET Blocks(g), parent : Nat])
  /\ \A i \in DOMAIN loops : /\ Natural(loops[i].header, loops[i].body)
                            /\ Backward(loops[i].header, loops[i].body, loops[i].body)

LoopInv == SearchInv /\ CollectInv /\ LoopsInv

-----------------------------------------------------------------------------
LoopQuiet ==
  /\ UNCHANGED <<g, stack, backEdges, loops, body, queue>>
  /\ phase' = "collect" => phase = "collect"
  /\ phase' \in Early => phase \in Early

(* The steps that are not about loops leave what was found alone.          *)
LEMMA StepsOfLoops ==
  ASSUME [Next]_vars
  PROVE  Search \/ StartCollect \/ Collect \/ EndLoop \/ Nest \/ LoopQuiet
<1> USE DEF LoopQuiet, Early, Rounds, cfgVars, domVars, domAll, loopVars, fixed, vars
<1>1. CASE DomNext /\ UNCHANGED loopVars
  <2>1. CASE CfgNext
    BY <1>1, <2>1 DEF CfgNext, Sweep, StartOrder, Descend, Return
  <2>2. CASE StartDom
    BY <1>1, <2>2 DEF StartDom, Ordered
  <2>3. CASE Block
    BY <1>1, <2>3 DEF Block
  <2>4. CASE Pred
    BY <1>1, <2>4 DEF Pred
  <2>5. CASE Walk
    BY <1>1, <2>5 DEF Walk
  <2>6. CASE Meet
    BY <1>1, <2>6 DEF Meet
  <2>7. CASE Commit
    BY <1>1, <2>7 DEF Commit
  <2>8. CASE EndRound
    BY <1>1, <2>8 DEF EndRound
  <2> QED
    BY <1>1, <2>1, <2>2, <2>3, <2>4, <2>5, <2>6, <2>7, <2>8 DEF DomNext
<1>2. CASE StartSearch
  BY <1>2 DEF StartSearch
<1>3. CASE \E b \in Blocks(g) : Query(b)
  BY <1>3 DEF Query
<1>4. CASE Climb
  BY <1>4 DEF Climb
<1>5. CASE UNCHANGED vars
  BY <1>5
<1> QED
  BY <1>1, <1>2, <1>3, <1>4, <1>5 DEF Next, Done

(* Queries and the earlier analyses leave the loops as they are.           *)
LEMMA LoopQuietStep ==
  ASSUME LoopInv, LoopQuiet
  PROVE  LoopInv'
<1>1. UNCHANGED <<g, stack, backEdges, loops, body, queue>>
  BY DEF LoopQuiet
<1>2. SearchInv'
  BY <1>1 DEF LoopInv, SearchInv, IsBackEdge
<1>3. CollectInv'
  BY <1>1 DEF LoopInv, LoopQuiet, CollectInv, Natural, Collected, Backward
<1>4. LoopsInv'
  BY <1>1 DEF LoopInv, LoopQuiet, LoopsInv, Natural, Collected, Backward
<1> QED
  BY <1>2, <1>3, <1>4 DEF LoopInv

(* Search: dominates answers for the paths, so the recorded edges are back *)
(* edges; what is pushed is a target of a reachable block.                 *)
LEMMA SearchStep ==
  ASSUME CfgInv, DomInv, LoopInv, Search
  PROVE  LoopInv'
<1> DEFINE b == Last(stack)
           succs == Successors(g, b)
           heads == {h \in ToSet(succs) : TreeDominates(h, b)}
           back == Kept(succs, heads)
           edges == [i \in 1..Len(back) |-> <<b, back[i]>>]
           on == Kept(succs, Blocks(g) \ heads)
<1>1. /\ phase = "search" /\ phase' = phase /\ g' = g /\ stack # <<>>
      /\ UNCHANGED <<loops, body, queue>>
  BY DEF Search, fixed
<1>2. phase \notin {"reach", "order"} \cup Rounds
  BY <1>1 DEF Rounds
<1>3. \A h : TreeDominates(h, b) <=> Dominates(g, h, b)
  <2>1. \A h : h \in Above(b) <=> StrictlyDominates(g, h, b)
    BY <1>2, TreeAnswers
  <2> QED
    BY <2>1 DEF TreeDominates, StrictlyDominates, Dominates
<1>4. IsGraph(g)
  BY DEF CfgInv, CfgTypeOK
<1>5. /\ stack \in Seq(Blocks(g)) /\ ToSet(stack) \subseteq Reachable(g)
      /\ backEdges \in Seq(Blocks(g) \X Blocks(g))
      /\ \A e \in ToSet(backEdges) : IsBackEdge(e)
  BY DEF LoopInv, SearchInv
<1>6. /\ b \in Blocks(g) /\ b \in Reachable(g)
      /\ Front(stack) \in Seq(Blocks(g)) /\ ToSet(Front(stack)) \subseteq Reachable(g)
  BY <1>1, <1>5, FrontLast
<1>7. /\ succs \in Seq(Blocks(g))
      /\ \A t \in ToSet(succs) : t \in Blocks(g) /\ t \in Reachable(g) /\ Edge(g, b, t)
  <2>1. succs \in Seq(Blocks(g)) /\ ToSet(succs) \subseteq Blocks(g)
    BY <1>4, <1>6, GraphFacts DEF Successors
  <2>2. \A t \in ToSet(succs) : Edge(g, b, t)
    BY <1>6 DEF Edge, Successors
  <2> QED
    BY <1>4, <1>6, <2>1, <2>2, ReachableFacts
<1> HIDE DEF b, succs
<1>8. back \in Seq(Blocks(g)) /\ \A h : h \in ToSet(back) <=> h \in ToSet(succs) /\ h \in heads
  <2> HIDE DEF heads
  <2> QED
    BY <1>7, KeptElements
<1>9. on \in Seq(Blocks(g)) /\ ToSet(on) \subseteq ToSet(succs)
  <2> HIDE DEF heads
  <2> QED
    BY <1>7, KeptElements
<1> HIDE DEF on
<1>10. edges \in Seq(Blocks(g) \X Blocks(g)) /\ \A e \in ToSet(edges) : IsBackEdge(e)
  <2>1. \A h \in ToSet(back) : IsBackEdge(<<b, h>>)
    BY <1>3, <1>6, <1>7, <1>8 DEF IsBackEdge
  <2> HIDE DEF back, heads
  <2>2. Len(back) \in Nat /\ \A i \in 1..Len(back) : back[i] \in ToSet(back) /\ back[i] \in Blocks(g)
    BY <1>8 DEF ToSet
  <2>3. edges \in Seq(Blocks(g) \X Blocks(g))
    BY <1>6, <2>2
  <2>4. \A e \in ToSet(edges) : \E i \in 1..Len(back) : e = <<b, back[i]>>
    BY DEF ToSet
  <2> QED
    BY <2>1, <2>2, <2>3, <2>4
<1>11. SearchInv'
  <2>1. CASE b \in seen
    <3>1. stack' = Front(stack) /\ backEdges' = backEdges
      BY <2>1 DEF Search, b
    <3> QED
      BY <1>1, <1>5, <1>6, <3>1 DEF SearchInv, IsBackEdge
  <2>2. CASE b \notin seen
    <3>1. backEdges' = backEdges \o edges /\ stack' = Front(stack) \o on
      BY <2>2 DEF Search, b, succs, on
    <3> HIDE DEF edges
    <3>2. /\ backEdges' \in Seq(Blocks(g) \X Blocks(g))
          /\ \A e \in ToSet(backEdges') : IsBackEdge(e)
      <4>1. /\ backEdges' \in Seq(Blocks(g) \X Blocks(g))
            /\ ToSet(backEdges') = ToSet(backEdges) \cup ToSet(edges)
        BY <1>5, <1>10, <3>1, ConcatElements
      <4> QED
        BY <1>5, <1>10, <4>1
    <3>3. stack' \in Seq(Blocks(g)) /\ ToSet(stack') \subseteq Reachable(g)
      <4>1. stack' \in Seq(Blocks(g)) /\ ToSet(stack') = ToSet(Front(stack)) \cup ToSet(on)
        BY <1>6, <1>9, <3>1, ConcatElements
      <4> QED
        BY <1>6, <1>7, <1>9, <4>1
    <3> QED
      BY <1>1, <3>2, <3>3 DEF SearchInv, IsBackEdge
  <2> QED
    BY <2>1, <2>2
<1>12. CollectInv' /\ LoopsInv'
  BY <1>1 DEF LoopInv, CollectInv, LoopsInv, Natural, Collected, Backward
<1> QED
  BY <1>11, <1>12 DEF LoopInv

(* A body starts as header and tail; a self-loop has nothing to collect.   *)
LEMMA StartOfBody ==
  ASSUME CfgInv, LoopInv, NEW n \in DOMAIN backEdges,
         NEW bd, bd = StartBody(backEdges[n]),
         NEW q, q = IF backEdges[n][1] = backEdges[n][2] THEN <<>> ELSE <<backEdges[n][1]>>
  PROVE  /\ Natural(backEdges[n][2], bd)
         /\ q \in Seq(Blocks(g)) /\ \A x \in ToSet(q) : x \in bd /\ x # backEdges[n][2]
         /\ Backward(backEdges[n][2], bd \ ToSet(q), bd)
<1> DEFINE e == backEdges[n]
<1>1. IsBackEdge(e) /\ IsGraph(g)
  BY DEF LoopInv, SearchInv, ToSet, CfgInv, CfgTypeOK
<1>2. /\ e[1] \in Reachable(g) /\ e[1] \in Blocks(g) /\ e[2] \in Blocks(g)
      /\ Edge(g, e[1], e[2]) /\ Dominates(g, e[2], e[1]) /\ Dominates(g, e[2], e[2])
  BY <1>1, ReachableFacts DEF IsBackEdge, Dominates
<1>3. bd = {e[1], e[2]}
  BY DEF StartBody
<1>4. Natural(e[2], bd)
  <2>1. Collected(e[1], e[2], bd)
    BY <1>3 DEF Collected
  <2> QED
    BY <1>2, <1>3, <2>1 DEF Natural
<1>5. /\ q \in Seq(Blocks(g)) /\ \A x \in ToSet(q) : x \in bd /\ x # e[2]
      /\ \A x \in bd \ ToSet(q) : x = e[2]
  <2>1. CASE e[1] = e[2]
    BY <1>3, <2>1 DEF ToSet
  <2>2. CASE e[1] # e[2]
    <3>1. q = <<e[1]>>
      BY <2>2
    <3> HIDE DEF e
    <3>2. ToSet(q) = {e[1]} /\ q \in Seq(Blocks(g))
      BY <1>2, <3>1, OneElement
    <3> QED
      BY <1>3, <2>2, <3>2
  <2> QED
    BY <2>1, <2>2
<1> QED
  BY <1>4, <1>5 DEF Backward

(* StartCollect: the body of the first back edge starts with its header    *)
(* and its tail.                                                           *)
LEMMA StartCollectStep ==
  ASSUME CfgInv, LoopInv, StartCollect
  PROVE  LoopInv'
<1>1. /\ phase = "search" /\ UNCHANGED <<g, stack, backEdges, loops>> /\ loops = <<>>
      /\ phase' = IF backEdges = <<>> THEN "query" ELSE "collect"
      /\ backEdges \in Seq(Blocks(g) \X Blocks(g))
  BY DEF StartCollect, fixed, LoopInv, LoopsInv, Early, SearchInv
<1>2. SearchInv' /\ LoopsInv'
  BY <1>1 DEF LoopInv, SearchInv, IsBackEdge, LoopsInv, Natural, Collected, Backward, Early, Rounds
<1>3. CollectInv'
  <2> SUFFICES ASSUME phase' = "collect" PROVE CollectInv'
    BY DEF CollectInv
  <2>1. /\ backEdges # <<>> /\ 1 \in DOMAIN backEdges /\ Head(backEdges) = backEdges[1]
        /\ Len(loops) + 1 = 1 /\ Len(loops) < Len(backEdges)
    BY <1>1
  <2>2. /\ body' = StartBody(backEdges[1])
        /\ queue' = IF backEdges[1][1] = backEdges[1][2] THEN <<>> ELSE <<backEdges[1][1]>>
    BY <2>1 DEF StartCollect
  <2>3. /\ Natural(backEdges[1][2], body')
        /\ queue' \in Seq(Blocks(g)) /\ \A x \in ToSet(queue') : x \in body' /\ x # backEdges[1][2]
        /\ Backward(backEdges[1][2], body' \ ToSet(queue'), body')
    BY <2>1, <2>2, StartOfBody
  <2> QED
    BY <1>1, <2>1, <2>3 DEF CollectInv, Natural, Collected, Backward
<1> QED
  BY <1>2, <1>3 DEF LoopInv

(* Collect: what dominates a block strictly dominates its predecessors,    *)
(* and the header, in the body from the start, is not passed.              *)
LEMMA CollectStep ==
  ASSUME CfgInv, LoopInv, Collect
  PROVE  LoopInv'
<1> DEFINE q == Head(queue)
           new == ToSet(Predecessors(g, q)) \ body
           ids == [b \in 1..Len(g) |-> b]
           h == backEdges[Len(loops) + 1][2]
<1>1. /\ phase = "collect" /\ phase' = phase /\ queue # <<>>
      /\ UNCHANGED <<g, stack, backEdges, loops>>
      /\ body' = body \cup new /\ queue' = Tail(queue) \o Kept(ids, new)
  BY DEF Collect, fixed
<1>2. /\ Len(loops) < Len(backEdges) /\ Natural(h, body)
      /\ queue \in Seq(Blocks(g)) /\ \A x \in ToSet(queue) : x \in body /\ x # h
      /\ Backward(h, body \ ToSet(queue), body)
  BY <1>1 DEF LoopInv, CollectInv
<1>3. IsGraph(g)
  BY DEF CfgInv, CfgTypeOK
<1>4. Len(g) \in Nat /\ Blocks(g) = 1..Len(g)
  BY <1>3, GraphFacts
<1>5. /\ q \in ToSet(queue) /\ Tail(queue) \in Seq(Blocks(g))
      /\ ToSet(Tail(queue)) \subseteq ToSet(queue)
      /\ \A x \in ToSet(queue) : x = q \/ x \in ToSet(Tail(queue))
  <2>1. /\ 1 \in DOMAIN queue /\ q = queue[1] /\ Tail(queue) \in Seq(Blocks(g))
        /\ DOMAIN Tail(queue) = 1..(Len(queue) - 1)
        /\ \A i \in 1..(Len(queue) - 1) : Tail(queue)[i] = queue[i + 1] /\ i + 1 \in DOMAIN queue
        /\ \A i \in DOMAIN queue : i = 1 \/ (i - 1 \in 1..(Len(queue) - 1) /\ queue[i] = Tail(queue)[i - 1])
    BY <1>1, <1>2
  <2> HIDE DEF q
  <2>2. q \in ToSet(queue) /\ ToSet(Tail(queue)) \subseteq ToSet(queue)
    BY <2>1 DEF ToSet
  <2>3. ASSUME NEW i \in DOMAIN queue PROVE queue[i] = q \/ queue[i] \in ToSet(Tail(queue))
    BY <2>1 DEF ToSet
  <2>4. \A x \in ToSet(queue) : x = q \/ x \in ToSet(Tail(queue))
    BY <2>3 DEF ToSet
  <2> QED
    BY <2>1, <2>2, <2>4
<1> HIDE DEF q, h
<1>6. \A p : p \in new <=> Edge(g, p, q) /\ p \notin body
  BY <1>3, PredecessorsFacts
<1> HIDE DEF new
<1>7. /\ h \in body /\ body \subseteq Blocks(g)
      /\ \A b \in body \cap Reachable(g) : Dominates(g, h, b)
      /\ \E t \in body \cap Reachable(g) : Edge(g, t, h) /\ Collected(t, h, body)
  BY <1>2 DEF Natural
<1>8. new \subseteq Blocks(g)
  BY <1>6 DEF Edge
<1>9. ASSUME NEW p \in new, p \in Reachable(g) PROVE Dominates(g, h, p)
  <2>1. Edge(g, p, q)
    BY <1>6
  <2>2. q \in Reachable(g)
    BY <1>3, <1>9, <2>1, ReachableFacts
  <2>3. StrictlyDominates(g, h, q)
    BY <1>2, <1>5, <1>7, <2>2 DEF StrictlyDominates
  <2> QED
    BY <1>3, <1>9, <2>1, <2>3, DominatesPredecessor
<1>10. Natural(h, body')
  <2>1. ASSUME NEW t, Collected(t, h, body) PROVE Collected(t, h, body')
    <3> SUFFICES ASSUME NEW S \in SUBSET Blocks(g), h \in S, t \in S,
                        Backward(h, S \cap body', S)
                 PROVE  body' \subseteq S
      BY DEF Collected
    <3>1. Backward(h, S \cap body, S)
      BY <1>1 DEF Backward
    <3>2. body \subseteq S
      BY <2>1, <3>1 DEF Collected
    <3>3. q \in S \cap body' /\ q # h
      BY <1>1, <1>2, <1>5, <3>2
    <3>4. new \subseteq S
      BY <1>6, <3>3 DEF Backward
    <3> QED
      BY <1>1, <3>2, <3>4
  <2> QED
    BY <1>1, <1>7, <1>8, <1>9, <2>1 DEF Natural
<1>11. /\ queue' \in Seq(Blocks(g)) /\ \A x \in ToSet(queue') : x \in body' /\ x # h
       /\ \A x : x \in new \/ x \in ToSet(Tail(queue)) => x \in ToSet(queue')
  <2>1. ids \in Seq(Blocks(g))
    BY <1>4
  <2> HIDE DEF ids
  <2>2. Kept(ids, new) \in Seq(Blocks(g)) /\ \A x : x \in ToSet(Kept(ids, new)) <=> x \in new
    <3>1. \A x : x \in ToSet(Kept(ids, new)) <=> x \in ToSet(ids) /\ x \in new
      BY <2>1, KeptElements
    <3>2. \A x \in Blocks(g) : x \in ToSet(ids)
      BY <1>4 DEF ids, ToSet
    <3> QED
      BY <1>8, <2>1, <3>1, <3>2, KeptElements
  <2>3. /\ queue' \in Seq(Blocks(g))
        /\ ToSet(queue') = ToSet(Tail(queue)) \cup ToSet(Kept(ids, new))
    BY <1>1, <1>5, <2>2, ConcatElements
  <2>4. \A x \in new : x # h /\ x \in body'
    BY <1>1, <1>6, <1>7
  <2>5. \A x \in ToSet(Tail(queue)) : x # h /\ x \in body'
    BY <1>1, <1>2, <1>5
  <2> QED
    BY <2>2, <2>3, <2>4, <2>5
<1>12. Backward(h, body' \ ToSet(queue'), body')
  <2> SUFFICES ASSUME NEW a, NEW c, Edge(g, a, c), c \in body', c \notin ToSet(queue'), c # h
               PROVE  a \in body'
    BY DEF Backward
  <2>1. c \in body /\ c \notin ToSet(Tail(queue))
    BY <1>1, <1>11
  <2>2. CASE c = q
    BY <1>1, <1>6, <2>2
  <2>3. CASE c # q
    BY <1>1, <1>2, <1>5, <2>1, <2>3 DEF Backward
  <2> QED
    BY <2>2, <2>3
<1>13. CollectInv'
  BY <1>1, <1>2, <1>10, <1>11, <1>12 DEF CollectInv, Natural, Collected, Backward, h
<1>14. SearchInv' /\ LoopsInv'
  BY <1>1 DEF LoopInv, SearchInv, IsBackEdge, LoopsInv, Natural, Collected, Backward, Early, Rounds
<1> QED
  BY <1>13, <1>14 DEF LoopInv

(* EndLoop: what was collected is recorded, and the body of the next back  *)
(* edge starts with its header and its tail.                               *)
LEMMA EndLoopStep ==
  ASSUME CfgInv, LoopInv, EndLoop
  PROVE  LoopInv'
<1> DEFINE n == Len(loops) + 1
           lp == [header |-> backEdges[n][2], body |-> body, parent |-> 0]
           Record == [header : Blocks(g), body : SUBSET Blocks(g), parent : Nat]
<1>1. /\ phase = "collect" /\ UNCHANGED <<g, stack, backEdges>> /\ loops' = Append(loops, lp)
      /\ phase' \in {"collect", "nest"}
      /\ phase' = "collect" => n # Len(backEdges)
      /\ phase' = "collect" =>
           /\ body' = StartBody(backEdges[n + 1])
           /\ queue' = IF backEdges[n + 1][1] = backEdges[n + 1][2] THEN <<>>
                       ELSE <<backEdges[n + 1][1]>>
  BY DEF EndLoop, fixed
<1>2. /\ Len(loops) < Len(backEdges) /\ Natural(backEdges[n][2], body)
      /\ backEdges \in Seq(Blocks(g) \X Blocks(g)) /\ loops \in Seq(Record)
      /\ \A i \in DOMAIN loops : /\ Natural(loops[i].header, loops[i].body)
                                /\ Backward(loops[i].header, loops[i].body, loops[i].body)
      /\ Backward(backEdges[n][2], body, body)
  <2>1. phase = "collect" /\ queue = <<>>
    BY DEF EndLoop
  <2>2. body \ ToSet(queue) = body
    BY <2>1 DEF ToSet
  <2> QED
    BY <2>1, <2>2 DEF LoopInv, CollectInv, SearchInv, LoopsInv
<1>3. n \in DOMAIN backEdges /\ n \in Nat /\ backEdges[n] \in Blocks(g) \X Blocks(g)
  BY <1>2
<1>4. lp \in Record /\ lp.header = backEdges[n][2] /\ lp.body = body
  <2>1. backEdges[n][2] \in Blocks(g) /\ body \subseteq Blocks(g)
    BY <1>2, <1>3 DEF Natural
  <2> HIDE DEF n
  <2> QED
    BY <2>1
<1> HIDE DEF lp, Record
<1>5. /\ loops' \in Seq(Record) /\ DOMAIN loops' = 1..n /\ Len(loops') = n
      /\ \A i \in DOMAIN loops : loops'[i] = loops[i]
      /\ loops'[n] = lp /\ \A i \in 1..n : i \in DOMAIN loops \/ i = n
  <2>1. DOMAIN loops = 1..Len(loops) /\ Len(loops) \in Nat
    BY <1>2
  <2> QED
    BY <1>1, <1>2, <1>4, <2>1, AppendFacts
<1>6. LoopsInv'
  <2>1. \A i \in 1..n : /\ Natural(loops'[i].header, loops'[i].body)
                        /\ Backward(loops'[i].header, loops'[i].body, loops'[i].body)
    BY <1>2, <1>4, <1>5
  <2> HIDE DEF n
  <2> QED
    BY <1>1, <1>5, <2>1 DEF LoopsInv, Natural, Collected, Backward, Early, Rounds, Record
<1>7. SearchInv'
  BY <1>1 DEF LoopInv, SearchInv, IsBackEdge
<1>8. CollectInv'
  <2> SUFFICES ASSUME phase' = "collect" PROVE CollectInv'
    BY DEF CollectInv
  <2>1. n + 1 \in DOMAIN backEdges /\ Len(loops') < Len(backEdges) /\ Len(loops') + 1 = n + 1
    BY <1>1, <1>2, <1>3, <1>5
  <2>2. /\ body' = StartBody(backEdges[n + 1])
        /\ queue' = IF backEdges[n + 1][1] = backEdges[n + 1][2] THEN <<>>
                    ELSE <<backEdges[n + 1][1]>>
    BY <1>1
  <2> HIDE DEF n
  <2>3. /\ Natural(backEdges[n + 1][2], body')
        /\ queue' \in Seq(Blocks(g))
        /\ \A x \in ToSet(queue') : x \in body' /\ x # backEdges[n + 1][2]
        /\ Backward(backEdges[n + 1][2], body' \ ToSet(queue'), body')
    BY <2>1, <2>2, StartOfBody
  <2> QED
    BY <1>1, <2>1, <2>3 DEF CollectInv, Natural, Collected, Backward
<1> QED
  BY <1>6, <1>7, <1>8 DEF LoopInv

(* j is one of the smallest of the loops X.                                *)
Smallest(ls, X, j) ==
  j \in X /\ \A m \in X : Cardinality(ls[j].body) <= Cardinality(ls[m].body)

(* Of some loops there are smallest ones, and a first one of these.        *)
LEMMA SmallestExists ==
  ASSUME NEW B, IsFiniteSet(B), NEW ls, Len(ls) \in Nat,
         \A j \in 1..Len(ls) : ls[j].body \subseteq B,
         NEW X, X \subseteq 1..Len(ls), X # {},
         NEW least, \A j : j \in least <=> Smallest(ls, X, j)
  PROVE  Smallest(ls, X, Min(least))
<1> DEFINE size(j) == Cardinality(ls[j].body)
           sizes == {size(j) : j \in X}
<1>1. \A j \in X : size(j) \in Nat
  BY FS_Subset, FS_CardinalityType
<1>2. PICK m \in sizes : \A n \in sizes : m <= n
  <2>1. sizes \subseteq Nat /\ sizes # {}
    BY <1>1
  <2> HIDE DEF sizes
  <2> QED
    BY <2>1, LeastNatural
<1>3. least # {} /\ least \subseteq Nat
  <2>1. PICK j \in X : m = size(j)
    BY <1>2
  <2>2. \A n \in X : size(j) <= size(n)
    BY <1>2, <2>1
  <2>3. Smallest(ls, X, j)
    BY <2>2 DEF Smallest
  <2>4. \A i \in least : i \in X
    BY DEF Smallest
  <2>5. X \subseteq Nat
    OBVIOUS
  <2> QED
    BY <2>3, <2>4, <2>5
<1>4. \E x \in least : \A y \in least : x <= y
  BY <1>3, LeastNatural
<1>5. Min(least) \in least
  BY <1>4 DEF Min
<1> QED
  BY <1>5

(* A parent is the first of the smallest loops around, or 0.               *)
LEMMA ParentFacts ==
  ASSUME NEW B, IsFiniteSet(B), NEW ls, Len(ls) \in Nat,
         \A j \in 1..Len(ls) : ls[j].body \subseteq B,
         NEW i, NEW X, X = {j \in 1..Len(ls) : j # i /\ ls[i].header \in ls[j].body}
  PROVE  /\ X = {} => Parent(ls, i) = 0
         /\ X # {} => Smallest(ls, X, Parent(ls, i))
<1> DEFINE least == {j \in X : \A m \in X : Cardinality(ls[j].body) <= Cardinality(ls[m].body)}
<1>1. CASE X = {}
  BY <1>1 DEF Parent
<1>2. CASE X # {}
  <2>1. Parent(ls, i) = Min(least)
    BY <1>2 DEF Parent
  <2>2. X \subseteq 1..Len(ls) /\ \A j : j \in least <=> Smallest(ls, X, j)
    BY DEF Smallest
  <2> HIDE DEF least
  <2>3. Smallest(ls, X, Min(least))
    BY <1>2, <2>2, SmallestExists
  <2> QED
    BY <1>2, <2>1, <2>3
<1> QED
  BY <1>1, <1>2

(* The parent depends on headers and bodies only.                          *)
LEMMA ParentSame ==
  ASSUME NEW ls, NEW ms, Len(ms) = Len(ls), NEW i \in 1..Len(ls),
         \A j \in 1..Len(ls) : ms[j].header = ls[j].header /\ ms[j].body = ls[j].body
  PROVE  Parent(ms, i) = Parent(ls, i)
<1> DEFINE A(l) == {j \in 1..Len(l) : j # i /\ l[i].header \in l[j].body}
           M(l) == {j \in A(l) : \A m \in A(l) :
                      Cardinality(l[j].body) <= Cardinality(l[m].body)}
<1>1. A(ms) = A(ls)
  OBVIOUS
<1>2. M(ms) = M(ls)
  <2>1. A(ls) \subseteq 1..Len(ls)
    OBVIOUS
  <2>2. \A j \in A(ls) : Cardinality(ms[j].body) = Cardinality(ls[j].body)
    OBVIOUS
  <2> HIDE DEF A
  <2> QED
    BY <1>1, <2>1, <2>2
<1>3. \A l : Parent(l, i) = IF A(l) = {} THEN 0 ELSE Min(M(l))
  BY DEF Parent
<1> QED
  BY <1>1, <1>2, <1>3

(* Nest: sorting and nesting change neither headers nor bodies.            *)
LEMMA NestStep ==
  ASSUME CfgInv, LoopInv, Nest
  PROVE  /\ LoopInv'
         /\ \A i \in 1..Len(loops') : loops'[i].parent = Parent(loops', i)
<1> DEFINE L == Len(loops)
           Record == [header : Blocks(g), body : SUBSET Blocks(g), parent : Nat]
<1>1. /\ phase = "nest" /\ phase' = "query" /\ UNCHANGED <<g, stack, backEdges, body, queue>>
  BY DEF Nest, fixed
<1>2. PICK p \in Bijection(1..L, 1..L) :
        LET sorted == [i \in 1..L |-> loops[p[i]]]
        IN  loops' = [i \in 1..L |-> [sorted[i] EXCEPT !.parent = Parent(sorted, i)]]
  BY DEF Nest
<1> DEFINE sorted == [i \in 1..L |-> loops[p[i]]]
<1>3. p \in [1..L -> 1..L]
  BY DEF Bijection, Injection
<1>4. /\ loops \in Seq(Record) /\ L \in Nat
      /\ \A i \in 1..L : /\ loops[i] \in Record /\ Natural(loops[i].header, loops[i].body)
                        /\ Backward(loops[i].header, loops[i].body, loops[i].body)
  <2>1. /\ loops \in Seq(Record)
        /\ \A i \in DOMAIN loops : /\ Natural(loops[i].header, loops[i].body)
                                  /\ Backward(loops[i].header, loops[i].body, loops[i].body)
    BY DEF LoopInv, LoopsInv
  <2> HIDE DEF Record
  <2> QED
    BY <2>1
<1>5. /\ Len(sorted) = L
      /\ \A i \in 1..L : /\ sorted[i] \in Record /\ Natural(sorted[i].header, sorted[i].body)
                        /\ Backward(sorted[i].header, sorted[i].body, sorted[i].body)
  <2> HIDE DEF Record
  <2> QED
    BY <1>3, <1>4
<1>6. \A i \in 1..L : Parent(sorted, i) \in Nat
  <2>1. IsFiniteSet(Blocks(g))
    BY GraphFacts DEF CfgInv, CfgTypeOK
  <2>2. \A i \in 1..L : sorted[i].body \subseteq Blocks(g)
    BY <1>5
  <2> HIDE DEF sorted
  <2> SUFFICES ASSUME NEW i \in 1..L PROVE Parent(sorted, i) \in Nat
    OBVIOUS
  <2> DEFINE X == {j \in 1..Len(sorted) : j # i /\ sorted[i].header \in sorted[j].body}
  <2>3. /\ X = {} => Parent(sorted, i) = 0
        /\ X # {} => Smallest(sorted, X, Parent(sorted, i))
    BY <1>4, <1>5, <2>1, <2>2, ParentFacts
  <2> QED
    BY <1>4, <1>5, <2>3 DEF Smallest
<1>7. loops' = [i \in 1..L |-> [sorted[i] EXCEPT !.parent = Parent(sorted, i)]]
  BY <1>2
<1> HIDE DEF sorted, L
<1>8. \A i \in 1..L : /\ loops'[i] \in Record
                      /\ loops'[i].header = sorted[i].header /\ loops'[i].body = sorted[i].body
  BY <1>5, <1>6, <1>7
<1>9. loops' \in Seq(Record) /\ DOMAIN loops' = 1..L
  <2> HIDE DEF Record
  <2>1. loops' = [i \in 1..L |-> loops'[i]]
    BY <1>7
  <2> QED
    BY <1>4, <1>8, <2>1
<1>10. \A i \in 1..L : /\ Natural(loops'[i].header, loops'[i].body)
                       /\ Backward(loops'[i].header, loops'[i].body, loops'[i].body)
  BY <1>5, <1>8
<1>11. LoopsInv'
  BY <1>1, <1>9, <1>10 DEF LoopsInv, Natural, Collected, Backward, Early, Rounds
<1>12. SearchInv' /\ CollectInv'
  BY <1>1 DEF LoopInv, SearchInv, IsBackEdge, CollectInv
<1>13. \A i \in 1..Len(loops') : loops'[i].parent = Parent(loops', i)
  <2> SUFFICES ASSUME NEW i \in 1..L PROVE loops'[i].parent = Parent(loops', i)
    BY <1>4, <1>9
  <2>1. loops'[i].parent = Parent(sorted, i)
    BY <1>5, <1>7
  <2>2. Len(loops') = L /\ Len(sorted) = L
    BY <1>4, <1>5, <1>9
  <2>3. Parent(loops', i) = Parent(sorted, i)
    BY <1>8, <2>2, ParentSame
  <2> QED
    BY <2>1, <2>3
<1> QED
  BY <1>11, <1>12, <1>13 DEF LoopInv

(* The invariant of the loop analysis.                                     *)
THEOREM LoopInvariant == Spec => [](CfgInv /\ DomInv /\ LoopInv)
<1>1. Init => LoopInv
  <2> SUFFICES ASSUME Init PROVE LoopInv
    OBVIOUS
  <2>1. /\ phase = "reach" /\ stack = <<1>> /\ backEdges = <<>> /\ loops = <<>>
    BY DEF Init, DomInit, CfgInit
  <2>2. 1 \in Blocks(g) /\ 1 \in Reachable(g)
    BY CfgInitInv, GraphFacts, ReachableFacts DEF Init, DomInit, CfgInv, CfgTypeOK
  <2>3. ToSet(stack) = {1} /\ ToSet(backEdges) = {}
    BY <2>1 DEF ToSet
  <2> QED
    BY <2>1, <2>2, <2>3 DEF LoopInv, SearchInv, CollectInv, LoopsInv
<1>2. CfgInv /\ DomInv /\ LoopInv /\ [Next]_vars => LoopInv'
  BY StepsOfLoops, LoopQuietStep, SearchStep, StartCollectStep, CollectStep, EndLoopStep, NestStep
<1> QED
  BY <1>1, <1>2, DomInvariant, PTL DEF Spec

(* The loops that LICM and unrolling are given are natural: the header     *)
(* dominates the body and can be entered again from it.                    *)
THEOREM HeaderDominatesAlways == Spec => []HeaderDominates
<1>1. CfgInv /\ LoopInv => HeaderDominates
  <2> SUFFICES ASSUME CfgInv, LoopInv, NEW i \in 1..Len(loops)
               PROVE  /\ \A b \in Live(i) : Dominates(g, loops[i].header, b)
                      /\ \E t \in Live(i) : loops[i].header \in ToSet(g[t])
                      /\ \A S \in SUBSET (Live(i) \ {loops[i].header}) :
                           S # {} => \E c \in S : ToSet(g[c]) \cap (Live(i) \ S) # {}
    BY DEF HeaderDominates
  <2> DEFINE h == loops[i].header
             bd == loops[i].body
  <2>1. i \in DOMAIN loops /\ Natural(h, bd) /\ Backward(h, bd, bd) /\ IsGraph(g)
    BY DEF LoopInv, LoopsInv, CfgInv, CfgTypeOK
  <2> HIDE DEF h, bd
  <2>2. Live(i) = bd \cap Reachable(g)
    BY DEF Live, bd
  <2>3. ASSUME NEW S \in SUBSET (Live(i) \ {h}), S # {},
               \A c \in S : ToSet(g[c]) \cap (Live(i) \ S) = {}
        PROVE  FALSE
    <3>1. PICK t \in Live(i) : Edge(g, t, h) /\ Collected(t, h, bd)
      BY <2>1, <2>2 DEF Natural
    <3>2. \A a, c : a \in S /\ Edge(g, a, c) /\ c \in bd => c \in S
      BY <2>1, <2>2, <2>3, ReachableFacts DEF Edge
    <3>3. t \notin S /\ h \in bd /\ h \notin S
      BY <2>1, <3>1, <3>2 DEF Natural
    <3>4. Backward(h, (bd \ S) \cap bd, bd \ S)
      BY <2>1, <3>2 DEF Backward
    <3>5. bd \ S \in SUBSET Blocks(g)
      BY <2>1 DEF Natural
    <3>6. bd \subseteq bd \ S
      BY <2>2, <3>1, <3>3, <3>4, <3>5 DEF Collected
    <3> QED
      BY <2>2, <2>3, <3>6
  <2>4. \A b \in Live(i) : Dominates(g, h, b)
    BY <2>1, <2>2 DEF Natural
  <2>5. \E t \in Live(i) : h \in ToSet(g[t])
    BY <2>1, <2>2 DEF Natural, Edge
  <2> QED
    BY <2>3, <2>4, <2>5 DEF h
<1> QED
  BY <1>1, LoopInvariant, PTL

-----------------------------------------------------------------------------
(* Of two loops around a reachable block with different headers, the one   *)
(* whose header comes first contains the other.                            *)
LEMMA LoopsNest ==
  ASSUME IsGraph(g), NEW h1, NEW b1, Natural(h1, b1), Backward(h1, b1, b1),
         NEW h2, NEW b2, Natural(h2, b2), h1 # h2, Dominates(g, h1, h2),
         NEW x, x \in b1, x \in b2, x \in Reachable(g)
  PROVE  b2 \subseteq b1 /\ h1 \notin b2
<1>1. /\ Dominates(g, h1, x) /\ Dominates(g, h2, x)
      /\ b1 \subseteq Blocks(g) /\ h1 \in b1 /\ h2 \in b2
  BY DEF Natural
<1>2. h1 \in Reachable(g) /\ h2 \in Reachable(g) /\ h2 # 1
  BY DominatorReachable DEF StrictlyDominates
<1>3. ~Dominates(g, h2, h1)
  BY <1>2, DominanceAntisymmetric
<1>4. h1 \notin b2
  BY <1>2, <1>3 DEF Natural
<1>5. h2 \in b1
  <2> SUFFICES ASSUME h2 \notin b1 PROVE FALSE
    OBVIOUS
  <2> DEFINE R2 == ReachAvoiding(g, h2)
             X == (b1 \cap Reachable(g)) \ R2
             S == Reachable(g) \ X
  <2>1. h1 \in R2
    BY <1>2, <1>3 DEF Dominates
  <2>2. x \in X
    BY <1>1 DEF Dominates
  <2>3. 1 \in R2 /\ \A a, c : a \in R2 /\ Edge(g, a, c) /\ c # h2 => c \in R2
    BY <1>2, ReachClosed
  <2> HIDE DEF R2
  <2>4. ASSUME NEW a, NEW c, a \in S, Edge(g, a, c) PROVE c \in S
    <3>1. c \in Reachable(g)
      BY <2>4, ReachableFacts
    <3>2. SUFFICES ASSUME c \in X PROVE FALSE
      BY <3>1
    <3>3. c # h1 /\ c # h2
      BY <2>1, <3>2
    <3>4. a \in b1 /\ a \in Reachable(g) /\ a \notin R2
      BY <2>3, <2>4, <3>2, <3>3 DEF Backward
    <3> QED
      BY <2>4, <3>4
  <2>5. 1 \in S
    BY <2>3, ReachableFacts
  <2> HIDE DEF S
  <2>6. Reachable(g) \subseteq S
    BY <2>4, <2>5, ReachLeast DEF Reachable
  <2> QED
    BY <2>2, <2>6 DEF S
<1>6. PICK t \in b2 \cap Reachable(g) : Edge(g, t, h2) /\ Collected(t, h2, b2)
  BY DEF Natural
<1>7. t \in b1
  BY <1>5, <1>6 DEF Backward
<1>8. Backward(h2, b1 \cap b2, b1)
  BY <1>4 DEF Backward
<1>9. b2 \subseteq b1
  BY <1>1, <1>5, <1>6, <1>7, <1>8 DEF Collected
<1> QED
  BY <1>4, <1>9

(* What holds of each loop that has been recorded.                         *)
LEMMA LoopFacts ==
  ASSUME CfgInv, LoopInv
  PROVE  /\ IsGraph(g) /\ IsFiniteSet(Blocks(g)) /\ Len(loops) \in Nat
         /\ \A i \in 1..Len(loops) :
              /\ Natural(loops[i].header, loops[i].body)
              /\ Backward(loops[i].header, loops[i].body, loops[i].body)
              /\ loops[i].body \subseteq Blocks(g) /\ loops[i].header \in loops[i].body
              /\ loops[i].header \in Reachable(g)
              /\ IsFiniteSet(loops[i].body) /\ Cardinality(loops[i].body) \in Nat
<1>1. IsGraph(g) /\ IsFiniteSet(Blocks(g))
  BY GraphFacts DEF CfgInv, CfgTypeOK
<1> DEFINE Record == [header : Blocks(g), body : SUBSET Blocks(g), parent : Nat]
<1>2. /\ loops \in Seq(Record)
      /\ \A i \in DOMAIN loops : /\ Natural(loops[i].header, loops[i].body)
                                /\ Backward(loops[i].header, loops[i].body, loops[i].body)
  BY DEF LoopInv, LoopsInv
<1> HIDE DEF Record
<1>3. Len(loops) \in Nat /\ DOMAIN loops = 1..Len(loops)
  BY <1>2
<1>4. ASSUME NEW h, NEW bd, Natural(h, bd)
      PROVE  /\ bd \subseteq Blocks(g) /\ h \in bd /\ h \in Reachable(g)
             /\ IsFiniteSet(bd) /\ Cardinality(bd) \in Nat
  <2>1. bd \subseteq Blocks(g) /\ h \in bd
    BY <1>4 DEF Natural
  <2>2. PICK t \in Reachable(g) : Edge(g, t, h)
    BY <1>4 DEF Natural
  <2>3. h \in Reachable(g)
    BY <1>1, <2>2, ReachableFacts
  <2>4. IsFiniteSet(bd)
    BY <1>1, <2>1, FS_Subset
  <2> QED
    BY <2>1, <2>3, <2>4, FS_CardinalityType
<1> QED
  BY <1>1, <1>2, <1>3, <1>4

(* Two loops around one reachable block lie one within the other, unless   *)
(* they share their header.                                                *)
LEMMA OneWithin ==
  ASSUME CfgInv, LoopInv, NEW i \in 1..Len(loops), NEW j \in 1..Len(loops),
         loops[i].header # loops[j].header,
         NEW x \in Reachable(g), x \in loops[i].body, x \in loops[j].body
  PROVE  \/ loops[i].body \subseteq loops[j].body /\ loops[j].header \notin loops[i].body
         \/ loops[j].body \subseteq loops[i].body /\ loops[i].header \notin loops[j].body
<1> DEFINE hi == loops[i].header
           hj == loops[j].header
<1>1. /\ IsGraph(g)
      /\ Natural(hi, loops[i].body) /\ Backward(hi, loops[i].body, loops[i].body)
      /\ Natural(hj, loops[j].body) /\ Backward(hj, loops[j].body, loops[j].body)
  BY LoopFacts
<1>2. Dominates(g, hi, x) /\ Dominates(g, hj, x) /\ hi # hj
  BY <1>1 DEF Natural
<1> HIDE DEF hi, hj
<1>3. CASE Dominates(g, hi, hj)
  BY <1>1, <1>2, <1>3, LoopsNest DEF hi
<1>4. CASE Dominates(g, hj, hi)
  BY <1>1, <1>2, <1>4, LoopsNest DEF hj
<1> QED
  BY <1>1, <1>2, <1>3, <1>4, DominatorsOrdered

-----------------------------------------------------------------------------
(* The loops around the header of the i-th one, and around a block; no     *)
(* other loop has the header of the i-th.                                  *)
Around(ls, i) == {j \in 1..Len(ls) : j # i /\ ls[i].header \in ls[j].body}
Enclosing(ls, b) == {j \in 1..Len(ls) : b \in ls[j].body}
Alone(ls, i) == \A j \in 1..Len(ls) : j # i => ls[j].header # ls[i].header

(* The loops around a block are the smallest of them and those around it.  *)
LEMMA InnermostCounts ==
  ASSUME CfgInv, LoopInv, NEW x \in Reachable(g), NEW own, NEW X,
         X = Enclosing(loops, x) \ {own},
         NEW i, Smallest(loops, X, i), Alone(loops, i),
         own \in Enclosing(loops, x) => own \notin Around(loops, i)
  PROVE  X = Around(loops, i) \cup {i}
<1>1. /\ i \in X /\ i \in 1..Len(loops) /\ x \in loops[i].body
      /\ \A j \in X : Cardinality(loops[i].body) <= Cardinality(loops[j].body)
  BY DEF Smallest, Enclosing
<1>2. /\ \A j \in 1..Len(loops) :
           /\ IsFiniteSet(loops[j].body) /\ Cardinality(loops[j].body) \in Nat
           /\ loops[j].header \in loops[j].body /\ loops[j].header \in Reachable(g)
  BY LoopFacts
<1>3. ASSUME NEW j \in X, j # i PROVE j \in Around(loops, i)
  <2>1. /\ j \in 1..Len(loops) /\ x \in loops[j].body
        /\ loops[i].header # loops[j].header
    BY <1>1, <1>3 DEF Enclosing, Alone
  <2>2. CASE loops[i].body \subseteq loops[j].body
    BY <1>1, <1>2, <1>3, <2>1, <2>2 DEF Around
  <2>3. CASE loops[j].body \subseteq loops[i].body /\ loops[i].header \notin loops[j].body
    <3>1. Cardinality(loops[j].body) < Cardinality(loops[i].body)
      <4>1. loops[j].body # loops[i].body
        BY <1>1, <1>2, <2>3
      <4>2. /\ Cardinality(loops[j].body) <= Cardinality(loops[i].body)
            /\ Cardinality(loops[j].body) # Cardinality(loops[i].body)
        BY <1>1, <1>2, <2>3, <4>1, FS_Subset
      <4> QED
        BY <1>1, <1>2, <2>1, <4>2
    <3> QED
      BY <1>1, <1>2, <2>1, <3>1
  <2> QED
    BY <1>1, <2>1, <2>2, <2>3, OneWithin
<1>4. ASSUME NEW j \in Around(loops, i) PROVE j \in X
  <2>1. /\ j \in 1..Len(loops) /\ j # i /\ loops[i].header \in loops[j].body
        /\ loops[i].header # loops[j].header
    BY <1>1, <1>4 DEF Around, Alone
  <2>2. loops[i].header \in loops[i].body /\ loops[i].header \in Reachable(g)
    BY <1>1, <1>2
  <2>3. loops[i].body \subseteq loops[j].body
    BY <1>1, <2>1, <2>2, OneWithin
  <2> QED
    BY <1>1, <1>4, <2>1, <2>3 DEF Enclosing
<1> QED
  BY <1>1, <1>3, <1>4

(* One step up: the loops around a loop are its parent and those around    *)
(* that, if no other loop has the parent's header.                         *)
LEMMA ParentCounts ==
  ASSUME CfgInv, LoopInv, NEW own \in 1..Len(loops), NEW p,
         Smallest(loops, Around(loops, own), p), Alone(loops, p)
  PROVE  Alone(loops, own) /\ Around(loops, own) = Around(loops, p) \cup {p}
<1> DEFINE h == loops[own].header
           X == Around(loops, own)
<1>1. /\ p \in X /\ p \in 1..Len(loops) /\ p # own /\ h \in loops[p].body
      /\ \A j \in X : Cardinality(loops[p].body) <= Cardinality(loops[j].body)
      /\ loops[p].header # h
  BY DEF Smallest, Around, Alone
<1>2. /\ \A j \in 1..Len(loops) :
           /\ IsFiniteSet(loops[j].body) /\ Cardinality(loops[j].body) \in Nat
           /\ loops[j].header \in loops[j].body
      /\ h \in Reachable(g)
  BY LoopFacts
<1>3. ASSUME NEW m \in 1..Len(loops), loops[m].header = h
      PROVE  loops[m].body \subseteq loops[p].body /\ loops[p].header \notin loops[m].body
  <2>1. h \in loops[m].body
    BY <1>2, <1>3
  <2> QED
    BY <1>1, <1>2, <1>3, <2>1, OneWithin
<1>4. Alone(loops, own)
  <2> SUFFICES ASSUME NEW m \in 1..Len(loops), m # own, loops[m].header = h PROVE FALSE
    BY DEF Alone
  <2>1. m \in X
    BY <1>2 DEF Around
  <2>2. loops[m].body \subseteq loops[p].body /\ loops[m].body # loops[p].body
    BY <1>1, <1>2, <1>3
  <2>3. Cardinality(loops[m].body) < Cardinality(loops[p].body)
    BY <1>1, <1>2, <2>2, FS_Subset
  <2> QED
    BY <1>1, <1>2, <2>1, <2>3
<1>5. own \notin Around(loops, p)
  BY <1>3 DEF Around
<1>6. X = Enclosing(loops, h) \ {own}
  BY DEF Around, Enclosing
<1> HIDE DEF X, h
<1>7. X = Around(loops, p) \cup {p}
  BY <1>2, <1>5, <1>6, InnermostCounts DEF X
<1> QED
  BY <1>4, <1>7 DEF X

(* loop_of finds the first of the smallest loops around a block.           *)
LEMMA LoopOfFacts ==
  ASSUME CfgInv, LoopInv, NEW b
  PROVE  /\ Enclosing(loops, b) = {} => LoopOf(b) = 0
         /\ Enclosing(loops, b) # {} => Smallest(loops, Enclosing(loops, b), LoopOf(b))
<1> DEFINE X == {j \in 1..Len(loops) : b \in loops[j].body}
           least == {i \in X : \A j \in X :
                       Cardinality(loops[i].body) <= Cardinality(loops[j].body)}
<1>1. CASE X = {}
  BY <1>1 DEF LoopOf, Enclosing
<1>2. CASE X # {}
  <2>1. LoopOf(b) = Min(least)
    BY <1>2 DEF LoopOf
  <2>2. X \subseteq 1..Len(loops) /\ \A j : j \in least <=> Smallest(loops, X, j)
    BY DEF Smallest
  <2>3. X = Enclosing(loops, b)
    BY DEF Enclosing
  <2> HIDE DEF least, X
  <2>4. Smallest(loops, X, Min(least))
    BY <1>2, <2>2, LoopFacts, SmallestExists
  <2> QED
    BY <1>2, <2>1, <2>3, <2>4
<1> QED
  BY <1>1, <1>2

(* Where the query stands: the count and the loops still above make up the *)
(* loops around the block, unless depth is on its way round loops that     *)
(* share a header.                                                         *)
Counted(ls, b, i, d) == d + Cardinality(Around(ls, i)) = Cardinality(Enclosing(ls, b))

QueryInv ==
  /\ phase \notin {"query", "done"} => blk = 0
  /\ phase = "done" => blk # 0
  /\ phase \in {"query", "done"} =>
       \A i \in 1..Len(loops) : loops[i].parent = Parent(loops, i)
  /\ blk # 0 => /\ depth \in Nat /\ at \in 0..Len(loops)
                /\ at = 0 => /\ phase = "done" /\ depth = 0
                             /\ Enclosing(loops, blk) = {}
                /\ at # 0 => /\ phase = "done" => loops[at].parent = 0
                             /\ blk \in Reachable(g) /\ Alone(loops, at)
                                  => Counted(loops, blk, at, depth)

(* A query starts with one loop counted, the innermost.                    *)
LEMMA QueryStep ==
  ASSUME CfgInv, LoopInv, QueryInv, NEW b \in Blocks(g), Query(b)
  PROVE  QueryInv'
<1>1. /\ phase = "query" /\ blk' = b /\ at' = LoopOf(b) /\ UNCHANGED <<g, loops>>
      /\ depth' = IF LoopOf(b) = 0 THEN 0 ELSE 1
      /\ phase' = IF LoopOf(b) = 0 THEN "done" ELSE "query"
      /\ b # 0
  BY LoopFacts, GraphFacts DEF Query, fixed
<1>2. \A i \in 1..Len(loops) : loops[i].parent = Parent(loops, i)
  BY <1>1 DEF QueryInv
<1>3. Len(loops) \in Nat
  BY LoopFacts
<1> DEFINE X == Enclosing(loops, b)
<1>4. CASE X = {}
  <2>1. LoopOf(b) = 0
    BY <1>4, LoopOfFacts
  <2> QED
    BY <1>1, <1>2, <1>3, <1>4, <2>1 DEF QueryInv
<1>5. CASE X # {}
  <2>1. Smallest(loops, X, LoopOf(b))
    BY <1>5, LoopOfFacts
  <2>2. LoopOf(b) \in 1..Len(loops) /\ LoopOf(b) # 0
    BY <1>3, <2>1 DEF Smallest, Enclosing
  <2>3. ASSUME b \in Reachable(g), Alone(loops, LoopOf(b))
        PROVE  Counted(loops, b, LoopOf(b), 1)
    <3>1. X = X \ {0} /\ 0 \notin X
      BY <1>3 DEF Enclosing
    <3>2. X = Around(loops, LoopOf(b)) \cup {LoopOf(b)}
      BY <2>1, <2>3, <3>1, InnermostCounts
    <3>3. LoopOf(b) \notin Around(loops, LoopOf(b)) /\ IsFiniteSet(Around(loops, LoopOf(b)))
      <4>1. IsFiniteSet(1..Len(loops))
        BY <1>3, Positions
      <4>2. Around(loops, LoopOf(b)) \in SUBSET (1..Len(loops))
        BY DEF Around
      <4>3. IsFiniteSet(Around(loops, LoopOf(b)))
        BY <4>1, <4>2, FS_Subset
      <4> QED
        BY <4>3 DEF Around
    <3>4. Cardinality(X) = Cardinality(Around(loops, LoopOf(b))) + 1
      BY <3>2, <3>3, FS_AddElement
    <3>5. Cardinality(Around(loops, LoopOf(b))) \in Nat
      BY <3>3, FS_CardinalityType
    <3> QED
      BY <3>4, <3>5 DEF Counted
  <2> QED
    BY <1>1, <1>2, <1>3, <2>2, <2>3 DEF QueryInv
<1> QED
  BY <1>4, <1>5

(* Each step up counts the parent.                                         *)
LEMMA ClimbStep ==
  ASSUME CfgInv, LoopInv, QueryInv, Climb
  PROVE  QueryInv'
<1>1. /\ phase = "query" /\ blk # 0 /\ UNCHANGED <<g, loops, blk>>
      /\ loops[at].parent = 0 => phase' = "done" /\ UNCHANGED <<at, depth>>
      /\ loops[at].parent # 0 => /\ at' = loops[at].parent /\ phase' = phase
                                 /\ depth' = IF depth > Len(loops) THEN depth ELSE depth + 1
  BY DEF Climb, fixed
<1>2. /\ \A i \in 1..Len(loops) : loops[i].parent = Parent(loops, i)
      /\ depth \in Nat /\ at \in 0..Len(loops) /\ at # 0
      /\ blk \in Reachable(g) /\ Alone(loops, at) => Counted(loops, blk, at, depth)
  BY <1>1 DEF QueryInv
<1>3. Len(loops) \in Nat /\ at \in 1..Len(loops)
  BY <1>2, LoopFacts
<1>4. CASE loops[at].parent = 0
  BY <1>1, <1>2, <1>3, <1>4 DEF QueryInv
<1>5. CASE loops[at].parent # 0
  <2> DEFINE X == Around(loops, at)
             p == Parent(loops, at)
  <2>1. p = loops[at].parent /\ p # 0
    BY <1>2, <1>3, <1>5
  <2>2. Smallest(loops, X, p)
    <3>1. X = {j \in 1..Len(loops) : j # at /\ loops[at].header \in loops[j].body}
      BY DEF Around
    <3>2. /\ IsFiniteSet(Blocks(g)) /\ \A j \in 1..Len(loops) : loops[j].body \subseteq Blocks(g)
      BY LoopFacts
    <3> HIDE DEF X
    <3>3. X = {} => p = 0
      BY <1>3, <3>1, <3>2, ParentFacts
    <3>4. X # {} => Smallest(loops, X, p)
      BY <1>3, <3>1, <3>2, ParentFacts
    <3> QED
      BY <2>1, <3>3, <3>4
  <2>3. p \in 1..Len(loops)
    BY <2>2 DEF Smallest, Around
  <2>4. ASSUME blk \in Reachable(g), Alone(loops, p)
        PROVE  Counted(loops, blk, p, depth')
    <3>1. Alone(loops, at) /\ X = Around(loops, p) \cup {p}
      BY <1>3, <2>2, <2>4, ParentCounts
    <3>2. IsFiniteSet(1..Len(loops)) /\ Cardinality(1..Len(loops)) = Len(loops)
      BY <1>3, Positions
    <3>3. /\ Around(loops, p) \in SUBSET (1..Len(loops)) /\ p \notin Around(loops, p)
          /\ Enclosing(loops, blk) \in SUBSET (1..Len(loops))
      BY DEF Around, Enclosing
    <3>4. /\ IsFiniteSet(Around(loops, p)) /\ Cardinality(Around(loops, p)) \in Nat
          /\ IsFiniteSet(Enclosing(loops, blk)) /\ Cardinality(Enclosing(loops, blk)) \in Nat
          /\ Cardinality(Enclosing(loops, blk)) <= Len(loops)
      BY <3>2, <3>3, FS_Subset, FS_CardinalityType
    <3>5. Cardinality(X) = Cardinality(Around(loops, p)) + 1
      BY <3>1, <3>3, <3>4, FS_AddElement
    <3>6. depth + Cardinality(X) = Cardinality(Enclosing(loops, blk))
      BY <1>2, <2>4, <3>1 DEF Counted
    <3> HIDE DEF X
    <3>7. depth' = depth + 1
      BY <1>1, <1>2, <1>3, <1>5, <3>4, <3>5, <3>6
    <3> QED
      BY <1>2, <3>4, <3>5, <3>6, <3>7 DEF Counted
  <2> HIDE DEF p, X
  <2>5. at' = p /\ phase' = "query" /\ depth' \in Nat
    BY <1>1, <1>2, <1>3, <1>5, <2>1
  <2> QED
    BY <1>1, <1>2, <1>3, <2>1, <2>3, <2>4, <2>5 DEF QueryInv
<1> QED
  BY <1>4, <1>5

(* The steps that no query takes part in.                                  *)
QueryQuiet ==
  /\ UNCHANGED <<g, blk, at, depth>>
  /\ \/ phase \in {"query", "done"} /\ UNCHANGED <<phase, loops>>
     \/ {phase, phase'} \cap {"query", "done"} = {}
     \/ phase = "search" /\ phase' = "query" /\ UNCHANGED loops

(* Only Nest, Query and Climb are about queries.                           *)
LEMMA StepsOfQuery ==
  ASSUME [Next]_vars
  PROVE  Nest \/ (\E b \in Blocks(g) : Query(b)) \/ Climb \/ QueryQuiet
<1> USE DEF QueryQuiet, cfgVars, domVars, domAll, loopVars, fixed, vars
<1>1. CASE DomNext /\ UNCHANGED loopVars
  <2>1. CASE CfgNext
    BY <1>1, <2>1 DEF CfgNext, Sweep, StartOrder, Descend, Return
  <2>2. CASE StartDom
    BY <1>1, <2>2 DEF StartDom, Ordered
  <2>3. CASE Block
    BY <1>1, <2>3 DEF Block
  <2>4. CASE Pred
    BY <1>1, <2>4 DEF Pred
  <2>5. CASE Walk
    BY <1>1, <2>5 DEF Walk
  <2>6. CASE Meet
    BY <1>1, <2>6 DEF Meet
  <2>7. CASE Commit
    BY <1>1, <2>7 DEF Commit
  <2>8. CASE EndRound
    BY <1>1, <2>8 DEF EndRound
  <2> QED
    BY <1>1, <2>1, <2>2, <2>3, <2>4, <2>5, <2>6, <2>7, <2>8 DEF DomNext
<1>2. CASE StartSearch
  BY <1>2 DEF StartSearch
<1>3. CASE Search
  BY <1>3 DEF Search
<1>4. CASE StartCollect
  BY <1>4 DEF StartCollect
<1>5. CASE Collect
  BY <1>5 DEF Collect
<1>6. CASE EndLoop
  BY <1>6 DEF EndLoop
<1>7. CASE Done \/ UNCHANGED vars
  BY <1>7 DEF Done
<1> QED
  BY <1>1, <1>2, <1>3, <1>4, <1>5, <1>6, <1>7 DEF Next

(* The loops of a graph without back edges are none.                       *)
LEMMA QueryQuietStep ==
  ASSUME LoopInv, QueryInv, QueryQuiet
  PROVE  QueryInv'
<1>1. CASE phase \in {"query", "done"} /\ UNCHANGED <<phase, loops>>
  BY <1>1 DEF QueryQuiet, QueryInv
<1>2. CASE {phase, phase'} \cap {"query", "done"} = {}
  BY <1>2 DEF QueryQuiet, QueryInv
<1>3. CASE phase = "search" /\ phase' = "query" /\ UNCHANGED loops
  <2>1. loops' = <<>> /\ blk' = 0
    BY <1>3 DEF QueryQuiet, QueryInv, LoopInv, LoopsInv, Early
  <2> QED
    BY <1>3, <2>1 DEF QueryInv
<1> QED
  BY <1>1, <1>2, <1>3 DEF QueryQuiet

(* The invariant of the depth query.                                       *)
THEOREM QueryInvariant == Spec => [](CfgInv /\ LoopInv /\ QueryInv)
<1>1. Init => QueryInv
  BY DEF Init, DomInit, CfgInit, QueryInv
<1>2. CfgInv /\ LoopInv /\ QueryInv /\ [Next]_vars => QueryInv'
  <2> SUFFICES ASSUME CfgInv, LoopInv, QueryInv, [Next]_vars PROVE QueryInv'
    OBVIOUS
  <2>1. CASE Nest
    <3>1. /\ \A i \in 1..Len(loops') : loops'[i].parent = Parent(loops', i)
          /\ phase' = "query" /\ blk' = 0
      BY <2>1, NestStep DEF Nest, QueryInv
    <3> QED
      BY <3>1 DEF QueryInv
  <2> QED
    BY <2>1, StepsOfQuery, QueryStep, ClimbStep, QueryQuietStep
<1> QED
  BY <1>1, <1>2, LoopInvariant, PTL DEF Spec

(* depth counts the loops around every block that the entry reaches, as    *)
(* its comment says, whenever it returns: loops around a block that do not *)
(* share a header nest, and those that share one are never left.           *)
THEOREM DepthCountsAlways == Spec => []DepthCounts
<1>1. CfgInv /\ LoopInv /\ QueryInv => DepthCounts
  <2> SUFFICES ASSUME CfgInv, LoopInv, QueryInv, phase = "done", blk \in Reachable(g)
               PROVE  depth = Cardinality(Enclosing(loops, blk))
    BY DEF DepthCounts, Enclosing
  <2>1. /\ blk # 0 /\ at \in 0..Len(loops) /\ depth \in Nat
        /\ \A i \in 1..Len(loops) : loops[i].parent = Parent(loops, i)
    BY DEF QueryInv
  <2>2. CASE at = 0
    BY <2>1, <2>2, FS_EmptySet DEF QueryInv
  <2>3. CASE at # 0
    <3>1. /\ loops[at].parent = 0 /\ at \in 1..Len(loops) /\ Len(loops) \in Nat
          /\ Alone(loops, at) => Counted(loops, blk, at, depth)
      BY <2>1, <2>3, LoopFacts DEF QueryInv
    <3> DEFINE X == Around(loops, at)
    <3>2. X = {}
      <4>1. X = {j \in 1..Len(loops) : j # at /\ loops[at].header \in loops[j].body}
        BY DEF Around
      <4>2. /\ IsFiniteSet(Blocks(g)) /\ \A j \in 1..Len(loops) : loops[j].body \subseteq Blocks(g)
        BY LoopFacts
      <4> HIDE DEF X
      <4>3. X # {} => Smallest(loops, X, Parent(loops, at))
        BY <3>1, <4>1, <4>2, ParentFacts
      <4>4. Parent(loops, at) = 0
        BY <2>1, <3>1
      <4> QED
        BY <4>1, <4>3, <4>4 DEF Smallest
    <3>3. Alone(loops, at)
      <4>1. \A j \in 1..Len(loops) : loops[j].header \in loops[j].body
        BY LoopFacts
      <4> QED
        BY <3>2, <4>1 DEF Alone, Around
    <3>4. Cardinality(X) = 0
      BY <3>2, FS_EmptySet
    <3> QED
      BY <2>1, <3>1, <3>3, <3>4 DEF Counted
  <2> QED
    BY <2>2, <2>3
<1> QED
  BY <1>1, QueryInvariant, PTL
=============================================================================
