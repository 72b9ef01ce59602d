------------------------------- MODULE DomTree -------------------------------
(***************************************************************************)
(* DomTree::compute and dominance_frontier of                              *)
(* llvm-analysis/src/dominators.rs: the iterative algorithm of Cooper,     *)
(* Harvey and Kennedy on the reverse post-order that Cfg computes.         *)
(* Positions in that order count from 1; 0 stands for UNDEF.               *)
(***************************************************************************)
EXTENDS Cfg

VARIABLES
  idom,     \* the position of the immediate dominator, per position
  pos,      \* the position being processed
  cand,     \* new_idom of that position
  k,        \* the next predecessor to intersect with
  finger1,  \* intersect's a: walks up from the predecessor
  finger2,  \* intersect's b: walks up from new_idom
  changed   \* whether the round changed an immediate dominator

domVars == <<idom, pos, cand, k, finger1, finger2, changed>>
domAll == <<cfgVars, domVars>>

RpoIdx(b) == IF b \in reachable THEN CHOOSE i \in 1..Len(rpo) : rpo[i] = b ELSE 0
Preds(i) == Predecessors(g, rpo[i])

(* Mutant: a reachable predecessor counts whether processed or not.        *)
Processed_Reachable(b) == RpoIdx(b) # 0

Processed(b) == RpoIdx(b) # 0 /\ idom[RpoIdx(b)] # 0

DomInit ==
  /\ CfgInit
  /\ idom = <<>> /\ pos = 0 /\ cand = 0 /\ k = 0
  /\ finger1 = 0 /\ finger2 = 0 /\ changed = FALSE

(* The entry dominates itself; the first round begins.                     *)
StartDom ==
  /\ Ordered
  /\ phase' = "block"
  /\ idom' = [i \in 1..Len(rpo) |-> IF i = 1 THEN 1 ELSE 0]
  /\ pos' = 2
  /\ changed' = FALSE
  /\ UNCHANGED <<g, todo, reachable, calls, visited, order, cand, k, finger1, finger2>>

(* The next block of the round: new_idom starts as its first processed     *)
(* predecessor; a block with none is left for the next round.              *)
Block ==
  /\ phase = "block" /\ pos <= Len(rpo)
  /\ LET done == {m \in DOMAIN Preds(pos) : Processed(Preds(pos)[m])}
     IN  IF done = {} THEN pos' = pos + 1 /\ UNCHANGED <<phase, cand, k>>
         ELSE /\ cand' = RpoIdx(Preds(pos)[Min(done)])
              /\ k' = 1
              /\ phase' = "preds"
              /\ UNCHANGED pos
  /\ UNCHANGED <<g, todo, reachable, calls, visited, order, idom, finger1, finger2, changed>>

(* The next predecessor: intersected with new_idom if processed.           *)
Pred ==
  /\ phase = "preds" /\ k <= Len(Preds(pos))
  /\ LET b == Preds(pos)[k]
     IN  IF Processed(b) /\ RpoIdx(b) # cand
         THEN /\ finger1' = RpoIdx(b) /\ finger2' = cand
              /\ phase' = "intersect"
              /\ UNCHANGED k
         ELSE k' = k + 1 /\ UNCHANGED <<phase, finger1, finger2>>
  /\ UNCHANGED <<g, todo, reachable, calls, visited, order, idom, pos, cand, changed>>

(* intersect: the finger further from the entry walks up.                  *)
Walk ==
  /\ phase = "intersect" /\ finger1 # finger2
  /\ IF finger1 > finger2 THEN finger1' = idom[finger1] /\ UNCHANGED finger2
     ELSE finger2' = idom[finger2] /\ UNCHANGED finger1
  /\ UNCHANGED <<cfgVars, idom, pos, cand, k, changed>>

Meet ==
  /\ phase = "intersect" /\ finger1 = finger2
  /\ cand' = finger1
  /\ k' = k + 1
  /\ phase' = "preds"
  /\ UNCHANGED <<g, todo, reachable, calls, visited, order, idom, pos, finger1, finger2, changed>>

(* Mutant: every block of a round counts as a change.                      *)
Commit_Always ==
  /\ phase = "preds" /\ k > Len(Preds(pos))
  /\ idom' = [idom EXCEPT ![pos] = cand]
  /\ changed' = TRUE
  /\ pos' = pos + 1
  /\ phase' = "block"
  /\ UNCHANGED <<g, todo, reachable, calls, visited, order, cand, k, finger1, finger2>>

(* All predecessors are in.                                                *)
Commit ==
  /\ phase = "preds" /\ k > Len(Preds(pos))
  /\ idom' = [idom EXCEPT ![pos] = cand]
  /\ changed' = (changed \/ idom[pos] # cand)
  /\ pos' = pos + 1
  /\ phase' = "block"
  /\ UNCHANGED <<g, todo, reachable, calls, visited, order, cand, k, finger1, finger2>>

(* Mutant: one round is taken to be enough.                                *)
EndRound_Once ==
  /\ phase = "block" /\ pos > Len(rpo)
  /\ phase' = "tree"
  /\ pos' = 2 /\ changed' = FALSE
  /\ UNCHANGED <<g, todo, reachable, calls, visited, order, idom, cand, k, finger1, finger2>>

(* The end of a round: another one while something changed.                *)
EndRound ==
  /\ phase = "block" /\ pos > Len(rpo)
  /\ phase' = IF changed THEN "block" ELSE "tree"
  /\ pos' = 2 /\ changed' = FALSE
  /\ UNCHANGED <<g, todo, reachable, calls, visited, order, idom, cand, k, finger1, finger2>>

DomNext ==
  \/ CfgNext /\ UNCHANGED domVars
  \/ StartDom \/ Block \/ Pred \/ Walk \/ Meet \/ Commit \/ EndRound

-----------------------------------------------------------------------------
(* The result: the immediate dominator of a block, 0 for None.             *)
Idom(b) == IF RpoIdx(b) <= 1 THEN 0 ELSE rpo[idom[RpoIdx(b)]]

(* The strict dominators that strictly_dominates walks through.            *)
Above(b) ==
  LET up[i \in 1..Len(rpo)] ==
        IF i = 1 THEN {} ELSE LET rest == up[idom[i]] IN {rpo[idom[i]]} \cup rest
  IN  IF RpoIdx(b) = 0 THEN {} ELSE up[RpoIdx(b)]

(* dominates, as the tree answers it.                                      *)
TreeDominates(a, b) == a = b \/ a \in Above(b)

(* Mutant: the walk from a predecessor stops at the block itself.          *)
Runners_ToBlock(p, y) ==
  {r \in {p} \cup Above(p) : ~(r = y \/ r \in Above(y))}

(* dominance_frontier: the blocks a runner visits from predecessor p of y  *)
(* before it comes to the immediate dominator of y.                        *)
Runners(p, y) ==
  {r \in {p} \cup Above(p) :
     Idom(y) \in {p} \cup Above(p) => (r # Idom(y) /\ Idom(y) \in Above(r))}

DominanceFrontier(b) ==
  {y \in Blocks(g) : /\ Idom(y) # 0
                     /\ Len(Predecessors(g, y)) >= 2
                     /\ \E p \in ToSet(Predecessors(g, y)) : b \in Runners(p, y)}

-----------------------------------------------------------------------------
(* An immediate dominator comes before its block in the order, so the      *)
(* fingers of intersect always move toward the entry and meet; and they    *)
(* never step onto a block that is not processed yet.                      *)
IdomEarlier ==
  /\ \A i \in 2..Len(idom) : idom[i] < i
  /\ phase = "intersect" => finger1 > 0 /\ finger2 > 0
  /\ phase = "preds" => cand > 0

(* The result is the dominator tree: idom is the immediate dominator, and  *)
(* strictly_dominates follows exactly the dominance of paths.              *)
Correct ==
  phase = "tree" =>
    \A b \in Blocks(g) \ {1} :
      /\ b \in reachable => IsIdom(g, Idom(b), b)
      /\ \A a \in Blocks(g) : a \in Above(b) <=> StrictlyDominates(g, a, b)

(* "DF[b] = set of blocks y such that b dominates a predecessor of y but   *)
(* does not strictly dominate y", for the blocks with a dominator.         *)
FrontierCorrect ==
  phase = "tree" =>
    \A b \in Blocks(g) :
      DominanceFrontier(b) =
        {y \in reachable \ {1} : /\ \E p \in ToSet(Predecessors(g, y)) : Dominates(g, b, p)
                                 /\ ~StrictlyDominates(g, b, y)}

=============================================================================
