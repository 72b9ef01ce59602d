--------------------------------- MODULE Cfg ---------------------------------
(***************************************************************************)
(* llvm-analysis/src/cfg.rs: the reachability sweep of Cfg::compute (a     *)
(* stack of blocks still to look at) and post_order (the recursive         *)
(* dfs_post, its call stack made explicit).                                *)
(***************************************************************************)
EXTENDS FlowGraph

CONSTANT Graphs  \* the graphs considered

ASSUME GraphsAssumption == \A gr \in Graphs : IsGraph(gr)

VARIABLES
  g,          \* the graph
  phase,      \* "reach", "order", and what the analyses built on it add
  todo,       \* the stack of the reachability sweep
  reachable,  \* the blocks marked reachable
  calls,      \* the calls of dfs_post: [blk, next], innermost last
  visited,    \* the blocks dfs_post has entered
  order       \* the post-order so far

cfgVars == <<g, phase, todo, reachable, calls, visited, order>>

CfgInit ==
  /\ g \in Graphs
  /\ phase = "reach"
  /\ todo = <<1>> /\ reachable = {}
  /\ calls = <<>> /\ visited = {} /\ order = <<>>

(* The block on top of the stack: skipped if marked, else marked and its   *)
(* successors pushed.                                                      *)
Sweep ==
  /\ phase = "reach" /\ todo # <<>>
  /\ LET b == Last(todo)
     IN  IF b \in reachable THEN todo' = Front(todo) /\ UNCHANGED reachable
         ELSE /\ reachable' = reachable \cup {b}
              /\ todo' = Front(todo) \o Successors(g, b)
  /\ UNCHANGED <<g, phase, calls, visited, order>>

(* post_order calls dfs_post on the entry.                                 *)
StartOrder ==
  /\ phase = "reach" /\ todo = <<>>
  /\ phase' = "order"
  /\ calls' = <<[blk |-> 1, next |-> 1]>>
  /\ visited' = {1}
  /\ UNCHANGED <<g, todo, reachable, order>>

(* dfs_post calls itself on a successor, which returns at once if visited. *)
Descend ==
  /\ phase = "order" /\ calls # <<>>
  /\ LET top == Last(calls)
         succ == Successors(g, top.blk)[top.next]
         resumed == [calls EXCEPT ![Len(calls)].next = @ + 1]
     IN  /\ top.next <= Len(Successors(g, top.blk))
         /\ calls' = IF succ \in visited THEN resumed
                     ELSE Append(resumed, [blk |-> succ, next |-> 1])
         /\ visited' = visited \cup {succ}
  /\ UNCHANGED <<g, phase, todo, reachable, order>>

(* Mutant: the block is recorded before its last successor is visited.     *)
Return_Early ==
  /\ phase = "order" /\ calls # <<>>
  /\ Last(calls).next >= Len(Successors(g, Last(calls).blk))
  /\ order' = Append(order, Last(calls).blk)
  /\ calls' = Front(calls)
  /\ UNCHANGED <<g, phase, todo, reachable, visited>>

(* dfs_post pushes its block and returns.                                  *)
Return ==
  /\ phase = "order" /\ calls # <<>>
  /\ Last(calls).next > Len(Successors(g, Last(calls).blk))
  /\ order' = Append(order, Last(calls).blk)
  /\ calls' = Front(calls)
  /\ UNCHANGED <<g, phase, todo, reachable, visited>>

CfgNext == Sweep \/ StartOrder \/ Descend \/ Return

Ordered == phase = "order" /\ calls = <<>>
rpo == Reverse(order)

-----------------------------------------------------------------------------
(* rpo() lists exactly the blocks marked reachable, once each              *)
(* (num_reachable_blocks is "Equivalent to cfg.rpo().len()"), entry first, *)
(* "a block always appears before any block it dominates", and each block  *)
(* after the entry has a predecessor before it.                            *)
OrderIsReverse ==
  Ordered =>
    /\ ToSet(rpo) = reachable /\ reachable = Reachable(g)
    /\ Len(rpo) = Cardinality(reachable)
    /\ rpo[1] = 1
    /\ \A i, j \in 1..Len(rpo) : StrictlyDominates(g, rpo[i], rpo[j]) => i < j
    /\ \A j \in 2..Len(rpo) : \E i \in 1..(j - 1) : rpo[j] \in ToSet(g[rpo[i]])
=============================================================================
