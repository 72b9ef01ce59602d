-------------------------------- MODULE Loops --------------------------------
(***************************************************************************)
(* LoopInfo::compute of llvm-analysis/src/loops.rs: back edges by a search *)
(* from the entry, one natural loop per back edge collected backwards from *)
(* its tail, nesting, and the depth query, on the Cfg and the DomTree of   *)
(* the same function.                                                      *)
(***************************************************************************)
EXTENDS DomTree

VARIABLES
  seen,       \* the blocks find_back_edges has visited
  stack,      \* the blocks it still has to look at
  backEdges,  \* the back edges <<tail, header>>, in order
  loops,      \* the loops: [header, body, parent], parent 0 for None
  body,       \* the body being collected
  queue,      \* its blocks whose predecessors are still to be added
  blk,        \* depth's argument
  at,         \* the loop depth is at, 0 before it starts
  depth       \* its count

loopVars == <<seen, stack, backEdges, loops, body, queue, blk, at, depth>>
vars == <<domAll, loopVars>>

(* What the loop analysis only reads.                                      *)
fixed == <<g, todo, reachable, calls, visited, order, domVars>>

Init ==
  /\ DomInit
  /\ seen = {} /\ stack = <<1>> /\ backEdges = <<>>
  /\ loops = <<>> /\ body = {} /\ queue = <<>>
  /\ blk = 0 /\ at = 0 /\ depth = 0

StartSearch ==
  /\ phase = "tree"
  /\ phase' = "search"
  /\ UNCHANGED <<fixed, loopVars>>

(* find_back_edges: one block off the stack.  An edge is a back edge when  *)
(* its target dominates its source, else its target is searched.           *)
Search ==
  /\ phase = "search" /\ stack # <<>>
  /\ LET b == Last(stack)
         heads == {h \in ToSet(Successors(g, b)) : TreeDominates(h, b)}
         back == Kept(Successors(g, b), heads)
     IN  IF b \in seen
         THEN stack' = Front(stack) /\ UNCHANGED <<seen, backEdges>>
         ELSE /\ seen' = seen \cup {b}
              /\ backEdges' = backEdges \o [i \in 1..Len(back) |-> <<b, back[i]>>]
              /\ stack' = Front(stack) \o Kept(Successors(g, b), Blocks(g) \ heads)
  /\ UNCHANGED <<fixed, phase, loops, body, queue, blk, at, depth>>

(* Mutant: the header is not put into the body first.                      *)
StartBody_TailOnly(e) == {e[1]}

(* collect_loop_body starts from the tail; the header stops the walk.      *)
StartBody(e) == {e[1], e[2]}

StartCollect ==
  /\ phase = "search" /\ stack = <<>>
  /\ phase' = IF backEdges = <<>> THEN "query" ELSE "collect"
  /\ IF backEdges = <<>> THEN UNCHANGED <<body, queue>>
     ELSE /\ body' = StartBody(Head(backEdges))
          /\ queue' = IF Head(backEdges)[1] = Head(backEdges)[2] THEN <<>>
                      ELSE <<Head(backEdges)[1]>>
  /\ UNCHANGED <<fixed, seen, stack, backEdges, loops, blk, at, depth>>

(* One block off the queue: its predecessors not yet in the body join.     *)
Collect ==
  /\ phase = "collect" /\ queue # <<>>
  /\ LET new == ToSet(Predecessors(g, Head(queue))) \ body
     IN  /\ body' = body \cup new
         /\ queue' = Tail(queue) \o Kept([b \in 1..Len(g) |-> b], new)
  /\ UNCHANGED <<fixed, phase, seen, stack, backEdges, loops, blk, at, depth>>

(* The loop of one back edge is complete; the next one follows.            *)
EndLoop ==
  /\ phase = "collect" /\ queue = <<>>
  /\ LET n == Len(loops) + 1
         lp == [header |-> backEdges[n][2], body |-> body, parent |-> 0]
     IN  /\ loops' = Append(loops, lp)
         /\ IF n = Len(backEdges) THEN phase' = "nest" /\ UNCHANGED <<body, queue>>
            ELSE LET e == backEdges[n + 1]
                 IN  /\ body' = StartBody(e)
                     /\ queue' = IF e[1] = e[2] THEN <<>> ELSE <<e[1]>>
                     /\ UNCHANGED phase
  /\ UNCHANGED <<fixed, seen, stack, backEdges, blk, at, depth>>

(* Mutants: the first loop that contains the header is the parent; a loop  *)
(* may be its own parent.                                                  *)
Parent_Outermost(ls, i) ==
  LET around == {j \in 1..Len(ls) : j # i /\ ls[i].header \in ls[j].body}
  IN  IF around = {} THEN 0 ELSE Min(around)

Parent_Itself(ls, i) ==
  LET around == {j \in 1..Len(ls) : ls[i].header \in ls[j].body}
      size(j) == Cardinality(ls[j].body)
  IN  IF around = {} THEN 0
      ELSE Min({j \in around : \A m \in around : size(j) <= size(m)})

(* The parent of the i-th loop: the first of the smallest other loops whose*)
(* body contains its header.                                               *)
Parent(ls, i) ==
  LET around == {j \in 1..Len(ls) : j # i /\ ls[i].header \in ls[j].body}
      size(j) == Cardinality(ls[j].body)
  IN  IF around = {} THEN 0
      ELSE Min({j \in around : \A m \in around : size(j) <= size(m)})

(* Loops sorted by size, largest first (the sort is stable), then parents. *)
SortsBefore(i, j) ==
  LET size(n) == Cardinality(loops[n].body)
  IN  size(i) > size(j) \/ (size(i) = size(j) /\ i < j)

Nest ==
  /\ phase = "nest"
  /\ \E p \in Bijection(1..Len(loops), 1..Len(loops)) :
       /\ \A i, j \in 1..Len(loops) : i < j => SortsBefore(p[i], p[j])
       /\ LET sorted == [i \in 1..Len(loops) |-> loops[p[i]]]
          IN  loops' = [i \in 1..Len(loops) |-> [sorted[i] EXCEPT !.parent = Parent(sorted, i)]]
  /\ phase' = "query"
  /\ UNCHANGED <<fixed, seen, stack, backEdges, body, queue, blk, at, depth>>

-----------------------------------------------------------------------------
(* block_loop: the first loop with the smallest body that contains b.      *)
LoopOf(b) ==
  LET around == {i \in 1..Len(loops) : b \in loops[i].body}
      size(i) == Cardinality(loops[i].body)
  IN  IF around = {} THEN 0
      ELSE Min({i \in around : \A j \in around : size(i) <= size(j)})

(* depth is asked about a block.                                           *)
Query(b) ==
  /\ phase = "query" /\ blk = 0
  /\ blk' = b
  /\ at' = LoopOf(b)
  /\ depth' = IF LoopOf(b) = 0 THEN 0 ELSE 1
  /\ phase' = IF LoopOf(b) = 0 THEN "done" ELSE "query"
  /\ UNCHANGED <<fixed, seen, stack, backEdges, loops, body, queue>>

(* It walks from parent to parent.  Bound: the count stops one past the    *)
(* number of loops.                                                        *)
Climb ==
  /\ phase = "query" /\ blk # 0
  /\ IF loops[at].parent = 0 THEN phase' = "done" /\ UNCHANGED <<at, depth>>
     ELSE /\ at' = loops[at].parent
          /\ depth' = IF depth > Len(loops) THEN depth ELSE depth + 1
          /\ UNCHANGED phase
  /\ UNCHANGED <<fixed, seen, stack, backEdges, loops, body, queue, blk>>

Done == phase = "done" /\ UNCHANGED vars

Next ==
  \/ DomNext /\ UNCHANGED loopVars
  \/ StartSearch \/ Search \/ StartCollect \/ Collect \/ EndLoop \/ Nest
  \/ \E b \in Blocks(g) : Query(b)
  \/ Climb \/ Done

(* The analyses are sequential: they run until they return.                *)
Spec == Init /\ [][Next]_vars /\ WF_vars(Next)

-----------------------------------------------------------------------------
Analysed == phase \in {"query", "done"}
Live(i) == loops[i].body \cap Reachable(g)

(* Loops are natural.  A header dominates the reachable blocks of the body;*)
(* one of them branches back to it; and control in any part of the body    *)
(* without the header can get on to the rest of the body.                  *)
HeaderDominates ==
  Analysed =>
    \A i \in 1..Len(loops) :
      /\ \A b \in Live(i) : Dominates(g, loops[i].header, b)
      /\ \E t \in Live(i) : loops[i].header \in ToSet(g[t])
      /\ \A S \in SUBSET (Live(i) \ {loops[i].header}) :
           S # {} => \E c \in S : ToSet(g[c]) \cap (Live(i) \ S) # {}

(* "Nesting depth of bid (0 = not in a loop, 1 = outermost loop, ...)":    *)
(* depth counts the loops around the block.  A block nothing reaches can   *)
(* lie in loops that do not nest; only one of them is counted then.        *)
DepthCounts ==
  phase = "done" /\ blk \in Reachable(g) =>
    depth = Cardinality({i \in 1..Len(loops) : blk \in loops[i].body})

(* Every analysis and every query comes to an end.                         *)
Answers == <>(phase = "done")

(* As long as no header has two back edges: with two, their loops are each *)
(* other's parent.                                                         *)
SharedHeader ==
  \E i, j \in 1..Len(loops) : i # j /\ loops[i].header = loops[j].header

AnswersUnlessShared == <>(phase = "done" \/ SharedHeader)
=============================================================================
