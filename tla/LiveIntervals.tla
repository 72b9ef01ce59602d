---------------------------- MODULE LiveIntervals ----------------------------
(***************************************************************************)
(* compute_live_intervals of llvm-codegen/src/regalloc.rs: one scan over   *)
(* the flat instruction order, a depth-first search from the entry block   *)
(* that collects the back edges, and the extension of the intervals round  *)
(* the loops, repeated until nothing changes.                              *)
(***************************************************************************)
EXTENDS MachineCode

VARIABLES
  mf,         \* the machine function
  phase,      \* "scan", "dfs", "extend" or "done"
  interval,   \* the interval [start, end) of every register
  color,      \* "white", "gray" or "black", per block
  stack,      \* the search stack: [blk, next], next indexing the targets
  backEdges,  \* the back edges found, in order
  edge,       \* the back edge the current round is at
  changed     \* whether the round extended an interval

liveVars == <<mf, phase, interval, color, stack, backEdges, edge, changed>>

BlkIds == 1..Len(mf)
TargetSeq(b) == FlattenSeq([i \in 1..Len(mf[b]) |-> mf[b][i].to])

-----------------------------------------------------------------------------
HasBackwardBranch == \E b \in BlkIds : \E t \in BlkSuccs(mf, b) : t < b

(* The state from which the intervals of machine function m are computed.  *)
Recompute(m) ==
  /\ mf' = m /\ phase' = "scan"
  /\ interval' = <<>> /\ color' = <<>> /\ stack' = <<>> /\ backEdges' = <<>>
  /\ edge' = 0 /\ changed' = FALSE

Scan ==
  /\ phase = "scan"
  /\ interval' = [v \in Registers(mf) |-> ScanInterval(Flat(mf), v)]
  /\ IF HasBackwardBranch
     THEN /\ phase' = "dfs"
          /\ color' = [b \in BlkIds |-> IF b = 1 THEN "gray" ELSE "white"]
          /\ stack' = <<[blk |-> 1, next |-> 1]>>
     ELSE phase' = "done" /\ UNCHANGED <<color, stack>>
  /\ backEdges' = <<>> /\ edge' = 0 /\ changed' = FALSE
  /\ UNCHANGED mf

-----------------------------------------------------------------------------
(* Mutant: an edge to any block seen before counts as a back edge.         *)
Visit_Seen ==
  /\ phase = "dfs" /\ stack # <<>>
  /\ LET top == Last(stack)
         t == TargetSeq(top.blk)[top.next]
         advanced == [stack EXCEPT ![Len(stack)].next = @ + 1]
     IN  /\ top.next <= Len(TargetSeq(top.blk))
         /\ IF t \in BlkIds /\ color[t] = "white"
            THEN /\ color' = [color EXCEPT ![t] = "gray"]
                 /\ stack' = Append(advanced, [blk |-> t, next |-> 1])
            ELSE UNCHANGED color /\ stack' = advanced
         /\ backEdges' = IF t \in BlkIds /\ color[t] # "white" THEN Append(backEdges, <<top.blk, t>>)
                         ELSE backEdges
  /\ UNCHANGED <<mf, phase, interval, edge, changed>>

(* One branch target of the block on top of the stack.                     *)
Visit ==
  /\ phase = "dfs" /\ stack # <<>>
  /\ LET top == Last(stack)
         t == TargetSeq(top.blk)[top.next]
         advanced == [stack EXCEPT ![Len(stack)].next = @ + 1]
     IN  /\ top.next <= Len(TargetSeq(top.blk))
         /\ IF t \in BlkIds /\ color[t] = "white"
            THEN /\ color' = [color EXCEPT ![t] = "gray"]
                 /\ stack' = Append(advanced, [blk |-> t, next |-> 1])
            ELSE UNCHANGED color /\ stack' = advanced
         /\ backEdges' = IF t \in BlkIds /\ color[t] = "gray" THEN Append(backEdges, <<top.blk, t>>)
                         ELSE backEdges
  /\ UNCHANGED <<mf, phase, interval, edge, changed>>

(* The block on top of the stack has no target left.                       *)
Finish ==
  /\ phase = "dfs" /\ stack # <<>>
  /\ Last(stack).next > Len(TargetSeq(Last(stack).blk))
  /\ color' = [color EXCEPT ![Last(stack).blk] = "black"]
  /\ stack' = Front(stack)
  /\ UNCHANGED <<mf, phase, interval, backEdges, edge, changed>>

StartExtend ==
  /\ phase = "dfs" /\ stack = <<>>
  /\ phase' = IF backEdges = <<>> THEN "done" ELSE "extend"
  /\ edge' = 1
  /\ UNCHANGED <<mf, interval, color, stack, backEdges, changed>>

-----------------------------------------------------------------------------
(* Mutants: an interval is extended whether or not it gets longer; only a  *)
(* register live out of the loop's own blocks counts.                      *)
LiveRound_Again(v, from, to) ==
  /\ v \notin {mf[from][i].dst : i \in 1..Len(mf[from])}
  /\ interval[v].start < BlkStart(mf, to) /\ interval[v].end > BlkStart(mf, to)

LiveRound_PastHeader(v, from, to) ==
  /\ v \notin {mf[from][i].dst : i \in 1..Len(mf[from])}
  /\ interval[v].start < BlkStart(mf, to) /\ interval[v].end > BlkEnd(mf, to)
  /\ interval[v].end < BlkEnd(mf, from)

(* The registers to extend for the back edge from -> to: not defined in    *)
(* the source block, started before the header and reaching into it.       *)
LiveRound(v, from, to) ==
  /\ v \notin {mf[from][i].dst : i \in 1..Len(mf[from])}
  /\ interval[v].start < BlkStart(mf, to) /\ interval[v].end > BlkStart(mf, to)
  /\ interval[v].end < BlkEnd(mf, from)

(* One back edge of the round.                                             *)
Extend ==
  /\ phase = "extend" /\ edge <= Len(backEdges)
  /\ LET from == backEdges[edge][1]
         to == backEdges[edge][2]
         longer == {v \in DOMAIN interval : LiveRound(v, from, to)}
     IN  /\ interval' = [v \in DOMAIN interval |->
                           IF v \in longer THEN [interval[v] EXCEPT !.end = BlkEnd(mf, from)]
                           ELSE interval[v]]
         /\ changed' = (changed \/ longer # {})
  /\ edge' = edge + 1
  /\ UNCHANGED <<mf, phase, color, stack, backEdges>>

(* The end of a round: another one while something changed.                *)
EndRound ==
  /\ phase = "extend" /\ edge > Len(backEdges)
  /\ phase' = IF changed THEN "extend" ELSE "done"
  /\ edge' = 1
  /\ changed' = FALSE
  /\ UNCHANGED <<mf, interval, color, stack, backEdges>>

Compute == Scan \/ Visit \/ Finish \/ StartExtend \/ Extend \/ EndRound

-----------------------------------------------------------------------------
BranchEdges == {e \in BlkIds \X BlkIds : e[2] \in BlkSuccs(mf, e[1])}
CodeEdges == {e \in BranchEdges : color[e[1]] = "black"}

(* t can be reached from b: every set closed under the edges that has b has*)
(* t.  No cycle: every set of blocks has one with no edge into the set.    *)
Reaches(edges, b, t) ==
  \A S \in SUBSET BlkIds :
    (b \in S /\ \A e \in edges : e[1] \in S => e[2] \in S) => t \in S

Acyclic(edges) ==
  \A S \in (SUBSET BlkIds) \ {{}} : \E b \in S : \A t \in S : <<b, t>> \notin edges

(* Whenever the back edges are used, or the intervals returned without any,*)
(* they are the loops of the code ("This correctly ignores forward edges   *)
(* from CondBr trampolines").  If some block branches to an earlier one,   *)
(* each back edge lies on a cycle and without them the code reached from   *)
(* the entry has none left.  If none does ("loop-free functions") nothing  *)
(* is searched, and a cycle is at most a block that branches to itself:    *)
(* such a cycle is missed, because the test is on t < bi.  Edges of the    *)
(* unwinder are not branches and are not looked at.                        *)
BackEdgesAreLoops ==
  phase \in {"extend", "done"} =>
    LET edges == IF HasBackwardBranch THEN CodeEdges ELSE {e \in BranchEdges : e[1] # e[2]}
    IN  /\ \A e \in ToSet(backEdges) : e \in edges /\ Reaches(edges, e[2], e[1])
        /\ Acyclic(edges \ ToSet(backEdges))

(* What a register allocator needs of intervals: an instruction that       *)
(* writes register w while register v holds a value still to be read       *)
(* finds the two intervals overlapping, so that they are kept apart.       *)
WritesMeetLive ==
  phase = "done" =>
    LET code == Flat(mf)
        flow == Flow(mf)
    IN  \A v \in DOMAIN interval :
          \A p \in LiveAfter(code, flow, v) :
            LET w == code[p].dst
            IN  w \notin {v, NoReg} =>
                  /\ interval[v].start < interval[w].end
                  /\ interval[w].start < interval[v].end
=============================================================================
