------------------------------ MODULE GraphColor -----------------------------
(***************************************************************************)
(* graph_color of llvm-codegen/src/regalloc_gc.rs: one step per iteration  *)
(* of the simplify loop and of the select loop.                            *)
(*                                                                         *)
(* The work graph is the interference graph restricted to the nodes that   *)
(* are left, so only its node set is kept.  Select takes any register that *)
(* is not forbidden: the pool's order decides only which.                  *)
(***************************************************************************)
EXTENDS Intervals, Sequences

VARIABLES
  iv,         \* the live intervals (input)
  pool,       \* allocatable (input); k is how many there are
  phase,      \* "simplify", then "select", then "done"
  work,       \* work: the nodes not yet removed
  stack,      \* stack: the removed nodes, last removed on top
  potential,  \* potential_spills
  asg,        \* assigned (None: no entry)
  spilled     \* spilled

vars == <<iv, pool, phase, work, stack, potential, asg, spilled>>

Init ==
  /\ iv \in [VReg -> LiveInterval]
  /\ pool \in SUBSET PReg
  /\ phase = "simplify"
  /\ work = VReg
  /\ stack = <<>>
  /\ potential = {}
  /\ asg = [v \in VReg |-> None]
  /\ spilled = {}

(* Mutant: intervals that only touch interfere.                            *)
Neighbours_Touching(v, W) ==
  {u \in W : u # v /\ iv[u].start <= iv[v].end /\ iv[v].start <= iv[u].end}

(* The neighbours of v in the interference graph, within W.                *)
Neighbours(v, W) == {u \in W : u # v /\ Overlaps(iv[u], iv[v])}
Degree(v, W) == Cardinality(Neighbours(v, W))

(* Mutant: degree k still counts as low.                                   *)
LowDegree_K(W) == {v \in W : Degree(v, W) <= Cardinality(pool)}
LowDegree(W) == {v \in W : Degree(v, W) < Cardinality(pool)}

SpillCost(v) == iv[v].end - iv[v].start

(* The keys of the two min_by_key calls.                                   *)
LowerDegree(u, v) ==
  \/ Degree(u, work) < Degree(v, work)
  \/ Degree(u, work) = Degree(v, work) /\ u < v

CheaperSpill(u, v) ==
  \/ SpillCost(u) < SpillCost(v)
  \/ SpillCost(u) = SpillCost(v) /\ Degree(u, work) > Degree(v, work)
  \/ SpillCost(u) = SpillCost(v) /\ Degree(u, work) = Degree(v, work) /\ u < v

RemoveNode(v) ==
  /\ work' = work \ {v}
  /\ stack' = Append(stack, v)
  /\ UNCHANGED <<iv, pool, phase, asg, spilled>>

(* A node of degree below k is removed: it is certain to get a register.   *)
SimplifyLow(v) ==
  /\ pool # {} /\ phase = "simplify"
  /\ v \in LowDegree(work)
  /\ \A u \in LowDegree(work) \ {v} : LowerDegree(v, u)
  /\ RemoveNode(v)
  /\ UNCHANGED potential

(* There is none: the cheapest node is removed as a potential spill.       *)
SimplifySpill(v) ==
  /\ pool # {} /\ phase = "simplify"
  /\ v \in work
  /\ LowDegree(work) = {}
  /\ \A u \in work \ {v} : CheaperSpill(v, u)
  /\ RemoveNode(v)
  /\ potential' = potential \cup {v}

StartSelect ==
  /\ pool # {} /\ phase = "simplify"
  /\ work = {}
  /\ phase' = "select"
  /\ UNCHANGED <<iv, pool, work, stack, potential, asg, spilled>>

Top == stack[Len(stack)]

(* Mutant: the stack loses its bottom instead of its top.                  *)
Pop_Bottom == stack' = Tail(stack)
Pop == stack' = SubSeq(stack, 1, Len(stack) - 1)

(* Mutant: the neighbours are looked up in the emptied work graph.         *)
Forbidden_Work(v) == {asg[u] : u \in Neighbours(v, work)} \ {None}
Forbidden(v) == {asg[u] : u \in Neighbours(v, VReg)} \ {None}

SelectAssign ==
  /\ phase = "select" /\ stack # <<>>
  /\ \E r \in pool \ Forbidden(Top) : asg' = [asg EXCEPT ![Top] = r]
  /\ Pop
  /\ UNCHANGED <<iv, pool, phase, work, potential, spilled>>

SelectSpill ==
  /\ phase = "select" /\ stack # <<>>
  /\ pool \subseteq Forbidden(Top)
  /\ spilled' = spilled \cup {Top}
  /\ Pop
  /\ UNCHANGED <<iv, pool, phase, work, potential, asg>>

(* Mutant: every potential spill is recorded, coloured or not.             *)
Finish_AllPotential ==
  /\ phase = "select" /\ stack = <<>>
  /\ phase' = "done"
  /\ spilled' = spilled \cup potential
  /\ UNCHANGED <<iv, pool, work, stack, potential, asg>>

(* Potential spills that were not assigned become actual spills.           *)
Finish ==
  /\ phase = "select" /\ stack = <<>>
  /\ phase' = "done"
  /\ spilled' = spilled \cup {v \in potential : asg[v] = None}
  /\ UNCHANGED <<iv, pool, work, stack, potential, asg>>

(* Mutant: the early return reports nothing as spilled.                    *)
SpillAll_Nothing ==
  /\ pool = {} /\ phase = "simplify" /\ phase' = "done"
  /\ UNCHANGED <<iv, pool, work, stack, potential, asg, spilled>>

(* The early return when the pool is empty.                                *)
SpillAll ==
  /\ pool = {} /\ phase = "simplify"
  /\ phase' = "done"
  /\ spilled' = VReg
  /\ UNCHANGED <<iv, pool, work, stack, potential, asg>>

Done == phase = "done" /\ UNCHANGED vars

Next ==
  \/ \E v \in VReg : SimplifyLow(v) \/ SimplifySpill(v)
  \/ StartSelect \/ SelectAssign \/ SelectSpill \/ Finish
  \/ SpillAll
  \/ Done

Spec == Init /\ [][Next]_vars

-----------------------------------------------------------------------------
OnStack == {stack[i] : i \in 1..Len(stack)}

TypeOK ==
  /\ iv \in [VReg -> LiveInterval]
  /\ pool \subseteq PReg
  /\ phase \in {"simplify", "select", "done"}
  /\ work \subseteq VReg
  /\ stack \in Seq(VReg)
  /\ potential \subseteq VReg
  /\ asg \in [VReg -> pool \cup {None}]
  /\ spilled \subseteq VReg

(* Two virtual registers whose live intervals overlap never hold the same  *)
(* physical register, although select colours optimistically.              *)
NoShare ==
  \A u, v \in VReg :
    (u # v /\ asg[u] # None /\ asg[u] = asg[v]) => ~Overlaps(iv[u], iv[v])

(* A node removed because its degree was below k always finds a register   *)
(* when it is popped: only potential spills are ever spilled.              *)
OnlyPotentialSpill == pool # {} => spilled \subseteq potential

(* The interference graph of intervals is chordal, so simplify finds a     *)
(* node of low degree as long as no position has more live intervals than  *)
(* there are registers: nothing is spilled without need.                   *)
SpillNeedsPressure ==
  spilled # {} => \E p \in 0..MaxPos : Pressure(iv, p) > Cardinality(pool)

(* When the allocator returns, every interval is assigned or spilled and   *)
(* none is both, which is what insert_spill_reloads relies on.             *)
Complete ==
  phase = "done" => \A v \in VReg : asg[v] # None <=> v \notin spilled

(* It implements the allocator's promise; simplify steps are stutters.     *)
Promise == INSTANCE RegAssign WITH iv <- iv, pool <- pool, asg <- asg, spilled <- spilled
KeepsPromise == Promise!Spec
=============================================================================
