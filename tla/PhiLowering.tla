----------------------------- MODULE PhiLowering -----------------------------
(***************************************************************************)
(* The meaning of Isel's output: a function is lowered, then the IR and    *)
(* the machine code run side by side, one IR block per step, over symbolic *)
(* values.  The path through the function is chosen freely.                *)
(***************************************************************************)
EXTENDS Isel

CONSTANTS
  Functions,  \* the IR functions considered
  MaxSteps    \* bound: how many blocks a run executes

VARIABLES
  f,        \* the IR function
  lowered,  \* its machine code (empty before lowering)
  blk,      \* the IR block being entered
  irEnv,    \* the value of every IR value, as the IR defines it
  regs,     \* the contents of every virtual register
  steps     \* blocks executed so far

lowerVars == <<f, lowered, blk, irEnv, regs, steps>>

-----------------------------------------------------------------------------
(* Values at run time: a constant <<k>>, or what the definition of x       *)
(* computed at time t, <<x, t>>.                                           *)
Undef == <<>>

(* One machine instruction at time t on the register contents r.           *)
Execute(r, in, t) ==
  CASE in.op = "mov" -> [r EXCEPT ![in.dst] = r[in.srcs[1]]]
    [] in.op = "imm" -> [r EXCEPT ![in.dst] = <<in.val>>]
    [] in.op = "def" -> [r EXCEPT ![in.dst] = <<in.val, t>>]
    [] OTHER -> r

(* The instructions of a block that run when control leaves by its k-th    *)
(* jump or unwinding call.                                                 *)
Jumps(code, i) == {j \in 1..i : code[j].op = "leave"}
JumpAt(code, k) ==
  CHOOSE i \in DOMAIN code : code[i].op = "leave" /\ Cardinality(Jumps(code, i)) = k
UpToJump(code, k) == SubSeq(code, 1, JumpAt(code, k))

Execution(r, code, t) ==
  LET after[n \in 0..Len(code)] == IF n = 0 THEN r ELSE Execute(after[n - 1], code[n], t)
  IN  after[Len(code)]

(* What runs when control leaves block b by its k-th edge: the block up to *)
(* that jump and, if the jump is to one, the trampoline.                   *)
EdgePath(b, k) ==
  LET path == UpToJump(lowered[b], k)
      to == Last(path).val
  IN  IF to \in Blocks(f) THEN path ELSE path \o lowered[to]

(* The IR's own meaning: the block's definitions (an invoke's result only  *)
(* on its normal edge), then all phis of the target at once.               *)
IRDefs(e, b, k, t) ==
  LET defs == ToSet(f.defs[b]) \cup
              (IF f.kind[b] = "invoke" /\ k = 2 THEN {f.operand[b]} \ {NoValue} ELSE {})
  IN  [x \in DOMAIN e |-> IF x \in defs THEN <<x, t>> ELSE e[x]]

IRPhis(e, b, d) ==
  LET phi(x) == f.phis[d][CHOOSE i \in 1..Len(f.phis[d]) : f.phis[d][i].dst = x]
  IN  [x \in DOMAIN e |-> IF x \in PhiDsts(f, d) THEN e[phi(x).inc[b]] ELSE e[x]]

Values(g) ==
  Consts \cup UNION {ToSet(g.defs[b]) \cup PhiDsts(g, b) \cup ({g.operand[b]} \ {NoValue})
                     : b \in Blocks(g)}

LowerInit ==
  /\ f \in Functions
  /\ lowered = <<>>
  /\ blk = 1
  /\ irEnv = [x \in Values(f) |-> IF x \in Consts THEN <<x>> ELSE Undef]
  /\ regs = <<>>
  /\ steps = 0

Lower ==
  /\ lowered = <<>>
  /\ lowered' = LowerFunction(f)
  /\ regs' = [v \in Registers(lowered') |-> Undef]
  /\ UNCHANGED <<f, blk, irEnv, steps>>

(* The block runs and control leaves by its k-th edge, one that is lowered.*)
Step(k) ==
  /\ lowered # <<>> /\ steps < MaxSteps
  /\ LET d == f.succs[blk][k]
     IN  /\ blk' = d
         /\ irEnv' = IRPhis(IRDefs(irEnv, blk, k, steps), blk, d)
  /\ regs' = Execution(regs, EdgePath(blk, k), steps)
  /\ steps' = steps + 1
  /\ UNCHANGED <<f, lowered>>

LowerDone ==
  /\ lowered # <<>>
  /\ steps = MaxSteps \/ f.succs[blk] = <<>>
  /\ UNCHANGED lowerVars

LowerNext == Lower \/ (\E k \in LoweredEdges(f, blk) : Step(k)) \/ LowerDone

-----------------------------------------------------------------------------
(* Every machine jump goes to a block that exists, every block ends in a   *)
(* jump or ends the function (no block falls into the next one), and the   *)
(* k-th edge of an IR block, through its trampoline or the unwinder if it  *)
(* goes there, arrives at the k-th successor.  Only the edges of a         *)
(* catchswitch behind its first are exempt: they are not lowered at all.   *)
EdgesArrive ==
  lowered # <<>> =>
    /\ \A b \in 1..Len(lowered) :
         /\ BlkSuccs(lowered, b) \subseteq 1..Len(lowered)
         /\ Targets(Last(lowered[b])) # {} \/ BlkSuccs(lowered, b) = {}
    /\ \A b \in Blocks(f) : \A k \in DOMAIN f.succs[b] :
         (f.kind[b] = "catchswitch" => k = 1) => Last(EdgePath(b, k)).val = f.succs[b][k]

(* What the registers say an operand of the block being entered is, and    *)
(* what the IR says it is.                                                 *)
OperandsAgree ==
  \A x \in ToSet(f.reads[blk]) \ (ToSet(f.defs[blk]) \cup Consts) :
    regs[Resolve(f, blk, x)] = irEnv[x]

(* A condition is tested after whatever the block does before its jumps.   *)
Tests(g, b) ==
  CASE g.kind[b] = "condbr" -> {1}
    [] g.kind[b] = "switch" -> 1..(Len(g.succs[b]) - 1)
    [] OTHER -> {}
ConditionAgrees ==
  \A k \in Tests(f, blk) :
    LET x == f.operand[blk]
    IN  Execution(regs, UpToJump(lowered[blk], k), steps)[Resolve(f, blk, x)] =
          IRDefs(irEnv, blk, k, steps)[x]

(* Machine code and IR agree on every operand the IR reads, on any path:   *)
(* the copies made for one edge never overwrite a value that another edge  *)
(* still needs, the copies of one edge do not overwrite each other's       *)
(* sources, and every phi receives the value of the edge taken             *)
(* (emit_phi_copies, "Correct parallel-copy lowering").                    *)
ReadsAgree == lowered # <<>> => OperandsAgree /\ ConditionAgrees

-----------------------------------------------------------------------------
(* What keeps ReadsAgree.  Every value read in b, or by a phi for an edge  *)
(* from b, has its register when b is lowered: blocks are laid out so that *)
(* a definition comes before its uses.                                     *)
Known(g, b, x) == x \in Values(g) /\ Resolve(g, b, x) = <<"value", x>>

KnownReads(g) ==
  \A b \in Blocks(g) :
    /\ \A x \in ToSet(g.reads[b]) \ Consts : Known(g, b, x)
    /\ \A k \in Tests(g, b) : g.operand[b] \notin Consts /\ Known(g, b, g.operand[b])
    /\ \A k \in DOMAIN g.succs[b] : \A p \in ToSet(g.phis[g.succs[b][k]]) :
         b \in DOMAIN p.inc /\ (p.inc[b] \in Consts \/ Known(g, b, p.inc[b]))

(* Constants are not assigned, and no block has two phis for one value.    *)
SingleAssignment(g) ==
  \A b \in Blocks(g) :
    /\ (ToSet(g.defs[b]) \cup PhiDsts(g, b) \cup {g.operand[b]}) \cap Consts = {}
    /\ \A p, q \in ToSet(g.phis[b]) : p.dst = q.dst => p = q

(* Only edges that have their copies to themselves need any: no case of a  *)
(* switch before its default, and no unwind edge, catchret or catchswitch. *)
OwnCopies(g, b, k) ==
  \/ g.kind[b] \in {"br", "switch"} /\ k = Len(g.succs[b])
  \/ g.kind[b] = "condbr"
  \/ g.kind[b] = "invoke" /\ k = 2

Destructible(g) ==
  /\ KnownReads(g) /\ SingleAssignment(g)
  /\ \A b \in Blocks(g) : \A k \in LoweredEdges(g, b) :
       OwnCopies(g, b, k) \/ Copied(g, b, g.succs[b][k]) = <<>>
=============================================================================
