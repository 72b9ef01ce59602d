-------------------------------- MODULE Isel --------------------------------
(***************************************************************************)
(* Instruction selection of llvm-target-x86/src/lower.rs as far as control *)
(* flow and phi destruction go: lower_function, lower_terminator,          *)
(* emit_phi_copies and resolve, as operators from an IR function to its    *)
(* machine code.  The other targets destroy phis the same way.             *)
(*                                                                         *)
(* An IR function f has blocks 1..n in layout order, block 1 the entry:    *)
(*   f.phis[b]   its phis: [dst, inc], inc giving the value per predecessor*)
(*   f.defs[b]   the values its other instructions define, in order        *)
(*   f.reads[b]  the values its other instructions read, in order          *)
(*   f.kind[b], f.succs[b]  the terminator and its targets                 *)
(*   f.operand[b]  the condition of a condbr, the value of a switch, the   *)
(*                 result of an invoke, NoValue when there is none         *)
(***************************************************************************)
EXTENDS MachineCode

CONSTANTS
  Consts      \* the IR values that are constants

Blocks(g) == 1..Len(g.succs)
NoValue == "-"
PhiDsts(g, b) == {g.phis[b][i].dst : i \in 1..Len(g.phis[b])}

(* What the parser, the builders and the verifier leave of a function: it  *)
(* has blocks and its branches go to them.  An invoke lists its unwind     *)
(* destination first, a catchswitch its handlers and then its default; a   *)
(* cleanupret with a destination is as a catchret.  What has no successor  *)
(* is called ret here: ret, unreachable, resume, and the catchswitch and   *)
(* the cleanupret that go on to the caller.  For all but ret the code has  *)
(* a NOP as a placeholder, behind which nothing is said to follow.         *)
WellFormed(g) ==
  /\ IsList(g.succs) /\ g.succs # <<>>
  /\ \A b \in Blocks(g) :
       /\ IsList(g.succs[b]) /\ ToSet(g.succs[b]) \subseteq Blocks(g)
       /\ g.kind[b] \in {"br", "condbr", "switch", "invoke", "catchret", "catchswitch", "ret"}
       /\ (g.kind[b] = "ret") = (g.succs[b] = <<>>)
       /\ g.kind[b] \in {"condbr", "invoke"} => Len(g.succs[b]) = 2
       /\ IsList(g.phis[b]) /\ IsList(g.defs[b]) /\ IsList(g.reads[b])

-----------------------------------------------------------------------------
(* resolve, for a value that is not a constant, while block b is lowered.  *)
(* Phis have registers from the start and a block's own definitions come   *)
(* before its reads; a value of a block lowered later is not in vmap yet   *)
(* and gets a placeholder register that its definition does not reuse.     *)
Resolve(g, b, x) ==
  IF \E c \in Blocks(g) : \/ x \in PhiDsts(g, c)
                          \/ c <= b /\ x \in ToSet(g.defs[c])
                          \/ c <= b /\ g.kind[c] = "invoke" /\ x = g.operand[c]
  THEN <<"value", x>> ELSE <<"placeholder", x>>

(* emit_phi_copies: the phis of dest with an entry for src, whose source   *)
(* is not already their register; sources resolved first (a constant gets  *)
(* a fresh register at each use), then all sources snapshot into           *)
(* temporaries, then all destinations written.  at and k name the edge, so *)
(* that fresh registers are fresh.                                         *)
Copied(g, src, dest) ==
  Kept(g.phis[dest], {p \in ToSet(g.phis[dest]) : src \in DOMAIN p.inc /\ p.inc[src] # p.dst})
Incoming(g, src, dest, i) == Copied(g, src, dest)[i].inc[src]
PhiSource(g, src, at, k, dest, i) ==
  IF Incoming(g, src, dest, i) \in Consts THEN <<"const", at, k, i>>
                                          ELSE Resolve(g, src, Incoming(g, src, dest, i))

(* Mutant: the copies are emitted one after the other, without temporaries.*)
EmitPhiCopies_OnePass(g, src, at, k, dest) ==
  LET phis == Copied(g, src, dest)
  IN  [i \in 1..Len(phis) |->
         IF phis[i].inc[src] \in Consts
         THEN Imm(<<"value", phis[i].dst>>, phis[i].inc[src])
         ELSE Mov(<<"value", phis[i].dst>>, Resolve(g, src, phis[i].inc[src]))]

ConstPhis(g, src, dest) ==
  Kept([i \in 1..Len(Copied(g, src, dest)) |-> i],
       {i \in 1..Len(Copied(g, src, dest)) : Incoming(g, src, dest, i) \in Consts})
LoadConsts(g, src, at, k, dest) ==
  LET consts == ConstPhis(g, src, dest)
  IN  [j \in 1..Len(consts) |-> Imm(PhiSource(g, src, at, k, dest, consts[j]),
                                    Incoming(g, src, dest, consts[j]))]
Snapshot(g, src, at, k, dest) ==
  [i \in 1..Len(Copied(g, src, dest)) |->
     Mov(<<"tmp", at, k, i>>, PhiSource(g, src, at, k, dest, i))]
WritePhis(g, src, at, k, dest) ==
  [i \in 1..Len(Copied(g, src, dest)) |->
     Mov(<<"value", Copied(g, src, dest)[i].dst>>, <<"tmp", at, k, i>>)]
EmitPhiCopies(g, src, at, k, dest) ==
  LoadConsts(g, src, at, k, dest) \o Snapshot(g, src, at, k, dest) \o WritePhis(g, src, at, k, dest)

(* Mutant: one trampoline for every CondBr, shared by its two edges.       *)
EdgeBlock_OnePerBranch(g, b, k) ==
  Len(g.succs) + Cardinality({c \in 1..(b - 1) : g.kind[c] = "condbr"}) + 1

(* The machine blocks CondBr appends, two per CondBr in layout order: the  *)
(* edge to the k-th successor of b.                                        *)
EdgeBlock(g, b, k) ==
  Len(g.succs) + 2 * Cardinality({c \in 1..(b - 1) : g.kind[c] = "condbr"}) + k

(* lower_terminator: what runs before the jump of each edge, and where that*)
(* goes.  Switch copies, compares and branches case after case in the      *)
(* source block, its default last.  Control unwinds out of the call of an  *)
(* invoke, before its result is moved.  Catchret jumps, and catchswitch    *)
(* jumps to its first successor, whichever handler would match: its other  *)
(* edges are not lowered.  None of these three has phi copies.             *)
ExitCode(g, b, k) ==
  LET copies == EmitPhiCopies(g, b, b, k, g.succs[b][k])
      operand == Resolve(g, b, g.operand[b])
      last == k = Len(g.succs[b])
      result == IF g.operand[b] = NoValue THEN <<>> ELSE <<Def(operand, g.operand[b])>>
  IN  CASE g.kind[b] = "br"       -> copies
        [] g.kind[b] = "condbr"   -> IF k = 1 THEN <<Use(<<operand>>)>> ELSE <<>>
        [] g.kind[b] = "switch"   -> copies \o (IF last THEN <<>> ELSE <<Use(<<operand>>)>>)
        [] g.kind[b] = "invoke"   -> IF k = 1 THEN <<>> ELSE result \o copies
        [] g.kind[b] \in {"catchret", "catchswitch"} -> <<>>
ExitTo(g, b, k) == IF g.kind[b] = "condbr" THEN EdgeBlock(g, b, k) ELSE g.succs[b][k]
Leave(g, b, k) ==
  IF g.kind[b] = "invoke" /\ k = 1 THEN Call(ExitTo(g, b, k)) ELSE Jump(ExitTo(g, b, k))
LoweredEdges(g, b) == 1..(IF g.kind[b] = "catchswitch" THEN 1 ELSE Len(g.succs[b]))
Exits(g, b) == [k \in LoweredEdges(g, b) |-> Append(ExitCode(g, b, k), Leave(g, b, k))]

LowerTerminator(g, b) == IF g.kind[b] = "ret" THEN <<Use(<<>>)>> ELSE FlattenSeq(Exits(g, b))

(* The trampoline block of one CondBr edge.                                *)
LowerEdge(g, b, k) ==
  Append(EmitPhiCopies(g, b, EdgeBlock(g, b, k), k, g.succs[b][k]), Jump(g.succs[b][k]))
EdgeBlocks(g, b) == IF g.kind[b] = "condbr" THEN <<LowerEdge(g, b, 1), LowerEdge(g, b, 2)>> ELSE <<>>

(* lower_function: one machine block per IR block, then the trampolines.   *)
Body(g, b) ==
  [i \in 1..Len(g.defs[b]) |-> Def(Resolve(g, b, g.defs[b][i]), g.defs[b][i])]
    \o <<Use([i \in 1..Len(g.reads[b]) |-> Resolve(g, b, g.reads[b][i])])>>
LowerBlock(g, b) == Body(g, b) \o LowerTerminator(g, b)
LowerFunction(g) ==
  [b \in Blocks(g) |-> LowerBlock(g, b)] \o FlattenSeq([b \in Blocks(g) |-> EdgeBlocks(g, b)])
=============================================================================
