----------------------------- MODULE MachineCode -----------------------------
(***************************************************************************)
(* The machine IR of llvm-codegen/src/isel.rs, as far as register          *)
(* allocation and phi destruction read it: a function is a sequence of     *)
(* blocks, a block a sequence of instructions, an instruction at most one  *)
(* destination, its source registers and its branch targets (MOperand::    *)
(* Block).  Opcodes matter only by what they do to a register:             *)
(*   "mov"   the destination receives the source                           *)
(*   "def"   the destination receives a new value                          *)
(*   "imm"   the destination receives the constant in val                  *)
(*   "alu"   the destination is combined with the source in place          *)
(*   "use"   the sources are read                                          *)
(*   "leave" control may leave the block for block val: a branch, which    *)
(*           names it as its operand, or a call that may unwind, which does*)
(*           not (the edge is in invoke_tracking, for the tables alone)    *)
(***************************************************************************)
EXTENDS Lists

(* A register is a tuple: its origin and what tells it from others.        *)
NoReg == <<>>

(* MInstr, with the builder methods with_dst, with_vreg and with_block.    *)
MInstr(op, dst, srcs, to, val) ==
  [op |-> op, dst |-> dst, srcs |-> srcs, to |-> to, val |-> val]

Mov(dst, src) == MInstr("mov", dst, <<src>>, <<>>, dst)
Def(dst, val) == MInstr("def", dst, <<>>, <<>>, val)
Imm(dst, val) == MInstr("imm", dst, <<>>, <<>>, val)
Alu(dst, src) == MInstr("alu", dst, <<src>>, <<>>, dst)
Use(srcs)     == MInstr("use", NoReg, srcs, <<>>, NoReg)
Jump(to)      == MInstr("leave", NoReg, <<>>, <<to>>, to)
Call(unwind)  == MInstr("leave", NoReg, <<>>, <<>>, unwind)

(* Machine instructions and functions, whatever their registers.           *)
IsInstr(in) ==
  in = MInstr(in.op, in.dst, in.srcs, in.to, in.val) /\ IsList(in.srcs) /\ IsList(in.to)
IsMachine(m) == IsList(m) /\ \A b \in DOMAIN m : IsList(m[b]) /\ \A i \in DOMAIN m[b] : IsInstr(m[b][i])

Uses(in) == ToSet(in.srcs)
Targets(in) == ToSet(in.to)

(* The flat instruction order of compute_live_intervals: blocks            *)
(* concatenated in layout order.  Positions count from 1.                  *)
Flat(mf) == FlattenSeq(mf)
BlkStart(mf, b) ==
  LET start[c \in 1..Len(mf)] == IF c = 1 THEN 1 ELSE start[c - 1] + Len(mf[c - 1])
  IN  start[b]
BlkEnd(mf, b) == BlkStart(mf, b) + Len(mf[b])

Registers(mf) ==
  LET code == Flat(mf)
  IN  UNION {Uses(code[p]) \cup ({code[p].dst} \ {NoReg}) : p \in 1..Len(code)}

(* The interval the scan of compute_live_intervals gives register v: from  *)
(* the first position that names it to one past the last.                  *)
ScanInterval(code, v) ==
  LET at == {p \in 1..Len(code) : v = code[p].dst \/ v \in Uses(code[p])}
  IN  [start |-> Min(at), end |-> 1 + Max(at)]

(* Successors of block b: every branch target among its instructions.      *)
BlkSuccs(mf, b) == UNION {Targets(mf[b][i]) : i \in 1..Len(mf[b])}

-----------------------------------------------------------------------------
(* What liveness is: register v is live after position p when some path    *)
(* of the control flow from there reads v before writing it.               *)

(* The pairs <<p, q>> where position q may execute right after p.  A block *)
(* ends with a jump or with the end of the function.  Unlike BlkSuccs this *)
(* has the edges of the unwinder.                                          *)
Flow(mf) ==
  LET start == [b \in 1..Len(mf) |-> BlkStart(mf, b)]
      at(b, i) == start[b] + i - 1
      next(b, i) == (IF mf[b][i].op = "leave" THEN {<<at(b, i), start[mf[b][i].val]>>} ELSE {}) \cup
                    (IF i < Len(mf[b]) THEN {<<at(b, i), at(b, i) + 1>>} ELSE {})
  IN  UNION {UNION {next(b, i) : i \in 1..Len(mf[b])} : b \in 1..Len(mf)}

(* An in-place instruction reads its destination too.                      *)
Reads(in) == Uses(in) \cup (IF in.op = "alu" THEN {in.dst} ELSE {})

(* The positions before which v is live: the least fixpoint, reached in at *)
(* most one round per position.                                            *)
LiveBefore(code, flow, v) ==
  LET use == {p \in 1..Len(code) : v \in Reads(code[p])}
      pass == {e \in flow : code[e[1]].dst # v}
      round[n \in 0..Len(code)] ==
        IF n = 0 THEN use
        ELSE LET before == round[n - 1]
             IN  before \cup {e[1] : e \in {d \in pass : d[2] \in before}}
  IN  round[Len(code)]

(* The positions after which v is live.                                    *)
LiveAfter(code, flow, v) ==
  LET before == LiveBefore(code, flow, v)
  IN  {e[1] : e \in {d \in flow : d[2] \in before}}
=============================================================================
