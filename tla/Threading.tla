------------------------------ MODULE Threading ------------------------------
(***************************************************************************)
(* llvm-transforms/src/jump_threading.rs, which redirects branches whose   *)
(* outcome or whose target's target is known, and tailcall.rs, which marks *)
(* the calls whose result the function returns at once; and slp.rs:        *)
(* SlpWidth floating-point operations in a row, on operands loaded from    *)
(* neighbouring places, become one operation on vectors.  An "index"       *)
(* instruction is a getelementptr with one index.                          *)
(***************************************************************************)
EXTENDS Ir

CONSTANT SlpWidth  \* min_width of the vectorizer

BlockList(f) == [b \in DOMAIN f.blocks |-> b]
Taken(v, t) == IF v[2] # 0 THEN t.to[1] ELSE t.to[2]

(* Pass 1: a branch on a constant.                                         *)
FoldBranch(i) ==
  IF i.op = "condbr" /\ IsConst(i.args[1])
  THEN Instr("br", <<>>, <<Taken(i.args[1], i)>>) ELSE i

FoldBranches(f) ==
  LET terms == {f.blocks[b].term : b \in DOMAIN f.blocks}
      pool == [i \in DOMAIN f.pool |-> IF i \in terms THEN FoldBranch(f.pool[i]) ELSE f.pool[i]]
  IN  [f |-> [f EXCEPT !.pool = pool], changed |-> pool # f.pool]

(* Pass 2: block b branches on a phi of its own; a predecessor that gives  *)
(* it a constant goes where that leads.  Neither what else b computes nor  *)
(* the phis of the new target are looked at.                               *)
BranchPhi(f, b) ==
  LET t == f.pool[f.blocks[b].term]
  IN  IF /\ t.op = "condbr" /\ IsRes(t.args[1]) /\ t.args[1][2] \in ToSet(f.blocks[b].body)
         /\ f.pool[t.args[1][2]].op = "phi"
      THEN f.pool[t.args[1][2]] ELSE Instr("phi", <<>>, <<>>)

ThreadEdge(s, b, t, v, p) ==
  LET i == s.f.blocks[p].term
      new == [k \in DOMAIN s.f.pool[i].to |-> IF s.f.pool[i].to[k] = b THEN Taken(v, t)
                                              ELSE s.f.pool[i].to[k]]
  IN  IF ~IsConst(v) \/ s.f.pool[i].op \notin {"br", "condbr"} \/ new = s.f.pool[i].to THEN s
      ELSE [f |-> [s.f EXCEPT !.pool[i].to = new], changed |-> TRUE]

ThreadBlock(s, b) ==
  LET t == s.f.pool[s.f.blocks[b].term]
      phi == BranchPhi(s.f, b)
  IN  FoldLeft(LAMBDA u, k : ThreadEdge(u, b, t, phi.args[k], phi.to[k]), s,
               [k \in DOMAIN phi.to |-> k])

(* bypass_if_empty.                                                        *)
BypassIfEmpty(f, b) ==
  IF f.blocks[b].body = <<>> /\ f.pool[f.blocks[b].term].op = "br"
  THEN f.pool[f.blocks[b].term].to[1] ELSE b

(* add_phi_edge_for_bypass: the phis of succ take from pred what they took *)
(* last from the empty block, unless they name pred already.               *)
LastEntry(i, b) == CHOOSE k \in DOMAIN i.to : i.to[k] = b /\ \A l \in DOMAIN i.to : i.to[l] = b => l <= k
AddPhiEdge(f, empty, succ, pred) ==
  LET phis == ToSet(PhiIds(f, succ))
      told(i) == IF empty \in ToSet(i.to) /\ pred \notin ToSet(i.to)
                 THEN [i EXCEPT !.args = Append(@, @[LastEntry(i, empty)]), !.to = Append(@, pred)]
                 ELSE i
  IN  [f EXCEPT !.pool = [i \in DOMAIN @ |-> IF i \in phis THEN told(@[i]) ELSE @[i]]]

(* Pass 3: a conditional branch to an empty block goes where that goes;    *)
(* over all blocks, until nothing changes.                                 *)
BypassBlock(s, b) ==
  LET t == s.f.blocks[b].term
      old == s.f.pool[t].to
      new == [k \in DOMAIN old |-> BypassIfEmpty(s.f, old[k])]
      told(g, k) == IF new[k] = old[k] THEN g ELSE AddPhiEdge(g, old[k], new[k], b)
  IN  IF s.f.pool[t].op # "condbr" \/ new = old THEN s
      ELSE [f |-> [told(told(s.f, 1), 2) EXCEPT !.pool[t].to = new], changed |-> TRUE, again |-> TRUE]

RECURSIVE BypassBlocks(_)
BypassBlocks(s) ==
  LET r == FoldLeft(BypassBlock, [s EXCEPT !.again = FALSE], BlockList(s.f))
  IN  IF r.again THEN BypassBlocks(r) ELSE [f |-> r.f, changed |-> r.changed]

(* run_on_function.                                                        *)
JumpThreading(f) ==
  LET threaded == FoldLeft(ThreadBlock, FoldBranches(f), BlockList(f))
  IN  BypassBlocks([f |-> threaded.f, changed |-> threaded.changed, again |-> TRUE])

-----------------------------------------------------------------------------
(* run_on_function_with_name: the call that a block ends with, not marked  *)
(* yet, whose result the block returns; or a block that returns nothing.   *)
InTailPosition(f, b) ==
  /\ f.blocks[b].body # <<>>
  /\ LET i == f.pool[Last(f.blocks[b].body)]
         t == f.pool[f.blocks[b].term]
     IN  /\ i.op = "call" /\ i.flags \cap {"tail", "musttail", "notail"} = {}
         /\ t.op = "ret"
         /\ t.args = <<>> \/ t.args = <<Res(Last(f.blocks[b].body))>>

MarkTails(f, k) ==
  LET tails == {Last(f.blocks[b].body) : b \in {b \in DOMAIN f.blocks : InTailPosition(f, b)}}
      kind(i) == IF i.args[1] = Fn(k) THEN "musttail" ELSE "tail"
  IN  [f EXCEPT !.pool = [i \in DOMAIN @ |->
         IF i \in tails THEN [@[i] EXCEPT !.flags = @ \cup {kind(f.pool[i])}] ELSE @[i]]]

(* TailCallOpt::run_on_module.                                             *)
TailCallOpt(m) ==
  LET marked == [k \in DOMAIN m |-> MarkTails(m[k], k)]
  IN  [m |-> marked, changed |-> marked # m]

-----------------------------------------------------------------------------
(* load_gep_info: the base and the index a value is loaded from.           *)
NoPlace == [base |-> Undef, at |-> 0]
LoadGepInfo(f, v) ==
  LET p == f.pool[v[2]].args[1]
      gep == f.pool[p[2]]
  IN  IF IsRes(v) /\ f.pool[v[2]].op = "load" /\ IsRes(p) /\ gep.op = "index" /\ IsConst(gep.args[2])
      THEN [base |-> gep.args[1], at |-> gep.args[2][2]] ELSE NoPlace

(* process_block: the operations of a group follow one another among the   *)
(* floating-point operations of the block, as their operands do in memory. *)
FpOps(f, b) == SelectSeq(f.blocks[b].body, LAMBDA i : f.pool[i].op \in FloatOps)
Packs(f, fps, k) ==
  /\ k + SlpWidth - 1 <= Len(fps)
  /\ \A n \in 0..SlpWidth - 1 :
       LET first == f.pool[fps[k]]
           i == f.pool[fps[k + n]]
       IN  /\ i.op = first.op /\ "vector" \notin i.flags
           /\ \A o \in {1, 2} :
                LET from == LoadGepInfo(f, first.args[o])
                IN  from # NoPlace /\ LoadGepInfo(f, i.args[o]) = [from EXCEPT !.at = @ + n]

Groups(f, fps) ==
  FoldLeft(LAMBDA s, k : IF Packs(f, fps, k) /\ (s = <<>> \/ Last(s) + SlpWidth <= k)
                         THEN Append(s, k) ELSE s,
           <<>>, [k \in DOMAIN fps |-> k])

(* rewrite_kind: the kinds whose operands are rewritten.                   *)
Rewritten == FloatOps \cup Predicates \cup {"add", "sub", "mul", "store", "load", "ret", "call",
                                           "condbr", "select", "phi", "gep", "index", "extract"}

(* alloc_and_insert: at the place, or at the end of a shorter body.        *)
AllocAndInsert(body, pos, ids) ==
  LET at == Min({pos, Len(body) + 1})
  IN  SubSeq(body, 1, at - 1) \o ids \o SubSeq(body, at, Len(body))

(* rewrite_uses_in_block: not in the instructions that take over.          *)
RewriteUses(pool, used, subst) ==
  [i \in DOMAIN pool |->
     IF i \in used /\ pool[i].op \in Rewritten THEN SubstKind(pool[i], subst) ELSE pool[i]]

(* apply_group.  The vector of the left operands is loaded before the first*)
(* operation and the vector operation inserted after that; the vector of   *)
(* the right operands, unless it is the same, is loaded one place behind   *)
(* the first operation.                                                    *)
ApplyGroup(f, b, ops) ==
  LET body == f.blocks[b].body
      pos == CHOOSE k \in DOMAIN body : body[k] = ops[1]
      first == f.pool[ops[1]]
      place(o) == LoadGepInfo(f, first.args[o])
      shared == place(1) = place(2)
      n == Len(f.pool)
      gep(o) == Instr("index", <<place(o).base, Const(place(o).at)>>, <<>>)
      vector(op, args) == [Instr(op, args, <<>>) EXCEPT !.flags = {"vector"}]
      rhs == IF shared THEN <<>> ELSE <<n + 3, n + 4>>
      op == n + 3 + Len(rhs)
      extracts == [k \in DOMAIN ops |-> op + k]
      new == <<gep(1), vector("load", <<Res(n + 1)>>)>>
               \o (IF shared THEN <<>> ELSE <<gep(2), vector("load", <<Res(n + 3)>>)>>)
               \o <<vector(first.op, <<Res(n + 2), Res(IF shared THEN n + 2 ELSE n + 4)>>)>>
               \o [k \in DOMAIN ops |-> Instr("extract", <<Res(op), Const(k - 1)>>, <<>>)]
      inserted == AllocAndInsert(AllocAndInsert(body, pos + 2, rhs), pos, <<n + 1, n + 2, op>> \o extracts)
      subst == [i \in ToSet(ops) |-> Res(extracts[CHOOSE k \in DOMAIN ops : ops[k] = i])]
      used == ToSet(inserted) \cup {f.blocks[b].term}
  IN  [f EXCEPT !.pool = RewriteUses(@ \o new, used \ ToSet(extracts), subst),
                !.blocks[b].body = SelectSeq(inserted, LAMBDA i : i \notin ToSet(ops))]

ProcessBlock(s, b) ==
  LET fps == FpOps(s.f, b)
      groups == Groups(s.f, fps)
  IN  [f |-> FoldLeft(LAMBDA f, k : ApplyGroup(f, b, SubSeq(fps, k, k + SlpWidth - 1)), s.f, groups),
       changed |-> s.changed \/ groups # <<>>]

(* run_on_function.                                                        *)
SlpPass(f) == FoldLeft(ProcessBlock, [f |-> f, changed |-> FALSE], [b \in DOMAIN f.blocks |-> b])
=============================================================================
