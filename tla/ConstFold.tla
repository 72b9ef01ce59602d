------------------------------ MODULE ConstFold ------------------------------
(***************************************************************************)
(* Instructions replaced by what they compute: folding of constants        *)
(* (try_fold of constant_fold.rs, and the passes ConstantFold and          *)
(* ConstProp, which walk the function with it), reassociation, and value   *)
(* numbering.                                                              *)
(***************************************************************************)
EXTENDS Mem2Reg

None == <<"none", 0>>

(* Constants are kept in words wider than their type: icmp and the         *)
(* unsigned operations take the whole words, and sums, products and left   *)
(* shifts are not cut to the width of the type; the signed ones are.       *)
StoreWord(n) == Const(n % 2 ^ StoreWidth)
Cut(n) == Const(n % 2 ^ Width)

(* shift_mask: the width less one, which is right for powers of two.       *)
Amount(r) == r & (Width - 1)

(* The binary cases of try_fold, for the constants l and r.                *)
FoldWords(op, l, r) ==
  LET sl == Signed(Word(l))
      sr == Signed(Word(r))
      overflow == sl = -(2 ^ (Width - 1)) /\ sr = -1
  IN  CASE op = "add" -> StoreWord(l + r)
        [] op = "sub" -> StoreWord(l - r)
        [] op = "mul" -> StoreWord(l * r)
        [] op = "udiv" -> IF r = 0 THEN None ELSE Const(l \div r)
        [] op = "urem" -> IF r = 0 THEN None ELSE Const(l % r)
        [] op = "sdiv" -> IF sr = 0 \/ overflow THEN None ELSE Cut(Quotient(sl, sr))
        [] op = "srem" -> IF sr = 0 THEN None ELSE Cut(sl - sr * Quotient(sl, sr))
        [] op = "and" -> Const(l & r)
        [] op = "or"  -> Const(l | r)
        [] op = "xor" -> Const(l ^^ r)
        [] op = "shl"  -> StoreWord(l * 2 ^ Amount(r))
        [] op = "lshr" -> Const(l \div 2 ^ Amount(r))
        [] op = "ashr" -> Cut(sl \div 2 ^ Amount(r))
        [] op \in Predicates -> Const(IF Holds(op, l, r, sl, sr) THEN 1 ELSE 0)
        [] OTHER -> None

(* try_fold.                                                               *)
TryFold(i) ==
  CASE i.op = "select" /\ IsConst(i.args[1]) ->
         LET chosen == i.args[IF i.args[1][2] # 0 THEN 2 ELSE 3]
         IN  IF IsConst(chosen) \/ chosen = Undef THEN chosen ELSE None
    [] Len(i.args) = 2 /\ i.op # "phi" /\ \A k \in {1, 2} : IsConst(i.args[k]) ->
         FoldWords(i.op, i.args[1][2], i.args[2][2])
    [] OTHER -> None

(* try_fold_fp: two constants, and no division by zero.                    *)
TryFoldFp(i) ==
  IF /\ i.op \in FloatOps /\ "vector" \notin i.flags
     /\ \A k \in {1, 2} : IsConst(i.args[k])
     /\ i.op = "fdiv" => i.args[2][2] # 0
  THEN Const(Evaluate(i.op, <<Word(i.args[1][2]), Word(i.args[2][2])>>)[2])
  ELSE None

(* rpo: depth first, left to right, then the unreachable blocks.           *)
RECURSIVE Visit(_, _, _)
Visit(g, s, b) ==
  IF b \in s.seen THEN s
  ELSE LET t == FoldLeft(LAMBDA u, c : Visit(g, u, c), [s EXCEPT !.seen = @ \cup {b}], g[b])
       IN  [t EXCEPT !.post = Append(@, b)]

Rpo(g) ==
  LET s == Visit(g, [seen |-> {}, post |-> <<>>], 1)
  IN  Reverse(s.post) \o SelectSeq([b \in Blocks(g) |-> b], LAMBDA b : b \notin s.seen)

(* One instruction: what is known replaces its operands, then it is folded.*)
FoldedTo(ins, i, s, cst) ==
  [f |-> [s.f EXCEPT !.pool[i] = ins],
   subst |-> IF cst = None THEN s.subst ELSE Put(s.subst, i, cst)]

FoldInstr(s, i) ==
  LET ins == SubstKind(s.f.pool[i], s.subst) IN FoldedTo(ins, i, s, TryFold(ins))

(* ConstProp folds floating-point instructions as well.                    *)
PropagateInstr(s, i) ==
  LET ins == SubstKind(s.f.pool[i], s.subst)
  IN  FoldedTo(ins, i, s, IF TryFold(ins) = None THEN TryFoldFp(ins) ELSE TryFold(ins))

ToTerm(s, b) == [s EXCEPT !.f.pool[s.f.blocks[b].term] = SubstKind(@, s.subst)]
FoldBlock(s, b) == ToTerm(FoldLeft(FoldInstr, s, s.f.blocks[b].body), b)
PropagateBlock(s, b) == ToTerm(FoldLeft(PropagateInstr, s, s.f.blocks[b].body), b)

FoldedAway(s) ==
  IF s.subst = <<>> THEN [f |-> s.f, changed |-> FALSE]
  ELSE [f |-> Drop(s.f, DOMAIN s.subst), changed |-> TRUE]

(* run_on_function of ConstantFold, and of ConstProp.                      *)
ConstantFold(f) == FoldedAway(FoldLeft(FoldBlock, [f |-> f, subst |-> <<>>], Rpo(Graph(f))))
ConstProp(f) == FoldedAway(FoldLeft(PropagateBlock, [f |-> f, subst |-> <<>>], Rpo(Graph(f))))

-----------------------------------------------------------------------------
(***************************************************************************)
(* llvm-transforms/src/reassoc.rs: simplifications of floating-point       *)
(* instructions that their fast-math flags allow.                          *)
(***************************************************************************)

Relaxed(i, flags) == i.flags \cap (flags \cup {"fast"}) # {}

(* try_simplify_fp: the operand, or the zero, that an instruction is equal *)
(* to.                                                                     *)
IdentityOf(i) ==
  LET l == i.args[1]
      r == i.args[2]
  IN  CASE i.op \in {"fadd", "fsub"} /\ Relaxed(i, {"nsz"}) /\ r = Const(0) -> l
        [] i.op = "fadd" /\ Relaxed(i, {"nsz"}) /\ l = Const(0) /\ r # Const(0) -> r
        [] i.op \in {"fmul", "fdiv"} /\ Relaxed(i, {"nnan"}) /\ r = Const(1) -> l
        [] i.op = "fmul" /\ Relaxed(i, {"nnan"}) /\ l = Const(1) /\ r # Const(1) -> r
        [] /\ i.op = "fmul" /\ Const(0) \in {l, r} /\ Const(1) \notin {l, r}
           /\ {"nnan", "ninf"} \subseteq i.flags \/ "fast" \in i.flags -> Const(0)
        [] OTHER -> None

(* try_simplify_fp: (x + c1) + c2 becomes x + (c1 + c2).                   *)
Chained(f, i) ==
  /\ i.op = "fadd" /\ Relaxed(i, {"reassoc"}) /\ IsConst(i.args[2]) /\ IsRes(i.args[1])
  /\ LET inner == f.pool[i.args[1][2]]
     IN  inner.op = "fadd" /\ Relaxed(inner, {"reassoc"}) /\ IsConst(inner.args[2])
Combined(f, i) ==
  LET inner == f.pool[i.args[1][2]]
  IN  [i EXCEPT !.args = <<inner.args[1], StoreWord(inner.args[2][2] + i.args[2][2])>>]

(* apply_subst: the operands of floating-point instructions, returns and   *)
(* branches; those of all others stay as they are.                         *)
ApplySubst(i, s) == IF i.op \in FloatOps \cup {"ret", "condbr"} THEN SubstKind(i, s) ELSE i

SimplifyInstr(s, i) ==
  LET ins == ApplySubst(s.f.pool[i], s.subst)
  IN  CASE ins.op \in FloatOps /\ IdentityOf(ins) # None ->
             [s EXCEPT !.f.pool[i] = ins, !.subst = Put(@, i, IdentityOf(ins))]
        [] ins.op \in FloatOps /\ IdentityOf(ins) = None /\ Chained(s.f, ins) ->
             [s EXCEPT !.f.pool[i] = Combined(s.f, ins), !.rewritten = TRUE]
        [] OTHER -> [s EXCEPT !.f.pool[i] = ins]

SimplifyBlock(s, b) ==
  LET end == FoldLeft(SimplifyInstr, s, s.f.blocks[b].body)
  IN  [end EXCEPT !.f.pool[s.f.blocks[b].term] = ApplySubst(@, end.subst)]

(* run_on_function.                                                        *)
ReassocPass(f) ==
  LET s == FoldLeft(SimplifyBlock, [f |-> f, subst |-> <<>>, rewritten |-> FALSE], Rpo(Graph(f)))
  IN  [f |-> Drop(s.f, DOMAIN s.subst), changed |-> s.subst # <<>> \/ s.rewritten]

-----------------------------------------------------------------------------
(***************************************************************************)
(* llvm-transforms/src/gvn.rs: along the dominator tree, an instruction    *)
(* that computes what one before it has computed, or loads what one before *)
(* it has loaded, is replaced by that one.                                 *)
(***************************************************************************)

Commutative == {"add", "mul", "and", "or", "xor", "eq", "ne"}
KeyOps == Commutative \cup FloatOps \cup Divisions \cup Predicates
            \cup {"sub", "shl", "lshr", "ashr", "select"}

(* value_rank: instructions, arguments, constants, functions; each by its  *)
(* number.                                                                 *)
Rank(v) ==
  CASE IsRes(v) -> <<0, v[2]>>
    [] v[1] = "argument" -> <<1, v[2]>>
    [] v = Undef -> <<2, 0>>
    [] IsConst(v) -> <<2, v[2] + 1>>
    [] v[1] = "function" -> <<3, v[2]>>
Precedes(a, b) == a[1] < b[1] \/ (a[1] = b[1] /\ a[2] <= b[2])

(* order_pair and expr_key: the key of an instruction is the instruction,  *)
(* its operands in order of rank when their order does not matter.         *)
ExprKey(i) ==
  IF i.op \in Commutative /\ ~Precedes(Rank(i.args[1]), Rank(i.args[2]))
  THEN [i EXCEPT !.args = Reverse(@)] ELSE i

(* cse_allowed.                                                            *)
CseAllowed(f, i) ==
  i.op \in FloatOps => ~f.strictfp /\ i.flags \cap {"reassoc", "fast"} # {}

(* What ends the life of the loads that are remembered.                    *)
Clobbers == {"store", "call", "alloca", "alloca2", "gep", "index"}

(* rewrite_block, one instruction.  s is the function as rewritten so far, *)
(* the replacements, the expressions and the loads that are available.     *)
Reuse(s, i, v) == [s EXCEPT !.subst = Put(@, i, v)]
Number(s, i, ins) ==
  CASE ins.op = "load" /\ ~Volatile(ins) ->
         IF ins.args[1] \in DOMAIN s.loads THEN Reuse(s, i, s.loads[ins.args[1]])
         ELSE [s EXCEPT !.loads = Put(@, ins.args[1], Res(i))]
    [] ins.op \in Clobbers -> [s EXCEPT !.loads = <<>>]
    [] ins.op \in KeyOps ->
         IF ExprKey(ins) \notin DOMAIN s.exprs THEN [s EXCEPT !.exprs = Put(@, ExprKey(ins), Res(i))]
         ELSE IF CseAllowed(s.f, ins) THEN Reuse(s, i, s.exprs[ExprKey(ins)]) ELSE s
    [] OTHER -> s

GvnInstr(s, i) ==
  LET ins == SubstKind(s.f.pool[i], s.subst)
  IN  Number([s EXCEPT !.f.pool[i] = ins], i, ins)

(* rewrite_block: the body, the terminator, the children in the dominator  *)
(* tree, each of which starts from what is available at the end of here.   *)
RECURSIVE RewriteBlock(_, _, _)
RewriteBlock(kids, s, b) ==
  LET end == FoldLeft(GvnInstr, s, s.f.blocks[b].body)
      done == [end EXCEPT !.f.pool[s.f.blocks[b].term] = SubstKind(@, end.subst)]
  IN  FoldLeft(LAMBDA t, c : RewriteBlock(kids, [t EXCEPT !.exprs = end.exprs, !.loads = end.loads], c),
               done, kids[b])

(* run_on_function.                                                        *)
Numbered(s) ==
  IF s.subst = <<>> THEN [f |-> s.f, changed |-> FALSE]
  ELSE [f |-> Drop(SubstAll(s.f, s.subst), DOMAIN s.subst), changed |-> TRUE]

GvnPass(f) ==
  Numbered(RewriteBlock([b \in DOMAIN f.blocks |-> Children(Graph(f), b)],
                        [f |-> f, subst |-> <<>>, exprs |-> <<>>, loads |-> <<>>], 1))
=============================================================================
