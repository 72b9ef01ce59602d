--------------------------------- MODULE Ir ---------------------------------
(***************************************************************************)
(* The IR the optimizer works on (llvm-ir), what a module computes, and    *)
(* when a function is well formed.  A module m is a sequence of functions, *)
(* the first of which is run.  A function f keeps all its instructions in  *)
(* one pool, f.pool, that only grows: an instruction taken out of its      *)
(* block stays there.  f.blocks[b] lists the body of block b and names its *)
(* terminator; f.args counts its arguments; f.name and f.strictfp are its  *)
(* name and its attribute.  An instruction is [op, args, to, flags]: its   *)
(* operands, the blocks it names (targets of a terminator, predecessors of *)
(* a phi), and its flags.                                                  *)
(*                                                                         *)
(* "alloca" is a scalar slot, "alloca2" a struct or an array of two; "gep" *)
(* takes the address of a field, "index" that of an element; the first     *)
(* operand of a "call" is its callee, a function of the module or Fn(0),   *)
(* an external one that observes its arguments and what they point to, or  *)
(* one of a sanitizer's runtime, which sees addresses only.                *)
(* Floating-point numbers are words, whose arithmetic is exact: no         *)
(* rounding, no infinities, no NaN.                                        *)
(* A volatile access is observed, as a call is.                            *)
(***************************************************************************)
EXTENDS FlowGraph, Bitwise

CONSTANTS
  Width,       \* the width of the integers, in bits
  StoreWidth,  \* the width of the words that constants are kept in
  Inputs,      \* the arguments a function is run with
  MaxBlocks    \* a run enters at most this many blocks, more in large functions

ASSUME IrAssumption ==
  /\ Width \in 1..StoreWidth
  /\ Inputs \subseteq 0..(2 ^ Width - 1)
  /\ MaxBlocks \in Nat

Instr(op, args, to) == [op |-> op, args |-> args, to |-> to, flags |-> {}]

Const(n) == <<"const", n>>
Undef == <<"undef", 0>>
Arg(k) == <<"argument", k>>
Res(i) == <<"instr", i>>
Fn(k) == <<"function", k>>
Runtime(name) == <<"runtime", name>>
Null == <<"null", 0>>

IsConst(v) == v[1] = "const"
IsRes(v) == v[1] = "instr"

FloatOps == {"fadd", "fsub", "fmul", "fdiv"}
Divisions == {"udiv", "sdiv", "urem", "srem"}
Predicates == {"eq", "ne", "ugt", "uge", "ult", "ule", "sgt", "sge", "slt", "sle"}

(* BasicBlock::instrs and Function::alloc_instr.                           *)
Ids(f, b) == Append(f.blocks[b].body, f.blocks[b].term)
Live(f) == UNION {ToSet(Ids(f, b)) : b \in DOMAIN f.blocks}
Alloc(f, i) == [f EXCEPT !.pool = Append(@, i)]

(* Cfg::compute: the targets of the terminators.                           *)
Graph(f) == [b \in DOMAIN f.blocks |-> f.pool[f.blocks[b].term].to]

Volatile(i) == "volatile" \in i.flags

(* InstrKind::operands.                                                    *)
Uses(i, v) == v \in ToSet(i.args)

(* retain in every block body.                                             *)
Drop(f, gone) ==
  [f EXCEPT !.blocks =
     [b \in DOMAIN @ |-> [@[b] EXCEPT !.body = SelectSeq(@, LAMBDA i : i \notin gone)]]]

(* subst_kind and rewrite_values_in_kind: one replacement per operand, not *)
(* replaced again.  s gives the replaced instructions their values.        *)
Replace(v, s) == IF IsRes(v) /\ v[2] \in DOMAIN s THEN s[v[2]] ELSE v
SubstKind(i, s) == [i EXCEPT !.args = [k \in DOMAIN @ |-> Replace(@[k], s)]]
SubstAll(f, s) == [f EXCEPT !.pool = [i \in DOMAIN @ |-> SubstKind(@[i], s)]]

-----------------------------------------------------------------------------
(* What a module computes.  A run has the results so far, the arguments,  *)
(* the memory, the calls made, and how it ended; and if it is traced, its  *)
(* accesses to memory and the calls of the runtime.  An undefined value may   *)
(* turn out as anything, so branching on one makes the run meaningless     *)
(* ("ub"), as does a division by zero or one that overflows; an operand     *)
(* that no instruction has computed is an error of the IR ("stuck"),       *)
(* whatever becomes of it.                                                 *)
Word(n) == <<"int", n % 2 ^ Width>>
Poison == <<"poison">>
Missing == <<"missing">>
Ptr(slot, field) == <<"ptr", slot, field>>
Shadow(address) == <<"shadow", address>>
Signed(w) == IF w[2] >= 2 ^ (Width - 1) THEN w[2] - 2 ^ Width ELSE w[2]

Run0 == [vals |-> <<>>, args |-> <<>>, mem |-> <<>>, calls |-> <<>>, depth |-> 0,
         traced |-> FALSE, trace |-> <<>>, fuel |-> MaxBlocks, end |-> "", result |-> Poison]

Value(r, v) ==
  CASE IsConst(v) -> Word(v[2])
    [] v = Undef -> Poison
    [] v[1] = "argument" -> IF v[2] <= Len(r.args) THEN r.args[v[2]] ELSE Missing
    [] v[1] \in {"function", "runtime", "null"} -> v
    [] IsRes(v) -> IF v[2] \in DOMAIN r.vals THEN r.vals[v[2]] ELSE Missing

Put(fun, key, v) == (key :> v) @@ fun

Stuck(r) == [r EXCEPT !.end = "stuck"]

(* Division rounds towards zero.                                           *)
Abs(n) == IF n < 0 THEN -n ELSE n
Quotient(a, b) == LET q == Abs(a) \div Abs(b) IN IF (a < 0) = (b < 0) THEN q ELSE -q
Overflows(op, a) ==
  op \in {"sdiv", "srem"} /\ a[1] = Word(2 ^ (Width - 1)) /\ a[2] = Word(2 ^ Width - 1)
Truth(p) == IF p THEN Word(1) ELSE Word(0)

(* Whether p holds of the words l and r, which are sl and sr when signed.  *)
Holds(p, l, r, sl, sr) ==
  CASE p = "eq"  -> l = r
    [] p = "ne"  -> l # r
    [] p = "ugt" -> l > r
    [] p = "uge" -> l >= r
    [] p = "ult" -> l < r
    [] p = "ule" -> l <= r
    [] p = "sgt" -> sl > sr
    [] p = "sge" -> sl >= sr
    [] p = "slt" -> sl < sr
    [] p = "sle" -> sl <= sr

(* The amount of a shift is taken modulo the width.                        *)
Evaluate(op, a) ==
  CASE Poison \in ToSet(a) /\ op # "select" -> Poison
    [] op \in {"add", "fadd"} -> Word(a[1][2] + a[2][2])
    [] op \in {"sub", "fsub"} -> Word(a[1][2] - a[2][2])
    [] op \in {"mul", "fmul"} -> Word(a[1][2] * a[2][2])
    [] op = "fdiv" -> IF a[2] = Word(0) THEN Word(0) ELSE Word(a[1][2] \div a[2][2])
    [] op = "udiv" -> Word(a[1][2] \div a[2][2])
    [] op = "urem" -> Word(a[1][2] % a[2][2])
    [] op = "sdiv" -> Word(Quotient(Signed(a[1]), Signed(a[2])))
    [] op = "srem" -> Word(Signed(a[1]) - Signed(a[2]) * Quotient(Signed(a[1]), Signed(a[2])))
    [] op = "and" -> Word(a[1][2] & a[2][2])
    [] op = "or"  -> Word(a[1][2] | a[2][2])
    [] op = "xor" -> Word(a[1][2] ^^ a[2][2])
    [] op = "shl"  -> Word(a[1][2] * 2 ^ (a[2][2] % Width))
    [] op = "lshr" -> Word(a[1][2] \div 2 ^ (a[2][2] % Width))
    [] op = "ashr" -> Word(Signed(a[1]) \div 2 ^ (a[2][2] % Width))
    [] op = "eq"  -> Truth(a[1] = a[2])
    [] op = "ne"  -> Truth(a[1] # a[2])
    [] op \in Predicates \ {"eq", "ne"} ->
         Truth(Holds(op, a[1][2], a[2][2], Signed(a[1]), Signed(a[2])))
    [] op = "ptrtoint" -> a[1]
    [] op = "shadow" -> Shadow(a[1])
    [] op = "extract" -> a[1][2][a[2][2] + 1]
    [] op = "select" -> CASE a[1] = Poison -> Poison
                          [] a[1] = Word(0) -> a[3]
                          [] OTHER -> a[2]

(* The runtime of a sanitizer keeps one word of shadow for every address:  *)
(* 1 if it is poisoned.  msan_check tells.                                 *)
IsRuntime(ins) == ins.op = "call" /\ ins.args[1][1] = "runtime"
Shadowed(r, s) == IF s \in DOMAIN r.mem THEN r.mem[s] ELSE Word(0)

(* One instruction other than a phi, a terminator and a call into the      *)
(* module.                                                                 *)
Step(ins, i, r) ==
  LET a == [k \in DOMAIN ins.args |-> Value(r, ins.args[k])]
      define(v) == [r EXCEPT !.vals = Put(@, i, v)]
      seen(v) == IF v \in DOMAIN r.mem THEN r.mem[v] ELSE v
      own(v) == v[1] = "ptr" /\ v[2][1] = r.depth
      slot(n) == Ptr(<<r.depth, i>>, n)
      next(p) == Ptr(p[2], p[3] + 1)
      watched(s, v) == IF Volatile(ins) THEN [s EXCEPT !.calls = Append(@, <<<<ins.op>>, seen(v)>>)] ELSE s
  IN  CASE r.end # "" -> r
        [] r.end = "" /\ Missing \in ToSet(a) -> Stuck(r)
        [] OTHER ->
          CASE ins.op = "alloca"  ->
                 [define(slot(0)) EXCEPT !.mem = Put(@, slot(0), Poison)]
            [] ins.op = "alloca2" ->
                 [define(slot(0)) EXCEPT !.mem = Put(Put(@, slot(0), Poison), slot(1), Poison)]
            [] ins.op \in {"gep", "index"} -> define(Ptr(a[1][2], a[2][2]))
            [] ins.op = "load"  ->
                 CASE a[1] = Null -> [r EXCEPT !.end = "ub"]
                   [] a[1][1] = "shadow" -> define(Shadowed(r, a[1]))
                   [] a[1] # Null /\ a[1][1] # "shadow" /\ a[1] \notin DOMAIN r.mem -> Stuck(r)
                   [] "vector" \in ins.flags -> define(<<"vec", <<r.mem[a[1]], r.mem[next(a[1])]>>>>)
                   [] OTHER -> watched(define(r.mem[a[1]]), r.mem[a[1]])
            [] ins.op = "store" ->
                 CASE a[2] = Null -> [r EXCEPT !.end = "ub"]
                   [] a[2] \in DOMAIN r.mem -> watched([r EXCEPT !.mem = Put(@, a[2], a[1])], a[1])
                   [] OTHER -> Stuck(r)
            [] IsRuntime(ins) ->
                 CASE a[1][2] \in {"asan_poison", "msan_poison"} ->
                        [define(Poison) EXCEPT !.mem = Put(@, Shadow(a[2]), Word(1))]
                   [] a[1][2] = "msan_store" -> [define(Poison) EXCEPT !.mem = Put(@, Shadow(a[2]), Word(0))]
                   [] a[1][2] = "msan_check" -> define(Shadowed(r, Shadow(a[2])))
                   [] OTHER -> define(Poison)
            [] ins.op = "call"  ->
                 IF "tail" \in ins.flags /\ \E k \in DOMAIN a : own(a[k]) THEN [r EXCEPT !.end = "ub"]
                 ELSE [define(Poison) EXCEPT !.calls = Append(@, [k \in DOMAIN a |-> seen(a[k])])]
            [] ins.op \in Divisions ->
                 IF a[2] \in {Word(0), Poison} \/ Overflows(ins.op, a) THEN [r EXCEPT !.end = "ub"]
                 ELSE define(Evaluate(ins.op, a))
            [] ins.op \in FloatOps /\ "vector" \in ins.flags ->
                 define(<<"vec", [n \in 1..2 |-> Evaluate(ins.op, <<a[1][2][n], a[2][2][n]>>)]>>)
            [] OTHER            -> define(Evaluate(ins.op, a))

(* The phis of a block take their values at once, each from its first      *)
(* entry for the block the run comes from (emit_phi_copies).               *)
PhiIds(f, b) == SelectSeq(f.blocks[b].body, LAMBDA i : f.pool[i].op = "phi")

Incoming(f, i, p) ==
  LET at == {k \in DOMAIN f.pool[i].to : f.pool[i].to[k] = p}
  IN  IF at = {} THEN <<"none", 0>>
      ELSE f.pool[i].args[CHOOSE k \in at : \A l \in at : k <= l]

EnterBlock(f, r, p, b) ==
  LET phis == ToSet(PhiIds(f, b))
      val(i) == IF Incoming(f, i, p)[1] = "none" THEN Missing
                ELSE Value(r, Incoming(f, i, p))
  IN  IF \E i \in phis : val(i) = Missing THEN Stuck(r)
      ELSE [r EXCEPT !.vals = [i \in phis |-> val(i)] @@ @]

(* The target that the terminator t takes for its operand's value.         *)
Target(t, v, r) ==
  CASE t.op = "br"     -> t.to[1]
    [] t.op = "condbr" -> IF v = Word(0) THEN t.to[2] ELSE t.to[1]
    [] t.op = "switch" ->
         LET hit == {k \in 2..Len(t.args) : Value(r, t.args[k]) = v}
         IN  IF hit = {} THEN t.to[1] ELSE t.to[CHOOSE k \in hit : \A l \in hit : k <= l]

(* An access to memory or a call of the runtime that took place: where, of *)
(* which operands and with which result.                                   *)
Traced(s, k, i, a, ins) ==
  IF s.traced /\ s.end = "" /\ (ins.op \in {"load", "store"} \/ IsRuntime(ins))
  THEN [s EXCEPT !.trace = Append(@, [fn |-> k, at |-> i, a |-> a,
                                      v |-> IF i \in DOMAIN s.vals THEN s.vals[i] ELSE Poison])]
  ELSE s

(* The run enters block b of function k from block p, 0 for its caller.    *)
RECURSIVE RunFrom(_, _, _, _, _), RunInstr(_, _, _, _), Leave(_, _, _, _)
RunInstr(m, k, r, i) ==
  LET ins == m[k].pool[i]
      a == [n \in DOMAIN ins.args |-> Value(r, ins.args[n])]
      s == RunFrom(m, a[1][2], [r EXCEPT !.vals = <<>>, !.args = Tail(a), !.depth = @ + 1], 0, 1)
  IN  IF r.end = "" /\ ins.op = "call" /\ a[1][1] = "function" /\ a[1] # Fn(0) /\ Missing \notin ToSet(a)
      THEN [s EXCEPT !.vals = Put(r.vals, i, s.result), !.args = r.args, !.depth = r.depth,
                     !.end = IF @ = "ret" THEN "" ELSE @]
      ELSE Traced(Step(ins, i, r), k, i, a, ins)

Leave(m, k, b, done) ==
  LET t == m[k].pool[m[k].blocks[b].term]
      v == IF t.args = <<>> THEN Word(0) ELSE Value(done, t.args[1])
  IN  CASE done.end # "" -> done
        [] done.end = "" /\ v = Missing -> Stuck(done)
        [] done.end = "" /\ v # Missing /\ t.op = "ret" ->
             [done EXCEPT !.end = "ret", !.result = v]
        [] done.end = "" /\ t.op = "unreachable" -> [done EXCEPT !.end = "ub"]
        [] OTHER ->
          IF v = Poison THEN [done EXCEPT !.end = "ub"]
          ELSE IF done.fuel = 0 THEN [done EXCEPT !.end = "long"]
          ELSE RunFrom(m, k, [done EXCEPT !.fuel = @ - 1], b, Target(t, v, done))

RunFrom(m, k, r, p, b) ==
  Leave(m, k, b,
        FoldLeft(LAMBDA s, i : RunInstr(m, k, s, i),
                 IF p = 0 THEN r ELSE EnterBlock(m[k], r, p, b),
                 SelectSeq(m[k].blocks[b].body, LAMBDA i : m[k].pool[i].op # "phi")))

(* What can be observed of a module: for each argument, how the run of its *)
(* first function ends, with which result and which calls and volatile     *)
(* accesses.                                                               *)
RunOf(m, x, traced) ==
  RunFrom(m, 1, [Run0 EXCEPT !.args = <<Word(x)>>, !.traced = traced,
                             !.fuel = @ * (1 + Len(m[1].blocks) \div 8)], 0, 1)
Observed(r) ==
  [end |-> r.end, result |-> IF r.end = "ret" THEN r.result ELSE Poison, calls |-> r.calls]
Meaning(m) ==
  [x \in Inputs |-> Observed(RunOf(m, x, FALSE))]

(* got does what want does, and where want did something undefined, got   *)
(* may do anything.  Runs cut off after MaxBlocks are compared as far as   *)
(* both came.                                                              *)
Agrees(want, got) == want = Poison \/ want = got
RefinesRun(got, want) ==
  \/ want.end = "ub"
  \/ /\ got.end = want.end
     /\ Agrees(want.result, got.result)
     /\ want.end = "ret" => Len(got.calls) = Len(want.calls)
     /\ \A i \in DOMAIN want.calls \cap DOMAIN got.calls :
          \A k \in DOMAIN want.calls[i] : Agrees(want.calls[i][k], got.calls[i][k])
Refines(got, want) == \A x \in Inputs : RefinesRun(got[x], want[x])

-----------------------------------------------------------------------------
(* SSA form, for the blocks that can run: an instruction is in one place,  *)
(* its operands are computed before it on every path, and a phi has one    *)
(* entry per incoming edge, computed before the edge is taken.             *)
IndexIn(s, i) == CHOOSE k \in DOMAIN s : s[k] = i
Place(f, i) == LET b == CHOOSE b \in DOMAIN f.blocks : i \in ToSet(Ids(f, b))
               IN  <<b, IndexIn(Ids(f, b), i)>>

(* avoiding gives each block what is reached without going through it, and *)
(* b can run.                                                              *)
ComputedBefore(f, avoiding, v, b, k) ==
  /\ v[1] = "argument" => v[2] <= f.args
  /\ IsRes(v) =>
       /\ v[2] \in Live(f)
       /\ LET d == Place(f, v[2])
          IN  IF d[1] = b THEN d[2] < k ELSE b \notin avoiding[d[1]]

Entries(i, p) == Cardinality({k \in DOMAIN i.to : i.to[k] = p})

SsaForm(f) ==
  LET g == Graph(f)
      preds(b) == Predecessors(g, b)
      edges(p, b) == Cardinality({k \in DOMAIN g[p] : g[p][k] = b})
      avoiding == FoldLeft(LAMBDA s, a : Put(s, a, ReachAvoiding(g, a)), <<>>, [a \in Blocks(g) |-> a])
  IN  /\ Cardinality(Live(f)) = FoldLeft(LAMBDA n, b : n + Len(b.body) + 1, 0, f.blocks)
      /\ \A b \in Reachable(g) : \A k \in DOMAIN Ids(f, b) :
           LET i == f.pool[Ids(f, b)[k]]
           IN  IF i.op = "phi"
               THEN /\ ToSet(i.to) = ToSet(preds(b))
                    /\ \A p \in ToSet(preds(b)) : Entries(i, p) = edges(p, b)
                    /\ \A e \in DOMAIN i.to :
                         i.to[e] \in Reachable(g) =>
                           ComputedBefore(f, avoiding, i.args[e], i.to[e], Len(f.pool) + 1)
               ELSE \A v \in ToSet(i.args) : ComputedBefore(f, avoiding, v, b, k)
=============================================================================
