-------------------------------- MODULE Licm --------------------------------
(***************************************************************************)
(* llvm-transforms/src/licm.rs: what a loop computes anew in every round   *)
(* without need moves to its preheader; and loop_unroll.rs, which takes    *)
(* the back edge of a one-block loop away when it runs once.  Both work on *)
(* the loops that Loops computes, here as it describes them.               *)
(***************************************************************************)
EXTENDS Ir

(* find_back_edges.                                                        *)
RECURSIVE BackEdges(_, _, _)
BackEdges(g, stack, seen) ==
  IF stack = <<>> THEN <<>>
  ELSE LET b == Last(stack)
           heads == SelectSeq(g[b], LAMBDA h : Dominates(g, h, b))
           others == SelectSeq(g[b], LAMBDA h : ~Dominates(g, h, b))
       IN  IF b \in seen THEN BackEdges(g, Front(stack), seen)
           ELSE [k \in DOMAIN heads |-> <<b, heads[k]>>]
                  \o BackEdges(g, Front(stack) \o others, seen \cup {b})

(* collect_loop_body, for the back edge from t to h.                       *)
LoopBody(g, t, h) ==
  LET grown(S) == S \cup UNION {ToSet(Predecessors(g, b)) : b \in S \ {h}}
      round[n \in Nat] == IF n = 0 THEN {t, h} ELSE grown(round[n - 1])
  IN  round[Len(g)]

(* The loops, in the order they are found in, and the smallest first: both *)
(* sorts, of LoopInfo by falling and of Licm by rising size, are stable.   *)
FoundLoops(g) ==
  LET edges == BackEdges(g, <<1>>, {})
  IN  [k \in DOMAIN edges |-> [header |-> edges[k][2], body |-> LoopBody(g, edges[k][1], edges[k][2])]]

InnermostFirst(g) ==
  LET loops == FoundLoops(g)
  IN  FlattenSeq([n \in 1..Len(g) |-> SelectSeq(loops, LAMBDA l : Cardinality(l.body) = n)])

-----------------------------------------------------------------------------
(* redirect_branch.                                                        *)
Redirect(i, old, new) == [i EXCEPT !.to = [k \in DOMAIN @ |-> IF @[k] = old THEN new ELSE @[k]]]

(* The predecessors of the header outside the loop, in the graph computed  *)
(* before the first loop was looked at.                                    *)
OutsidePreds(g, l) == SelectSeq(Predecessors(g, l.header), LAMBDA p : p \notin l.body)

(* The one that falls through into the header is the preheader.            *)
HasPreheader(f, g, l) ==
  /\ Len(OutsidePreds(g, l)) = 1
  /\ LET t == f.pool[f.blocks[OutsidePreds(g, l)[1]].term]
     IN  t.op = "br" /\ t.to[1] = l.header

(* ensure_preheader: else a new block between them and the header.         *)
NewPreheader(f, g, l) ==
  LET outside == ToSet(OutsidePreds(g, l))
      pre == Len(f.blocks) + 1
      terms == {f.blocks[p].term : p \in outside}
      phis == {i \in ToSet(f.blocks[l.header].body) : f.pool[i].op = "phi"}
      moved(i) == [i EXCEPT !.to = [k \in DOMAIN @ |-> IF @[k] \in outside THEN pre ELSE @[k]]]
      pool == [i \in DOMAIN f.pool |->
                 IF i \in terms THEN Redirect(f.pool[i], l.header, pre)
                 ELSE IF i \in phis THEN moved(f.pool[i]) ELSE f.pool[i]]
  IN  [f EXCEPT !.pool = Append(pool, Instr("br", <<>>, <<l.header>>)),
                !.blocks = Append(@, [body |-> <<>>, term |-> Len(pool) + 1])]

Preheader(f, g, l) ==
  IF HasPreheader(f, g, l) THEN [f |-> f, pre |-> OutsidePreds(g, l)[1]]
  ELSE [f |-> NewPreheader(f, g, l), pre |-> Len(f.blocks) + 1]

(* is_hoist_safe and is_fp_hoist_safe: divisions are among them, loads are *)
(* not.                                                                    *)
HoistOps == Divisions \cup FloatOps \cup Predicates
  \cup {"add", "sub", "mul", "and", "or", "xor", "shl", "lshr", "ashr", "select"}
HoistSafe(f, i) ==
  /\ i.op \in HoistOps
  /\ i.op \in FloatOps => ~f.strictfp /\ i.flags \cap {"reassoc", "fast"} # {}

(* is_loop_invariant: no operand is defined in the loop.                   *)
Invariant(f, body, i) ==
  /\ HoistSafe(f, f.pool[i])
  /\ \A v \in ToSet(f.pool[i].args) : IsRes(v) => \A b \in body : v[2] \notin ToSet(Ids(f, b))

(* hoist_one_round, until a round hoists nothing.                          *)
Hoistable(f, body) ==
  LET order == SelectSeq([b \in DOMAIN f.blocks |-> b], LAMBDA b : b \in body)
  IN  FlattenSeq([k \in DOMAIN order |->
        SelectSeq(f.blocks[order[k]].body, LAMBDA i : Invariant(f, body, i))])

RECURSIVE Hoist(_, _, _)
Hoist(s, body, pre) ==
  LET c == Hoistable(s.f, body)
  IN  IF c = <<>> THEN s
      ELSE Hoist([f |-> [Drop(s.f, ToSet(c)) EXCEPT !.blocks[pre].body = @ \o c], changed |-> TRUE],
                 body, pre)

HoistLoop(s, g, l) ==
  LET p == Preheader(s.f, g, l) IN Hoist([s EXCEPT !.f = p.f], l.body, p.pre)

(* run_on_function.  A new preheader does not count as a change.           *)
LicmPass(f) ==
  FoldLeft(LAMBDA s, l : HoistLoop(s, Graph(f), l), [f |-> f, changed |-> FALSE],
           InnermostFirst(Graph(f)))

-----------------------------------------------------------------------------
(* constant_trip_count: the constant of the comparison that the header     *)
(* branches on, whatever it is compared with.                              *)
TripCount(f, h) ==
  LET t == f.pool[f.blocks[h].term]
      cmp == f.pool[t.args[1][2]]
      counted(ops) == t.op = "condbr" /\ IsRes(t.args[1]) /\ cmp.op \in ops /\ IsConst(cmp.args[2])
  IN  CASE counted({"slt", "ult"}) -> cmp.args[2][2]
        [] counted({"sle", "ule"}) -> cmp.args[2][2] + 1
        [] OTHER -> 0

(* LoopUnroll::run_on_function: a loop of one block that branches back to  *)
(* itself, with a trip count of one.                                       *)
RunsOnce(f, l) == l.body = {l.header} /\ TripCount(f, l.header) = 1
Exit(t, h) == Instr("br", <<>>, <<IF t.to[1] = h THEN t.to[2] ELSE t.to[1]>>)
Unrolled(f, heads) ==
  [f |-> [f EXCEPT !.pool = [i \in DOMAIN @ |->
            IF \E h \in heads : f.blocks[h].term = i
            THEN Exit(@[i], CHOOSE h \in heads : f.blocks[h].term = i) ELSE @[i]]],
   changed |-> heads # {}]
UnrollPass(f) ==
  Unrolled(f, {l.header : l \in {l \in ToSet(FoundLoops(Graph(f))) : RunsOnce(f, l)}})
=============================================================================
