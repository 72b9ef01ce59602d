------------------------------ MODULE Interproc ------------------------------
(***************************************************************************)
(* The passes over a whole module of llvm-transforms: inline_pass.rs,      *)
(* ipcp.rs and dead_arg_elim.rs.                                           *)
(***************************************************************************)
EXTENDS Licm, ConstFold

CONSTANTS
  SizeLimit,    \* size_limit
  LoopBonus,    \* hot_loop_bonus
  InlineDepth   \* max_inline_depth

Calls(i, k) == i.op = "call" /\ i.args[1] = Fn(k)

(* find_inline_site: the first call, in the order of functions, blocks and *)
(* bodies, of a function that is small enough.                             *)
BodySize(g) == FoldLeft(LAMBDA n, blk : n + Len(blk.body), 0, g.blocks)

(* depth(b) > 0, where depth returns.  It may not if two loops have one    *)
(* header: such loops are each other's parents (Loops).                    *)
DepthReturns(f) ==
  LET loops == FoundLoops(Graph(f))
  IN  \A k, l \in DOMAIN loops : loops[k].header = loops[l].header => k = l
InLoop(f, b) == \E l \in ToSet(FoundLoops(Graph(f))) : b \in l.body

Fits(m, f, b, i) ==
  \E k \in DOMAIN m :
    /\ Calls(f.pool[i], k)
    /\ BodySize(m[k]) <= SizeLimit + (IF InLoop(f, b) THEN LoopBonus ELSE 0)

Sites(m, k) ==
  FlattenSeq([b \in DOMAIN m[k].blocks |->
    LET fit == SelectSeq(m[k].blocks[b].body, LAMBDA i : Fits(m, m[k], b, i))
    IN  [n \in DOMAIN fit |-> [caller |-> k, block |-> b, call |-> fit[n]]]])

(* clone_callee.  Its instructions are numbered in the order of its blocks,*)
(* but those that return, though numbered, are not copied.  The targets of *)
(* a clone lie behind the blocks of the caller.                            *)
CalleeOrder(g) == FlattenSeq([b \in DOMAIN g.blocks |-> Ids(g, b)])
CloneOf(g, off, i) == off + (CHOOSE n \in DOMAIN CalleeOrder(g) : CalleeOrder(g)[n] = i)

(* remap_val and remap_kind.                                               *)
RemapVal(g, off, args, v) ==
  CASE v[1] = "argument" -> IF v[2] \in DOMAIN args THEN args[v[2]] ELSE v
    [] IsRes(v) -> IF v[2] \in ToSet(CalleeOrder(g)) THEN Res(CloneOf(g, off, v[2])) ELSE v
    [] OTHER -> v
RemapTargets(i, blocks) == [i EXCEPT !.to = [n \in DOMAIN @ |-> @[n] + blocks]]
RemapKind(g, off, blocks, args, i) ==
  [RemapTargets(i, blocks) EXCEPT !.args = [n \in DOMAIN @ |-> RemapVal(g, off, args, @[n])]]

(* do_inline: the caller's block ends at the call and goes on behind the   *)
(* clone; phis that name it are not told.  The first of the new branches   *)
(* enters the clone, the others leave it.                                  *)
DoInline(f, g, b, call) ==
  LET off == Len(f.pool)
      blocks == Len(f.blocks)
      args == Tail(f.pool[call].args)
      body == f.blocks[b].body
      pos == CHOOSE n \in DOMAIN body : body[n] = call
      copied == SelectSeq(CalleeOrder(g), LAMBDA i : g.pool[i].op # "ret")
      rets == SelectSeq([c \in DOMAIN g.blocks |-> c],
                        LAMBDA c : g.pool[g.blocks[c].term].op = "ret")
      post == blocks + Len(g.blocks) + 1
      enter == off + Len(copied) + 1
      phi == enter + Len(rets) + 1
      valued == SelectSeq(rets, LAMBDA c : g.pool[g.blocks[c].term].args # <<>>)
      value(c) == RemapVal(g, off, args, g.pool[g.blocks[c].term].args[1])
      leave(c) == enter + (CHOOSE n \in DOMAIN rets : rets[n] = c)
      merged == Len(valued) > 1
      clone(c) == [body |-> [n \in DOMAIN g.blocks[c].body |-> CloneOf(g, off, g.blocks[c].body[n])],
                   term |-> IF c \in ToSet(rets) THEN leave(c) ELSE CloneOf(g, off, g.blocks[c].term)]
      behind == [body |-> (IF merged THEN <<phi>> ELSE <<>>) \o SubSeq(body, pos + 1, Len(body)),
                 term |-> f.blocks[b].term]
      pool == f.pool
        \o [n \in DOMAIN copied |-> RemapKind(g, off, blocks, args, g.pool[copied[n]])]
        \o <<Instr("br", <<>>, <<blocks + 1>>)>>
        \o [n \in DOMAIN rets |-> Instr("br", <<>>, <<post>>)]
        \o (IF merged THEN <<Instr("phi", [n \in DOMAIN valued |-> value(valued[n])],
                                   [n \in DOMAIN valued |-> blocks + valued[n]])>> ELSE <<>>)
      made == [f EXCEPT !.pool = pool, !.strictfp = @ \/ g.strictfp,
                 !.blocks = [@ EXCEPT ![b] = [body |-> SubSeq(body, 1, pos - 1), term |-> enter]]
                              \o [c \in DOMAIN g.blocks |-> clone(c)] \o <<behind>>]
      result == IF merged THEN Res(phi) ELSE value(valued[1])
      users == Live(made)
  IN  IF valued = <<>> THEN made
      ELSE [made EXCEPT !.pool = [i \in DOMAIN @ |->
              IF i \in users THEN SubstKind(@[i], (call :> result)) ELSE @[i]]]

(* Inliner::run_on_module: one call at a time.                             *)
RECURSIVE Inlined(_, _)
InlineSite(s, sites, n) ==
  LET at == sites[1]
      f == s.m[at.caller]
      g == s.m[f.pool[at.call].args[1][2]]
  IN  Inlined([m |-> [s.m EXCEPT ![at.caller] = DoInline(f, g, at.block, at.call)],
               changed |-> TRUE], n + 1)
Inlined(s, n) ==
  LET sites == FlattenSeq([k \in DOMAIN s.m |-> Sites(s.m, k)])
  IN  IF n = InlineDepth \/ sites = <<>> THEN s ELSE InlineSite(s, sites, n)

Inliner(m) == Inlined([m |-> m, changed |-> FALSE], 0)

-----------------------------------------------------------------------------
(* collect_direct_calls: those of the pools, and of no block, too.         *)
DirectCalls(m, k) ==
  FlattenSeq([c \in DOMAIN m |->
    LET calls == SelectSeq([i \in DOMAIN m[c].pool |-> i], LAMBDA i : Calls(m[c].pool[i], k))
    IN  [n \in DOMAIN calls |-> [caller |-> c, args |-> Tail(m[c].pool[calls[n]].args),
                                 call |-> calls[n]]]])

(* find_constant_arg: the first argument that is one constant everywhere.  *)
ConstantArgs(calls) ==
  {n \in DOMAIN calls[1].args :
     /\ IsConst(calls[1].args[n])
     /\ \A c \in ToSet(calls) : n \in DOMAIN c.args /\ c.args[n] = calls[1].args[n]}
Least(S) == CHOOSE n \in S : \A o \in S : n <= o

(* clone_specialized_function: all but strictfp is copied.                 *)
CloneSpecialized(f, name, n, v) ==
  LET bound(i) == [i EXCEPT !.args = [k \in DOMAIN @ |-> IF @[k] = Arg(n) THEN v ELSE @[k]]]
  IN  [f EXCEPT !.name = name, !.strictfp = FALSE, !.pool = [i \in DOMAIN @ |-> bound(@[i])]]

(* Ipcp::run_on_module, for one callee: the calls go to the clone.         *)
Redirected(m, calls, spec) ==
  [k \in DOMAIN m |->
     [m[k] EXCEPT !.pool = [i \in DOMAIN @ |->
        IF \E c \in ToSet(calls) : c.caller = k /\ c.call = i
        THEN [@[i] EXCEPT !.args[1] = Fn(spec)] ELSE @[i]]]]

Specialize(s, k, calls, n) ==
  LET v == calls[1].args[n]
      name == Append(s.m[k].name, <<n, v>>)
      known == {j \in DOMAIN s.m : s.m[j].name = name}
      grown == IF known # {} THEN s.m
               ELSE Append(s.m, ConstProp(CloneSpecialized(s.m[k], name, n, v)).f)
  IN  [m |-> Redirected(grown, calls, IF known # {} THEN Least(known) ELSE Len(grown)),
       changed |-> TRUE]

SpecializeCallee(s, k) ==
  LET calls == DirectCalls(s.m, k)
  IN  IF s.m[k].args = 0 \/ calls = <<>> THEN s
      ELSE IF ConstantArgs(calls) = {} THEN s
      ELSE Specialize(s, k, calls, Least(ConstantArgs(calls)))

Ipcp(m) == FoldLeft(SpecializeCallee, [m |-> m, changed |-> FALSE], [k \in DOMAIN m |-> k])

-----------------------------------------------------------------------------
(* DeadArgElim::run_on_module: the last arguments that no instruction of   *)
(* the pool uses go, and with them those of the calls.                     *)
KeptArgs(f) ==
  LET used == {n \in 1..f.args : \E i \in ToSet(f.pool) : Uses(i, Arg(n))}
  IN  IF used = {} THEN 0 ELSE CHOOSE n \in used : \A o \in used : o <= n

Truncated(m, k, i) ==
  IF Calls(i, k) THEN [i EXCEPT !.args = SubSeq(@, 1, 1 + KeptArgs(m[k]))] ELSE i

DropArgs(m) ==
  [c \in DOMAIN m |->
     [m[c] EXCEPT !.args = KeptArgs(m[c]),
                  !.pool = [i \in DOMAIN @ |->
                    IF \E k \in DOMAIN m : Calls(@[i], k) /\ KeptArgs(m[k]) < m[k].args
                    THEN Truncated(m, @[i].args[1][2], @[i]) ELSE @[i]]]]

DeadArgElim(m) ==
  [m |-> DropArgs(m), changed |-> \E k \in DOMAIN m : KeptArgs(m[k]) < m[k].args]
=============================================================================
