----------------------------- MODULE CfgSimplify -----------------------------
(***************************************************************************)
(* llvm-transforms/src/cfg_simplify.rs: trivial phis, then unreachable     *)
(* blocks, then blocks that fall through into one another.                 *)
(***************************************************************************)
EXTENDS Ir

(* simplify_trivial_phis, over the pool: every phi with one entry is       *)
(* replaced by its value, itself not replaced again.                       *)
SimplifyTrivialPhis(f) ==
  LET trivial == {i \in DOMAIN f.pool : f.pool[i].op = "phi" /\ Len(f.pool[i].args) = 1}
  IN  IF trivial = {} THEN [f |-> f, changed |-> FALSE]
      ELSE [f |-> Drop(SubstAll(f, [i \in trivial |-> f.pool[i].args[1]]), trivial),
            changed |-> TRUE]

(* remap_block_ids and the removal of the blocks: those that stay are      *)
(* numbered anew; the name of a block that goes is left as it is.          *)
RemoveBlocks(f, gone) ==
  LET kept == SelectSeq([b \in DOMAIN f.blocks |-> b], LAMBDA b : b \notin gone)
      new(b) == IF \E k \in DOMAIN kept : kept[k] = b
                THEN CHOOSE k \in DOMAIN kept : kept[k] = b ELSE b
  IN  [f EXCEPT !.pool = [i \in DOMAIN @ |-> [@[i] EXCEPT !.to = [k \in DOMAIN @ |-> new(@[k])]]],
                !.blocks = [k \in DOMAIN kept |-> @[kept[k]]]]

(* The entries of phis that name a block outside gone.                     *)
DropEntries(i, gone) ==
  LET ks == SelectSeq([k \in DOMAIN i.to |-> k], LAMBDA k : i.to[k] \notin gone)
  IN  [i EXCEPT !.args = [k \in DOMAIN ks |-> i.args[ks[k]]],
                !.to = [k \in DOMAIN ks |-> i.to[ks[k]]]]

(* Mutant: the phis keep the entries of the removed blocks.                *)
PruneUnreachable_KeepEntries(f) ==
  LET gone == DOMAIN f.blocks \ Reachable(Graph(f))
  IN  IF gone = {} THEN [f |-> f, changed |-> FALSE]
      ELSE [f |-> RemoveBlocks(f, gone), changed |-> TRUE]

(* prune_unreachable.                                                      *)
PruneUnreachable(f) ==
  LET gone == DOMAIN f.blocks \ Reachable(Graph(f))
      phis == {i \in UNION {ToSet(f.blocks[b].body) : b \in DOMAIN f.blocks \ gone} :
                 f.pool[i].op = "phi"}
      cleaned == [f EXCEPT !.pool = [i \in DOMAIN @ |->
                    IF i \in phis THEN DropEntries(@[i], gone) ELSE @[i]]]
  IN  IF gone = {} THEN [f |-> f, changed |-> FALSE]
      ELSE [f |-> RemoveBlocks(cleaned, gone), changed |-> TRUE]

(* The blocks merge_fallthrough absorbs: block b into a, decided in one    *)
(* walk over the blocks; a block that is to be absorbed absorbs none.      *)
Absorbs(f, gone, a) ==
  LET t == f.pool[f.blocks[a].term]
      b == t.to[1]
  IN  /\ a \notin gone
      /\ t.op = "br"
      /\ b # a
      /\ Len(Predecessors(Graph(f), b)) = 1
      /\ PhiIds(f, b) = <<>>

Merges(f) ==
  FoldLeft(LAMBDA s, a : IF Absorbs(f, {s[k][2] : k \in DOMAIN s}, a)
                         THEN Append(s, <<a, f.pool[f.blocks[a].term].to[1]>>) ELSE s,
           <<>>, [b \in DOMAIN f.blocks |-> b])

Absorb(f, m) ==
  [f EXCEPT !.blocks[m[1]] = [body |-> @.body \o f.blocks[m[2]].body,
                              term |-> f.blocks[m[2]].term]]

(* merge_fallthrough.  Phis that name an absorbed block are not told.      *)
MergeFallthrough(f) ==
  LET merges == Merges(f)
  IN  IF merges = <<>> THEN [f |-> f, changed |-> FALSE]
      ELSE [f |-> RemoveBlocks(FoldLeft(Absorb, f, merges),
                               {merges[k][2] : k \in DOMAIN merges}),
            changed |-> TRUE]

(* Mutant: the answer of the last simplification is returned.              *)
Simplify_LastFlag(f) ==
  LET a == SimplifyTrivialPhis(f)
      b == PruneUnreachable(a.f)
  IN  MergeFallthrough(b.f)

(* run_on_function.                                                        *)
Simplify(f) ==
  LET a == SimplifyTrivialPhis(f)
      b == PruneUnreachable(a.f)
      c == MergeFallthrough(b.f)
  IN  [f |-> c.f, changed |-> a.changed \/ b.changed \/ c.changed]

-----------------------------------------------------------------------------
(***************************************************************************)
(* llvm-transforms/src/dce.rs with UseDefInfo of llvm-analysis.            *)
(***************************************************************************)

(* is_dce_safe.                                                            *)
IsDceSafe(op) ==
  op \notin {"alloca", "alloca2", "load", "store", "call",
              "ret", "br", "condbr", "switch", "unreachable"}

(* UseDefInfo::is_dead: no instruction of a block uses the result.         *)
IsDead(f, i) == \A u \in Live(f) : ~Uses(f.pool[u], Res(i))

(* run_on_function.  The instructions are those of the pool: one removed   *)
(* before still counts as dead.                                            *)
DeadCodeElim(f) ==
  LET dead == {i \in DOMAIN f.pool : IsDceSafe(f.pool[i].op) /\ IsDead(f, i)}
  IN  [f |-> Drop(f, dead), changed |-> dead # {}]
=============================================================================
