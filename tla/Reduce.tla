------------------------------- MODULE Reduce -------------------------------
(***************************************************************************)
(* The reducer (llvm-ir: reduce.rs): rounds of four passes that remove     *)
(* functions, blocks and instructions one at a time, and keep what is left *)
(* whenever the predicate still holds of it.  The predicate is that an     *)
(* operation is still printed (ContainsPredicate).  Ids are positions, as  *)
(* in the code: those that are not renumbered name something else, or      *)
(* nothing, which is a panic.                                              *)
(***************************************************************************)
EXTENDS Syntax

CONSTANTS MaxPasses,   \* max_passes
          Cases        \* the operations that the module must still contain

VARIABLE reducer

PassOrder == <<"functions", "blocks", "instructions", "constants">>

(* module, function and place of what is tried next, and what is left to   *)
(* try in this function.                                                   *)
IdleReducer == [mod |-> EmptyModule, case |-> "", pass |-> "idle", fn |-> 0, todo |-> <<>>,
         changed |-> FALSE, round |-> 0]
ReduceInit == reducer = IdleReducer

Downto(n, m) == [k \in 1..(n - m + 1) |-> n - k + 1]
Bodies(f) == FlattenSeq([k \in DOMAIN f.blocks |-> f.blocks[k].body])

(* Mutant: the last block is never tried.                                  *)
Todo_ButLast(mod, pass, k) ==
  LET f == mod.functions[k]
  IN  CASE pass = "functions" -> IF k = 1 THEN Downto(Len(mod.functions), 2) ELSE <<>>
        [] pass = "blocks" -> IF f.declaration THEN <<>> ELSE Downto(Len(f.blocks) - 1, 2)
        [] pass \in {"instructions", "constants"} -> IF f.declaration THEN <<>> ELSE Bodies(f)

(* What a pass goes through in the function k: the functions but the first *)
(* and main, the blocks but the entry, the instructions as they are at the *)
(* beginning.                                                              *)
Todo(mod, pass, k) ==
  LET f == mod.functions[k]
  IN  CASE pass = "functions" -> IF k = 1 THEN Downto(Len(mod.functions), 2) ELSE <<>>
        [] pass = "blocks" -> IF f.declaration THEN <<>> ELSE Downto(Len(f.blocks), 2)
        [] pass \in {"instructions", "constants"} -> IF f.declaration THEN <<>> ELSE Bodies(f)

-----------------------------------------------------------------------------
(* function_signature_clone: strictfp is not taken over.                   *)
Signature(f) == [f EXCEPT !.instrs = <<>>, !.blocks = <<>>, !.strictfp = FALSE]
(* The instructions whose ids are kept, in the order of the pool, without  *)
(* their metadata; and where an id goes.                                   *)
Shifted(kept, id) == Cardinality({k \in kept : k < id}) + 1
MapIds(kept, v) == IF v[1] = "instr" /\ v[2] \in kept THEN OfInstr(Shifted(kept, v[2])) ELSE v
PlacedIn(blk) == ToSet(blk.body) \cup ({blk.term} \ {0})
Rebuilt(f, kept, remap(_), blocks) ==
  LET ids == Kept([k \in DOMAIN f.instrs |-> k], kept)
  IN  [Signature(f) EXCEPT
         !.instrs = [k \in DOMAIN ids |-> [remap(f.instrs[ids[k]]) EXCEPT !.md = <<>>]],
         !.blocks = [k \in DOMAIN blocks |->
            [name |-> blocks[k].name,
             body |-> LET left == Kept(blocks[k].body, kept)
                      IN  [j \in DOMAIN left |-> Shifted(kept, left[j])],
             term |-> IF blocks[k].term \in kept THEN Shifted(kept, blocks[k].term) ELSE 0]]]

(* remap_instr_kind: branches to the removed block go to the entry, phis   *)
(* lose what came from it.  Pads and invokes of the WinEH kind keep the    *)
(* numbers that their blocks had.                                          *)
Renumbered(kept, i) == [i EXCEPT !.vals = [k \in DOMAIN @ |-> MapIds(kept, @[k])]]
BranchOps == {"br", "condbr", "switch", "invoke"}
NewTarget(gone, k) == CASE k < gone -> k [] k = gone -> 1 [] k > gone -> k - 1
RemapInstr(kept, gone, i) ==
  LET stay == SelectSeq([k \in DOMAIN i.blks |-> k], LAMBDA k : i.blks[k] # gone)
      mapped == Renumbered(kept, i)
  IN  CASE i.op = "phi" -> [mapped EXCEPT !.vals = [k \in DOMAIN stay |-> @[stay[k]]],
                                          !.blks = [k \in DOMAIN stay |-> NewTarget(gone, @[stay[k]])]]
        [] i.op \in BranchOps -> [mapped EXCEPT !.blks = [k \in DOMAIN @ |-> NewTarget(gone, @[k])]]
        [] OTHER -> mapped

WithoutBlock(f, gone) ==
  LET blocks == RemoveAt(f.blocks, gone)
      kept == UNION {PlacedIn(blocks[k]) : k \in DOMAIN blocks}
  IN  Rebuilt(f, kept, LAMBDA i : RemapInstr(kept, gone, i), blocks)

(* clone_module_replace_instr_with_undef, .._with_zero: every other        *)
(* instruction of the pool stays.                                          *)
ZeroOf(ty) == CASE ty[1] = "int" -> ConstInt(ty, 0)
                [] ty = Ptr -> Const("null", ty, <<>>)
                [] OTHER -> Const("undef", ty, <<>>)
UndefOf(ty) == Const("undef", ty, <<>>)
Subst(kept, id, const, v) == IF v = OfInstr(id) THEN OfConst(const) ELSE MapIds(kept, v)
Substituted(kept, id, const, i) == [i EXCEPT !.vals = [k \in DOMAIN @ |-> Subst(kept, id, const, @[k])]]
WithoutInstr(f, id, const) ==
  LET kept == DOMAIN f.instrs \ {id}
  IN  Rebuilt(f, kept, LAMBDA i : Substituted(kept, id, const, i), f.blocks)

(* The module without k; what cannot be tried is skipped.                  *)
InstrTrial(mod, fn, f, pass, k) ==
  [mod EXCEPT !.functions[fn] = WithoutInstr(f, k, IF pass = "constants" THEN ZeroOf(f.instrs[k].ty) ELSE UndefOf(f.instrs[k].ty))]
Trial(mod, pass, fn, k) ==
  CASE pass = "functions" -> [mod EXCEPT !.functions = RemoveAt(@, k)]
    [] pass = "blocks" -> [mod EXCEPT !.functions[fn] = WithoutBlock(@, k)]
    [] pass \in {"instructions", "constants"} -> InstrTrial(mod, fn, mod.functions[fn], pass, k)
Skipped(mod, pass, fn, k) ==
  CASE pass = "functions" -> mod.functions[k].name = "main"
    [] pass = "blocks" -> FALSE
    [] pass \in {"instructions", "constants"} -> mod.functions[fn].instrs[k].ty = Void
(* An id of the list that is past the pool by now.                         *)
PastPool(mod, pass, fn, k) ==
  pass \in {"instructions", "constants"} /\ k > Len(mod.functions[fn].instrs)

(* Predicate::test prints the module: an operand or a block that is not    *)
(* there is a panic.                                                       *)
PlacedOf(f) == UNION {PlacedIn(f.blocks[k]) : k \in DOMAIN f.blocks}
Printable(f) ==
  \A id \in PlacedOf(f) :
    /\ \A k \in DOMAIN f.instrs[id].vals : LET v == f.instrs[id].vals[k] IN v[1] = "instr" => v[2] \in DOMAIN f.instrs
    /\ ToSet(f.instrs[id].blks) \subseteq DOMAIN f.blocks
AllPrintable(mod) == \A k \in DOMAIN mod.functions : Printable(mod.functions[k])
StillFails(mod, case) ==
  \E k \in DOMAIN mod.functions : \E id \in PlacedOf(mod.functions[k]) : mod.functions[k].instrs[id].op = case

-----------------------------------------------------------------------------
Reducing == reducer.pass \in ToSet(PassOrder)
At_(pass, fn) == [reducer EXCEPT !.pass = pass, !.fn = fn, !.todo = Todo(reducer.mod, pass, fn)]

StartReducing(mod) ==
  /\ reducer = IdleReducer
  /\ \E case \in Cases :
       reducer' = IF StillFails(mod, case)
            THEN [reducer EXCEPT !.mod = mod, !.case = case, !.pass = "functions", !.fn = 1,
                           !.todo = Todo(mod, "functions", 1), !.round = 1]
            ELSE [reducer EXCEPT !.mod = mod, !.case = case, !.pass = "not failing"]

Tried(trial) ==
  IF ~AllPrintable(trial) THEN [reducer EXCEPT !.pass = "panic"]
  ELSE IF StillFails(trial, reducer.case) THEN [reducer EXCEPT !.mod = trial, !.todo = Tail(@), !.changed = TRUE]
  ELSE [reducer EXCEPT !.todo = Tail(@)]
Try ==
  /\ Reducing /\ reducer.todo # <<>>
  /\ LET k == Head(reducer.todo)
     IN  IF PastPool(reducer.mod, reducer.pass, reducer.fn, k) THEN reducer' = [reducer EXCEPT !.pass = "panic"]
         ELSE IF Skipped(reducer.mod, reducer.pass, reducer.fn, k) THEN reducer' = [reducer EXCEPT !.todo = Tail(@)]
         ELSE \E trial \in {Trial(reducer.mod, reducer.pass, reducer.fn, k)} : reducer' = Tried(trial)

NextFunction ==
  /\ Reducing /\ reducer.todo = <<>> /\ reducer.fn < Len(reducer.mod.functions)
  /\ reducer' = At_(reducer.pass, reducer.fn + 1)

NextPass ==
  /\ Reducing /\ reducer.todo = <<>> /\ reducer.fn >= Len(reducer.mod.functions) /\ reducer.pass # "constants"
  /\ reducer' = At_(PassOrder[CHOOSE n \in 2..4 : PassOrder[n - 1] = reducer.pass], 1)

NextRound ==
  /\ Reducing /\ reducer.todo = <<>> /\ reducer.fn >= Len(reducer.mod.functions) /\ reducer.pass = "constants"
  /\ reducer' = IF reducer.changed /\ reducer.round < MaxPasses
          THEN [At_("functions", 1) EXCEPT !.round = @ + 1, !.changed = FALSE]
          ELSE [reducer EXCEPT !.pass = "reduced"]

ReduceNext == Try \/ NextFunction \/ NextPass \/ NextRound
ReduceDone == reducer.pass \in {"reduced", "panic", "not failing"}

(* The reducer by itself, on any module: its functions and their blocks    *)
(* are lists, and declarations have no blocks.                             *)
IsFunction(f) ==
  /\ {"instrs", "blocks", "strictfp", "declaration"} \subseteq DOMAIN f
  /\ f = [x \in DOMAIN f |-> f[x]]
  /\ IsList(f.blocks) /\ \A k \in DOMAIN f.blocks : IsList(f.blocks[k].body)
  /\ f.declaration => f.blocks = <<>>
IsModule(mod) ==
  /\ "functions" \in DOMAIN mod /\ mod = [x \in DOMAIN mod |-> mod[x]]
  /\ IsList(mod.functions) /\ \A k \in DOMAIN mod.functions : IsFunction(mod.functions[k])

ReduceSpec ==
  ReduceInit /\ [][(\E mod : IsModule(mod) /\ StartReducing(mod)) \/ ReduceNext]_reducer

-----------------------------------------------------------------------------
(* Minimal: where the reducer ends before max_passes, no single further    *)
(* removal of a function, a block or an instruction would leave a module   *)
(* that is still failing ("to the smallest version that still satisfies    *)
(* pred", Reducer::reduce).  Each pass goes by ids that its own removals   *)
(* have made stale: what it skips that way must be tried again.            *)
Candidates(pass, fn) ==
  LET f == reducer.mod.functions[fn]
  IN  CASE pass = "functions" -> 2..Len(reducer.mod.functions)
        [] pass = "blocks" -> 2..Len(f.blocks)
        [] pass = "instructions" -> UNION {ToSet(f.blocks[n].body) : n \in DOMAIN f.blocks}
Smaller(pass, fn, k) ==
  /\ ~Skipped(reducer.mod, pass, fn, k)
  /\ StillFails(Trial(reducer.mod, pass, fn, k), reducer.case)
Minimal ==
  reducer.pass = "reduced" /\ reducer.round < MaxPasses =>
    /\ StillFails(reducer.mod, reducer.case)
    /\ \A pass \in {"functions", "blocks", "instructions"} : \A fn \in DOMAIN reducer.mod.functions :
         \A k \in Candidates(pass, fn) : ~Smaller(pass, fn, k)
=============================================================================
