----------------------------- MODULE Sanitizers -----------------------------
(***************************************************************************)
(* The passes of llvm-transforms that instrument a module: asan.rs,        *)
(* tsan.rs, msan.rs and ubsan.rs.  They announce what the module does to a *)
(* runtime, external to it, whose functions are declared and not defined;  *)
(* the numbers of bytes in their names are left out.  An element of an     *)
(* array or a struct has four bytes.                                       *)
(***************************************************************************)
EXTENDS Ir

Plain(op, v) == Instr(op, <<v>>, <<>>)
CallRuntime(name, args) == Instr("call", <<Runtime(name)>> \o args, <<>>)

(* Where the instructions in S are, the last of the last block first, so   *)
(* that what is inserted at one place leaves those to come where they were.*)
Places(f, S) ==
  Reverse(FlattenSeq([b \in DOMAIN f.blocks |->
    LET body == f.blocks[b].body
        here == SelectSeq([k \in DOMAIN body |-> k], LAMBDA k : body[k] \in S)
    IN  [n \in DOMAIN here |-> [b |-> b, k |-> here[n]]]]))

InBodies(f, ops) == {i \in Live(f) : f.pool[i].op \in ops}
At(f, p) == f.pool[f.blocks[p.b].body[p.k]]

(* The new instructions, inserted into the body of block b before place k. *)
InsertNew(f, b, k, new) ==
  LET n == Len(f.pool)
  IN  [f EXCEPT !.pool = @ \o new,
                !.blocks[b].body = SubSeq(@, 1, k - 1) \o [j \in DOMAIN new |-> n + j]
                                     \o SubSeq(@, k, Len(@))]

(* The block of place p ends with a check; what was at p and behind it goes*)
(* on in a new block, which the alarm, in another, leads back to.  Phis    *)
(* that name the block are not told.                                       *)
SplitAt(f, p, check, alarm) ==
  LET c == Len(f.pool) + Len(check)
      ok == Len(f.blocks) + 1
      blk == f.blocks[p.b]
      checking == [body |-> SubSeq(blk.body, 1, p.k - 1) \o [j \in DOMAIN check |-> Len(f.pool) + j],
                   term |-> c + 1]
      going == [blk EXCEPT !.body = SubSeq(@, p.k, Len(@))]
  IN  [f EXCEPT
         !.pool = @ \o check \o <<Instr("condbr", <<Res(c)>>, <<ok + 1, ok>>), alarm,
                                  Instr("br", <<>>, <<ok>>)>>,
         !.blocks = [@ EXCEPT ![p.b] = checking] \o <<going, [body |-> <<c + 2>>, term |-> c + 3]>>]

(* The address that a load or a store takes.                               *)
Pointer(i) == IF i.op = "load" THEN i.args[1] ELSE i.args[2]

(* add_module_ctor: once.                                                  *)
AddCtor(m, name, init) ==
  IF \E k \in DOMAIN m : m[k].name = <<name>> THEN m
  ELSE Append(m, [name |-> <<name>>, args |-> 0, strictfp |-> FALSE,
                  pool |-> <<CallRuntime(init, <<>>), Instr("ret", <<>>, <<>>)>>,
                  blocks |-> <<[body |-> <<1>>, term |-> 2]>>])

-----------------------------------------------------------------------------
(* Mutant: the zone in front is the slot itself.                           *)
Redzones_Slot(f, p) ==
  LET n == Len(f.pool)
      zone == Instr("alloca", <<>>, <<>>)
      slot == f.blocks[1].body[p.k]
      new == <<zone, zone, Plain("ptrtoint", Res(slot)), Plain("ptrtoint", Res(n + 2)),
               CallRuntime("asan_poison", <<Res(n + 3), Const(32)>>),
               CallRuntime("asan_poison", <<Res(n + 4), Const(32)>>)>>
  IN  [f EXCEPT !.pool = @ \o new,
                !.blocks[1].body = SubSeq(@, 1, p.k - 1) \o <<n + 1, @[p.k]>>
                                     \o [j \in 1..5 |-> n + 1 + j] \o SubSeq(@, p.k + 1, Len(@))]

(* asan.rs: add_stack_redzones, one on each side of every slot of the      *)
(* first block, and both poisoned.                                         *)
Redzones(f, p) ==
  LET n == Len(f.pool)
      zone == Instr("alloca", <<>>, <<>>)
      poison(i) == CallRuntime("asan_poison", <<Res(i), Const(32)>>)
      new == <<zone, zone, Plain("ptrtoint", Res(n + 1)), Plain("ptrtoint", Res(n + 2)),
               poison(n + 3), poison(n + 4)>>
  IN  [f EXCEPT !.pool = @ \o new,
                !.blocks[1].body = SubSeq(@, 1, p.k - 1) \o <<n + 1, @[p.k]>>
                                     \o [j \in 1..5 |-> n + 1 + j] \o SubSeq(@, p.k + 1, Len(@))]

StackSlots(f) == InBodies(f, {"alloca", "alloca2"})
AddStackRedzones(f) ==
  FoldLeft(Redzones, f, Places(f, StackSlots(f) \cap ToSet(f.blocks[1].body)))

(* get_report_fid.                                                         *)
Report(address) == CallRuntime("asan_report", <<address>>)

(* instrument_memory_accesses: "shadow" is the arithmetic from an address  *)
(* to that of its shadow byte.                                             *)
CheckShadow(f, p) ==
  LET n == Len(f.pool)
  IN  SplitAt(f, p, <<Plain("ptrtoint", Pointer(At(f, p))), Plain("shadow", Res(n + 1)),
                      Plain("load", Res(n + 2)), Instr("ne", <<Res(n + 3), Const(0)>>, <<>>)>>,
              Report(Res(n + 1)))

Accesses(f) == InBodies(f, {"load", "store"})
AsanFunction(f) == LET g == AddStackRedzones(f) IN FoldLeft(CheckShadow, g, Places(g, Accesses(g)))

AsanCtor(m) == AddCtor(m, "asan.module_ctor", "asan_init")
Asan(m) ==
  LET c == AsanCtor(m)
  IN  [m |-> [k \in DOMAIN c |-> AsanFunction(c[k])],
       changed |-> \E k \in DOMAIN c : AsanFunction(c[k]) # c[k]]

-----------------------------------------------------------------------------
(* tsan.rs: insert_func_entry, insert_func_exits.                          *)
FuncEntry(f) == InsertNew(f, 1, 1, <<CallRuntime("tsan_entry", <<Const(0)>>)>>)
FuncExit(f, b) ==
  IF f.pool[f.blocks[b].term].op # "ret" THEN f
  ELSE InsertNew(f, b, Len(f.blocks[b].body) + 1, <<CallRuntime("tsan_exit", <<>>)>>)

(* is_alloca_derived: an access to a slot of the first block, directly by  *)
(* its name, is not announced.                                             *)
Shared(f) ==
  LET own == {Res(i) : i \in StackSlots(f) \cap ToSet(f.blocks[1].body)}
  IN  {i \in Accesses(f) : Pointer(f.pool[i]) \notin own}

(* instrument_memory_accesses.                                             *)
Announce(f, p, name) ==
  LET n == Len(f.pool)
  IN  InsertNew(f, p.b, p.k, <<Plain("ptrtoint", Pointer(At(f, p))), CallRuntime(name, <<Res(n + 1)>>)>>)
TsanAccess(f, p) == Announce(f, p, IF At(f, p).op = "load" THEN "tsan_read" ELSE "tsan_write")

TsanFunction(f) ==
  LET framed == FoldLeft(FuncExit, FuncEntry(f), [b \in DOMAIN f.blocks |-> b])
  IN  FoldLeft(TsanAccess, framed, Places(framed, Shared(f)))

TsanCtor(m) == AddCtor(m, "tsan.module_ctor", "tsan_init")
Tsan(m) ==
  LET c == TsanCtor(m)
  IN  [m |-> [k \in DOMAIN c |-> IF c[k].name = <<"tsan.module_ctor">> THEN c[k] ELSE TsanFunction(c[k])],
       changed |-> TRUE]

-----------------------------------------------------------------------------
(* msan.rs: instrument_allocas.  The size of what is no number and no      *)
(* pointer counts as four, one element.                                    *)
PoisonStack(f, p) ==
  LET n == Len(f.pool)
      slot == f.blocks[p.b].body[p.k]
  IN  InsertNew(f, p.b, p.k + 1, <<Plain("ptrtoint", Res(slot)),
                                  CallRuntime("msan_poison", <<Res(n + 1), Const(4)>>)>>)

(* instrument_memory_accesses: a store is announced before, a load checked *)
(* behind it.                                                              *)
MsanAccess(f, p) ==
  LET n == Len(f.pool)
  IN  IF At(f, p).op = "store" THEN Announce(f, p, "msan_store")
      ELSE InsertNew(f, p.b, p.k + 1, <<Plain("ptrtoint", Pointer(At(f, p))),
                                       CallRuntime("msan_check", <<Res(n + 1)>>)>>)

MsanFunction(f) ==
  LET g == FoldLeft(PoisonStack, f, Places(f, StackSlots(f)))
  IN  FoldLeft(MsanAccess, g, Places(g, Accesses(g)))

MsanCtor(m) == AddCtor(m, "msan.module_ctor", "msan_init")
Msan(m) ==
  LET c == MsanCtor(m)
      instrumented(f) == IF f.name = <<"msan.module_ctor">> THEN f ELSE MsanFunction(f)
  IN  [m |-> [k \in DOMAIN c |-> instrumented(c[k])],
       changed |-> \E k \in DOMAIN c : instrumented(c[k]) # c[k]]

-----------------------------------------------------------------------------
(* ubsan.rs: UBSAN_RUNTIME_FNS.  A pass over one function does not see the *)
(* module: it calls a handler by its place in this list.                   *)
Handlers == <<"ubsan_add", "ubsan_sub", "ubsan_mul", "ubsan_null", "ubsan_divrem", "ubsan_unreachable">>
CallHandler(name) ==
  Instr("call", <<<<"placeholder", CHOOSE k \in DOMAIN Handlers : Handlers[k] = name>>>>, <<>>)

(* apply_resolution_table: the calls get the declared functions.           *)
Resolved(v) == IF v[1] = "placeholder" THEN Runtime(Handlers[v[2]]) ELSE v
ApplyResolutionTable(f) ==
  [f EXCEPT !.pool = [i \in DOMAIN @ |-> [@[i] EXCEPT !.args = [k \in DOMAIN @ |-> Resolved(@[k])]]]]

(* instrument_int_overflow: the handler is called before every sum,        *)
(* difference and product that may wrap, whatever comes out.               *)
Wrapping(f) == {i \in InBodies(f, {"add", "sub", "mul"}) : "nsw" \notin f.pool[i].flags}
OverflowHandler(f, p) ==
  InsertNew(f, p.b, p.k, <<CallHandler("ubsan_" \o At(f, p).op)>>)

(* instrument_div_by_zero, instrument_null_ptr.                            *)
CheckDivisor(f, p) ==
  SplitAt(f, p, <<Instr("eq", <<At(f, p).args[2], Const(0)>>, <<>>)>>, CallHandler("ubsan_divrem"))

CheckNull(f, p) ==
  SplitAt(f, p, <<Instr("eq", <<Pointer(At(f, p)), Null>>, <<>>)>>, CallHandler("ubsan_null"))
MaybeNull(f) == {i \in Accesses(f) : Pointer(f.pool[i]) \notin {Res(s) : s \in StackSlots(f)}}

(* instrument_unreachable.                                                 *)
UnreachableHandler(f, b) ==
  IF f.pool[f.blocks[b].term].op # "unreachable" THEN f
  ELSE InsertNew(f, b, Len(f.blocks[b].body) + 1, <<CallHandler("ubsan_unreachable")>>)

(* UbsanPass::run_on_function: each step over what the one before has left.*)
UbsanFunction(f) ==
  LET sums == FoldLeft(OverflowHandler, f, Places(f, Wrapping(f)))
      divided == FoldLeft(CheckDivisor, sums, Places(sums, InBodies(sums, Divisions)))
      checked == FoldLeft(CheckNull, divided, Places(divided, MaybeNull(divided)))
  IN  FoldLeft(UnreachableHandler, checked, [b \in DOMAIN checked.blocks |-> b])

(* UbsanModulePass::run_on_module.                                         *)
Ubsan(m) ==
  [m |-> [k \in DOMAIN m |-> ApplyResolutionTable(UbsanFunction(m[k]))],
   changed |-> \E k \in DOMAIN m : UbsanFunction(m[k]) # m[k]]
=============================================================================
