----------------------------- MODULE PassManager -----------------------------
(***************************************************************************)
(* llvm-transforms/src/pass.rs: the passes of a pipeline run over a module *)
(* in order, again and again, until a round modifies nothing or max_iter   *)
(* rounds are over; and the pipelines that pipeline.rs builds for each     *)
(* level of optimization.                                                  *)
(***************************************************************************)
EXTENDS Threading, Interproc, CfgSimplify, Sanitizers

CONSTANTS
  Jobs,      \* the modules that are optimized, each with its level
  MaxIter    \* max_iter

VARIABLES
  m,         \* the module
  level,     \* the level it is optimized at
  next,      \* the pass to run, an index into the pipeline
  fn,        \* the function it runs on, if it is a pass over functions
  round,     \* the round
  modified,  \* whether a pass of this round said it modified the module
  said,      \* what the last pass said
  source     \* what the module given to the optimizer computes

vars == <<m, level, next, fn, round, modified, said, source>>

(* build_pipeline.                                                         *)
Pipelines ==
  [O1 |-> <<"sroa", "mem2reg", "constant-fold", "const-prop", "dce", "cfg-simplify">>,
   O2 |-> <<"sroa", "mem2reg", "inline", "gvn", "reassoc", "licm", "loop-unroll",
            "constant-fold", "const-prop", "dce", "jump-threading", "tailcall-opt",
            "gvn", "constant-fold", "const-prop", "dce", "slp-vectorizer", "cfg-simplify">>,
   O3 |-> <<"sroa", "mem2reg", "ipcp", "dead-arg-elim", "inline", "gvn", "reassoc", "licm",
            "loop-unroll", "constant-fold", "const-prop", "dce", "jump-threading",
            "tailcall-opt", "gvn", "constant-fold", "const-prop", "dce",
            "constant-fold", "const-prop", "dce", "slp-vectorizer", "cfg-simplify">>,
   asan |-> <<"asan">>, tsan |-> <<"tsan">>, msan |-> <<"msan">>, ubsan |-> <<"ubsan-module">>]

(* The passes that instrument are in no pipeline of build_pipeline; they   *)
(* are run once.                                                           *)
Instruments == {"asan", "tsan", "msan", "ubsan"}

Pipeline == Pipelines[level]

(* add_module_pass: all others are passes over functions.                  *)
ModulePasses == {"inline", "ipcp", "dead-arg-elim", "tailcall-opt",
                 "asan", "tsan", "msan", "ubsan-module"}

FunctionPass(name, f) ==
  CASE name = "sroa" -> SroaPass(f)
    [] name = "mem2reg" -> Mem2RegPass(f)
    [] name = "gvn" -> GvnPass(f)
    [] name = "reassoc" -> ReassocPass(f)
    [] name = "licm" -> LicmPass(f)
    [] name = "loop-unroll" -> UnrollPass(f)
    [] name = "constant-fold" -> ConstantFold(f)
    [] name = "const-prop" -> ConstProp(f)
    [] name = "dce" -> DeadCodeElim(f)
    [] name = "jump-threading" -> JumpThreading(f)
    [] name = "slp-vectorizer" -> SlpPass(f)
    [] name = "cfg-simplify" -> Simplify(f)

ModulePass(name, mod) ==
  CASE name = "inline" -> Inliner(mod)
    [] name = "ipcp" -> Ipcp(mod)
    [] name = "dead-arg-elim" -> DeadArgElim(mod)
    [] name = "tailcall-opt" -> TailCallOpt(mod)
    [] name = "asan" -> Asan(mod)
    [] name = "tsan" -> Tsan(mod)
    [] name = "msan" -> Msan(mod)
    [] name = "ubsan-module" -> Ubsan(mod)

Init ==
  /\ \E job \in Jobs : m = job.module /\ level = job.level
  /\ next = 1 /\ fn = 1 /\ round = IF level \in Instruments THEN MaxIter ELSE 1
  /\ modified = FALSE /\ said = FALSE
  /\ source = Meaning(m)

(* Mutant: the flag of a round is that of its last pass.                   *)
Ran_LastFlag(changed) ==
  /\ said' = changed
  /\ modified' = changed
  /\ UNCHANGED <<level, round, source>>

(* PassManager::run: the flags of a round or'ed.                           *)
Ran(changed) ==
  /\ said' = changed
  /\ modified' = (modified \/ changed)
  /\ UNCHANGED <<level, round, source>>

(* FunctionPassAdapter::run_on_module, for one function.                   *)
RunOnFunction ==
  /\ next <= Len(Pipeline) /\ Pipeline[next] \notin ModulePasses
  /\ \E r \in {FunctionPass(Pipeline[next], m[fn])} :
       m' = [m EXCEPT ![fn] = r.f] /\ Ran(r.changed)
  /\ fn' = IF fn < Len(m) THEN fn + 1 ELSE 1
  /\ next' = IF fn < Len(m) THEN next ELSE next + 1

(* PassManager::run, for one pass over the module.  The inliner may not    *)
(* return from a function whose loops share a header; then nothing follows.*)
RunOnModule ==
  /\ next <= Len(Pipeline) /\ Pipeline[next] \in ModulePasses
  /\ Pipeline[next] = "inline" => \A k \in DOMAIN m : DepthReturns(m[k])
  /\ \E r \in {ModulePass(Pipeline[next], m)} : m' = r.m /\ Ran(r.changed)
  /\ fn' = 1
  /\ next' = next + 1

(* run_until_fixed_point: another round while one modified something.      *)
NextRound ==
  /\ next > Len(Pipeline) /\ modified /\ round < MaxIter
  /\ next' = 1 /\ round' = round + 1
  /\ modified' = FALSE
  /\ UNCHANGED <<m, level, fn, said, source>>

Next == RunOnFunction \/ RunOnModule \/ NextRound

Spec == Init /\ [][Next]_vars

Finished == next > Len(Pipeline) /\ (modified => round = MaxIter)

-----------------------------------------------------------------------------
(* Whatever passes have run, the module still computes what the one given  *)
(* to the optimizer did: the same calls with the same arguments and the   *)
(* same volatile accesses, in the same order, and the same result.         *)
Preserves == Refines(Meaning(m), source)

(* Every pass leaves SSA form: operands computed on every path before      *)
(* their use, phis with one entry per incoming edge ("Every inserted phi   *)
(* has one incoming value per CFG predecessor"); and every call passes as  *)
(* many arguments as its callee has.                                       *)
WellFormed(f) ==
  /\ SsaForm(f)
  /\ \A i \in Live(f) : \A k \in DOMAIN m :
       Calls(f.pool[i], k) => Len(f.pool[i].args) = 1 + m[k].args
Ssa == \A k \in DOMAIN m : WellFormed(m[k])

(* From Mem2Reg on, "No promoted alloca/load/store remains in the block    *)
(* bodies": a slot still there is one whose address, or whose field's      *)
(* address, a block that can run passes to a call, or that is indexed, or  *)
(* that a volatile instruction accesses.                                   *)
Slots == {"alloca", "alloca2"}
OnlyLeakedSlots ==
  (next > 2 \/ round > 1) /\ level \notin Instruments =>
    \A k \in DOMAIN m :
      LET f == m[k]
          ran == UNION {ToSet(Ids(f, b)) : b \in Reachable(Graph(f))}
          users(v, ops) == {i \in ran : f.pool[i].op \in ops /\ Uses(f.pool[i], Res(v))}
          kept(v) == users(v, {"call"}) # {} \/ \E i \in users(v, {"load", "store"}) : Volatile(f.pool[i])
      IN  \A a \in {a \in ran : f.pool[a].op \in Slots} :
            \/ kept(a) \/ users(a, {"index"}) # {}
            \/ \E p \in users(a, {"gep"}) : kept(p)

(* When the rounds are over the IR is stable: no pass over functions of    *)
(* the pipeline would change a block or an instruction of one ("until the  *)
(* IR stabilises"), unless a recursive call could still be inlined.        *)
Unchanged(g, f) == g.blocks = f.blocks /\ \A i \in Live(f) : g.pool[i] = f.pool[i]
Stabilised ==
  Finished /\ (\A k \in DOMAIN m : Sites(m, k) = <<>>) =>
    \A k \in DOMAIN m : \A name \in ToSet(Pipeline) \ ModulePasses :
      Unchanged(FunctionPass(name, m[k]).f, m[k])

(* What an instrumented module does to memory, and what it tells the       *)
(* runtime of the sanitizer, in a traced run.                              *)
InstrOf(e) == m[e.fn].pool[e.at]
Told(e, names) == IsRuntime(InstrOf(e)) /\ e.a[1][2] \in names
Where(e) == IF InstrOf(e).op = "load" THEN e.a[1] ELSE e.a[2]
Accessed(e) == ~IsRuntime(InstrOf(e)) /\ Where(e)[1] = "ptr"

(* "to check shadow memory before the access"; and no access is reported.  *)
AsanTold(t) ==
  \A n \in DOMAIN t :
    /\ Accessed(t[n]) => n > 1 /\ t[n - 1].a[1] = Shadow(Where(t[n]))
    /\ ~Told(t[n], {"asan_report"})

(* Every access but those to slots by their name is announced; functions   *)
(* are left as often as entered.                                           *)
Named(e) == LET p == Pointer(InstrOf(e)) IN IsRes(p) /\ m[e.fn].pool[p[2]].op \in Slots
Within(t, n) ==
  Cardinality({k \in 1..n : Told(t[k], {"tsan_entry"})}) - Cardinality({k \in 1..n : Told(t[k], {"tsan_exit"})})
TsanTold(t, ended) ==
  /\ \A n \in DOMAIN t : Accessed(t[n]) =>
       /\ Within(t, n) > 0
       /\ ~Named(t[n]) =>
            /\ Told(t[n - 1], {IF InstrOf(t[n]).op = "load" THEN "tsan_read" ELSE "tsan_write"})
            /\ t[n - 1].a[2] = Where(t[n])
  /\ ended => Within(t, Len(t)) = 0

(* A load is checked after a store was announced; the alarm is raised for  *)
(* nothing that is defined, and for every first element never stored to.   *)
MsanTold(t) ==
  \A n \in DOMAIN t : Accessed(t[n]) =>
    IF InstrOf(t[n]).op = "store" THEN Told(t[n - 1], {"msan_store"}) /\ t[n - 1].a[2] = Where(t[n])
    ELSE /\ n < Len(t) /\ Told(t[n + 1], {"msan_check"}) /\ t[n + 1].a[2] = Where(t[n])
         /\ t[n + 1].v = Word(1) => t[n].v = Poison
         /\ Where(t[n])[3] = 0 /\ (\A k \in 1..n : Told(t[k], {"msan_store"}) => t[k].a[2] # Where(t[n]))
              => t[n + 1].v = Word(1)

(* "call handler functions when UB is detected": when, and only when, the  *)
(* run divides by zero, follows a null pointer or reaches unreachable.     *)
UbsanTold(t, end) ==
  LET handlers == {"ubsan_divrem", "ubsan_null", "ubsan_unreachable"}
  IN  /\ \A n \in DOMAIN t : Told(t[n], handlers) => n = Len(t) /\ end = "ub"
      /\ end = "ub" => t # <<>> /\ Told(t[Len(t)], handlers)

(* A module that a sanitizer has instrumented tells its runtime what it is *)
(* there to watch, at the time, for every argument.                        *)
ToldRight(r) ==
  CASE level = "asan" -> AsanTold(r.trace)
    [] level = "tsan" -> TsanTold(r.trace, r.end = "ret")
    [] level = "msan" -> MsanTold(r.trace)
    [] level = "ubsan" -> UbsanTold(r.trace, r.end)
Instrumented ==
  Finished /\ level \in Instruments => \A x \in Inputs : ToldRight(RunOf(m, x, TRUE))

(* A pass that says it modified nothing has modified nothing: "Returns     *)
(* `true` if the IR was modified", and the rounds end on its word.         *)
HonestNo == [][(next' > next \/ fn' > fn) /\ ~said' => m' = m]_vars

(* At the end the functions are in SSA form: no use is left of a value that*)
(* was folded away ("rewrites all downstream uses of that instruction      *)
(* result"; for loop-carried constants a second pass is to do it).         *)
SsaAtLast == Finished => \A k \in DOMAIN m : SsaForm(m[k])
=============================================================================
