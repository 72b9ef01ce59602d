# LLVM-in-Rust: TLA+ models and proofs

These modules model LLVM-in-Rust from its file formats to its object files: the
text and bitcode formats, the builder, the reducer and the linker of modules;
the control-flow analyses and the optimizer at O1, O2 and O3, with the
sanitizers; instruction selection as far as control flow goes, live intervals,
register allocation and spilling; object files and the JIT. TLC checks them on
small instances; TLAPS proves the register allocators, the control-flow
analyses, phi destruction, the loops of machine code, the choice of registers
after spilling, the reducer, the merge of modules and the pointers of the JIT for
every instance.
`PROJECT.json` maps each definition to the lines it stands for and lists the
runs, the hazards and the findings.

Run a check with `tlc -config MCLinearScan.cfg LinearScan` (module and
configuration of each run below) and a proof with `tlapm LinearScanProofs.tla`.

Paths below are relative to `src/`, the workspace of crates.

## 1. The system

LLVM-in-Rust is a compiler middle and back end without LLVM. It is sequential:
no crate runs two threads over one structure, and nothing is persisted but the
files it writes. What makes it hard is not interleaving but order: graph
algorithms that repeat until nothing changes, rewrites that leave structures the
next rewrite must still understand, and tables whose entries outlive what they
describe.

```
 .ll text --lexer,parser--+                                   +-> ELF / Mach-O / COFF
 .bc / LRIR --readers-----+-> Context + Module --PassManager->+   (compile.rs, emit.rs)
 Builder -----------------+     (llvm-ir)      (llvm-transforms)
                                                   |          +-> executable pages (JIT)
                                     Cfg, DomTree, LoopInfo   +-> wasm module
                                       (llvm-analysis)        |
                                                              +-> lower_function ->
   compute_live_intervals -> linear_scan | graph_color -> insert_spill_reloads
     -> apply_allocation -> Emitter
```

| Component | State | Operations | What is hard | What makes it correct |
|---|---|---|---|---|
| IR (`llvm-ir`) | interning tables of types and constants; per function a pool of instructions that only grows, blocks as lists of ids, a terminator id | `alloc_instr`, `Builder`, printers, `Reducer` | an instruction removed from its block stays in the pool and keeps its operands | SSA form: an operand is computed on every path to its use; equal data has equal ids |
| Analyses (`llvm-analysis`) | predecessor lists and reverse post-order; `idom` by order number; loops with headers, bodies, parents | `Cfg::compute`, `DomTree::compute`, `dominates`, `dominance_frontier`, `LoopInfo::compute`, `depth`; use-def, alias, call graph | fixed points, irreducible graphs, unreachable blocks, explicit stacks | agreement with dominance and loops defined by paths; termination |
| Pass manager (`pass.rs`, `pipeline.rs`) | the list of passes; the flag of a round | `run`, `run_until_fixed_point`, `build_pipeline` | passes see what earlier ones left; the rounds end on the passes' word | each pass preserves meaning and SSA form; the end is a fixed point |
| O1 passes | substitution maps, definition stacks, work lists | Sroa, Mem2Reg, ConstantFold, ConstProp, DeadCodeElim, CfgSimplify | substitution before or after a use is visited, block renumbering under phis | as above, and slots are gone where promised |
| O2/O3 passes | available expressions and loads, loop bodies, clone maps | Gvn, Licm, LoopUnroll, JumpThreading, TailCallOpt, SLP, Inliner, Ipcp, DeadArgElim, Reassoc | availability on paths that are not in the dominator tree; phis of split blocks | as above |
| Sanitizers | declared runtime functions, a constructor | Asan, Msan, Tsan, Ubsan | instrumenting what was just inserted; splitting blocks under phis | each access checked once, before it happens |
| Instruction selection (`lower.rs` of each target) | `vmap` from values to registers; machine blocks, trampolines appended at the end | `lower_function`, `lower_terminator`, `emit_phi_copies`, `resolve` | parallel copies; copies of one edge on the path of another; IR block numbers used as machine block numbers | machine code and IR agree on every operand, on every path |
| Live intervals (`regalloc.rs`) | one interval per register over layout order | `compute_live_intervals` | control flow is not layout order; nested loops; trampolines behind the code they return to | registers live at once have overlapping intervals |
| Allocation | sorted intervals, active list, free list; or graph, stack, colours | `linear_scan`, `graph_color`, `allocate_registers` | eviction; optimistic colouring; empty pools | no register is shared; every interval has one fate |
| Spilling | code being rewritten, fresh registers, slots | `insert_spill_reloads`, `color_spill_reload_vregs`, `apply_allocation` | reloads needed exactly when no register is free; two-address instructions | every live value is where the allocation says |
| Scheduler (`schedule.rs`) | dependence graph, ready list | `build_dep_dag`, `list_schedule` | memory and control edges | the order respects every dependence |
| Emission (`emit.rs`, encoders, `cfi.rs`, `lsda.rs`) | sections, symbols, relocations, branch fix-ups | `emit_object`, `encode_*`, `serialize_*` | displacements patched after the layout is known | every branch and relocation names its target |
| Drivers (`compile.rs`, `lto.rs`, `thinlto.rs`) | merged text, symbol table; merged module | `compile_ir_to_object`, `merge_module_into` | definitions after uses; ids of one context used in another | a defined symbol is defined in the result |
| JIT (`llvm-jit`) | pages, symbol table | `add_module`, `get_function_ptr` | a failure between publishing and protecting | a symbol points into a live, executable page |
| WebAssembly target | loop headers, control tree | `reloop`, lowering | loop bodies, joins | the tree has the paths of the graph |
| Parser, bitcode | value tables with forward references; bit cursor, block stack, abbreviations | `parse`, `read_*`, `write_*` | references before definitions; abbreviation scopes | reading what was written gives it back |
| rustc backend | mock MIR, builder calls | places, aggregates, drop glue, unwind | partly moved values on unwind paths | each value is dropped once |

## 2. The modules

Every module is constant-free or takes its inputs as CONSTANT sets; the `MC`
modules define those sets. No module that carries proofs uses recursive operators.

| Module | Code | What it is |
|---|---|---|
| `Intervals` | `regalloc.rs` | live intervals, overlap, register pressure |
| `RegAssign` | what `linear_scan` and `graph_color` return | the abstract allocator: place, spill, evict |
| `LinearScan` | `regalloc.rs` `linear_scan` | one step per interval, with expiry, eviction and the empty pool |
| `GraphColor` | `regalloc_gc.rs` | simplify and select, one node a step |
| `LinearScanProofs`, `GraphColorProofs` | | theorems about the allocators |
| `Lists`, `DataLemmas` | | what a filter keeps of a list; least elements, induction on a set, functions defined by recursion, lists: what all proofs use |
| `MachineCode` | `isel.rs` | machine instructions and blocks, as reads, writes and jumps |
| `Isel` | `llvm-target-x86/src/lower.rs` | lowering of control flow, phi copies in two stages, trampolines |
| `PhiLowering` | the same | IR and lowered code run in lock step |
| `LiveIntervals` | `regalloc.rs` `compute_live_intervals` | scan, search for back edges, extension rounds |
| `SpillReload` | `regalloc.rs` from `insert_spill_reloads` | rewriting, colouring of fresh registers, renaming, then running the code |
| `Codegen` | `compile.rs`, for one function | the stages composed: what `Isel` lowers goes through intervals, allocation, spilling and renaming |
| `CodegenProofs` | | theorems about lowered code |
| `SpillProofs` | | theorems about the loops of machine code and the registers after spilling |
| `FlowGraph` | | reachability and dominance, by definition |
| `Cfg`, `DomTree`, `Loops` | `cfg.rs`, `dominators.rs`, `loops.rs` | the analyses, each continuing where the one before ended |
| `LoopsProofs` | | theorems about the analyses, from the laws of dominance on |
| `Ir` | `llvm-ir` | modules of functions as pools and blocks, what they compute, SSA form |
| `Mem2Reg` | `mem2reg.rs`, `sroa.rs` | a pass is an operator from a function to `[f, changed]` |
| `ConstFold` | `constant_fold.rs`, `constant_fold_pass.rs`, `const_prop.rs`, `reassoc.rs`, `gvn.rs` | folding, propagation, reassociation, and value numbering along the dominator tree |
| `CfgSimplify` | `cfg_simplify.rs`, `dce.rs` | trivial phis, unreachable and absorbed blocks, dead instructions |
| `Licm` | `licm.rs`, `loop_unroll.rs` | the passes over loops |
| `Threading` | `jump_threading.rs`, `tailcall.rs`, `slp.rs` | threading in its three parts, tail calls, operations on vectors |
| `Interproc` | `inline_pass.rs`, `ipcp.rs`, `dead_arg_elim.rs` | the passes over several functions |
| `Sanitizers` | `asan.rs`, `tsan.rs`, `msan.rs`, `ubsan.rs` | the passes that instrument |
| `PassManager` | `pass.rs`, `pipeline.rs` | the rounds of a pipeline over a module |
| `Syntax` | `llvm-ir` (`instruction.rs`, `function.rs`, `module.rs`, `types.rs`, `value.rs`) | modules as data: every instruction with its fields, types, constants, metadata |
| `Printer` | `printer.rs` | from a module to tokens |
| `Parser` | `lexer.rs`, `parser.rs` | from tokens to a module, one step per entity, label and instruction |
| `Builder` | `builder.rs` | a caller asks for a module, call by call |
| `Reduce` | `reduce.rs` | four passes of removals under a predicate |
| `Lrir` | `llvm-bitcode` `writer.rs`, `reader.rs` | the project's own bitcode, record by record, and the interning tables |
| `Linker` | `lto.rs` `merge_module_into`, `llvm-jit/src/lib.rs` | modules put together by the names of their functions: merged one function a step, or loaded into the JIT |
| `ModuleProofs` | | theorems about the reducer, the merge and the JIT |
| `Lto` | `lto.rs` | embedding, reading back, then merging (`Linker`) |
| `LlvmBitcode` | `bitstream.rs`, `llvm_reader.rs` | the files that LLVM writes, as the reader relies on them (external), and the reader, item by item |
| `Objects` | `compile.rs`, `emit.rs` | functions and globals to object files |
| `Files` | | the composition: parsed or built, then printed, embedded and linked, reduced, compiled; or read from LLVM's bitcode; or loaded into the JIT |

How state corresponds, module by module:

* **LinearScan.** `todo` is what is left of the sorted intervals, `active` and
  `free` are the lists of the same name, `asg` is `vreg_to_preg`, `spilled` the
  list of spilled registers. One action per outcome of an iteration: a register
  is taken from `free` (`Assign`), the furthest interval is evicted
  (`SpillActive`) or the current one is spilled (`SpillCurrent`), each after the
  expiry at the head of the iteration; `SpillAll` is the early return. Both
  lists are kept as sets with the code's sort keys, ties included; which free
  register is taken is left open, as no property depends on it.
* **GraphColor.** `work` is the graph still to be simplified, `stack` the select
  stack, `potential` is `potential_spills`, `phase` tells the two loops apart.
* **Isel, PhiLowering.** A function has, per block, the values it defines and
  reads, its phis with one value per predecessor, and its terminator. `Isel`
  gives each IR value the register `vmap` would, materialises constants where
  `resolve` does, and lowers terminators in layout order, appending
  trampolines. An invoke unwinds out of its call, by the table of call sites
  (`Call`): no machine jump goes there. Of a catchswitch only the edge to its
  first successor is lowered (`LoweredEdges`), as the code does ("stub");
  unreachable, resume and what unwinds to the caller are placeholders in the
  code, behind which the model ends the function. `PhiLowering` then walks an arbitrary path: `irEnv` is what the IR
  says, `regs` what the machine code left in its registers.
* **Codegen.** `stage` says where the function is; each stage starts from what
  the one before left, as `compile_ir_to_object` calls them. It extends
  `PhiLowering` and `SpillReload` (which extends `LiveIntervals`), so that their
  variables are its own, and what one stage hands to the next is an assignment
  (`Generate`). Straight lines of machine code enter at the back end.
* **LiveIntervals.** `color` and `stack` are those of the depth-first search,
  `backEdges` its result, one target per step; `edge` and `changed` are the
  position and flag of an extension round.
* **SpillReload.** `Allocate` chooses any allocation `linear_scan` could
  return; `Rewrite` takes one instruction a step; `Color` one fresh register;
  `Run` executes an original instruction and what it became. `starved` records
  (as a history variable) that `or_else(|| pool.first())` was taken.
* **Cfg, DomTree, Loops.** `calls` is the recursion stack of `dfs`, `idom` the
  vector over order numbers (0 for UNDEF), `finger1` and `finger2` the two
  fingers of `intersect`; `stack`, `backEdges`, `queue` and `body` the locals of
  `LoopInfo::compute`; `at` and `depth` those of `depth`.
* **Ir.** `pool` is `Function::instructions`, `blocks` are the lists of ids; a
  module is a sequence of functions. Types and names are left out. `Meaning`
  runs a module on each input and keeps the calls of what it does not define,
  with their arguments, and the result; a run is cut where more than
  `MaxBlocks` blocks, times the size of the function, are entered, and `Refines`
  compares cut runs by what they did. An undefined value may become any value.
  Floating-point numbers are exact words: no rounding, no infinity, no NaN. A
  vector is a pair. A volatile access is something done, like a call. `depth` in
  the inliner may not return for a function with two loops of one header; then no
  step follows (`DepthReturns`), which no function of the run comes to.
* **PassManager.** `next` and `fn` are the pass of the round and the function it
  is on, `modified` the flag or'ed over the round, `said` what the last pass
  returned, `source` the meaning of the module at the start (a history
  variable). `run_until_fixed_point` is `NextRound`. The sanitizers are in no
  pipeline of `build_pipeline`: each is a level of its own, run once. Their
  runtime is external: it keeps one word of shadow per address and records the
  calls; the arithmetic of shadow addresses is one operation, and sizes of
  accesses are left out.
* **Syntax, Printer, Parser.** An instruction is one record whatever its kind:
  words, choices, types, operands, blocks and numbers in the order of the
  fields. Text is a sequence of tokens. `p` is `struct Parser` with the locals
  of the functions that are open, `level` where it is. An integer constant has
  `WordBits` bits (64 in the code, 8 here), so that the largest numbers of the
  lexer occur. `LimitAssumption` and the four limits are `ParseLimits`.
* **Builder.** `script` is the module the caller has in mind, `given` the
  operands it has been returned. It adds all blocks of a function first and
  fills them one after the other, in any order in which the operands exist.
* **Reduce.** `todo` lists what is still to be tried of the function `fn`, as
  the code lists it: ids taken before a removal are used after it.
* **Lrir, Lto.** `file` is the sequence of records, `reader` the reader's locals,
  `objects` what has been embedded. A cut file lacks its last records. The id of
  a reference to a global is written and read, but always "none": nothing looks
  at it.
* **Linker.** `decoded` are the modules that were read, `linked` the destination
  of the merge with how far its loops have come: `merged` modules, `globalsIn`
  and `functionsIn` of the next; it is no longer `ok` when `merge_module_into`
  has returned an error. `jit` has the pages and symbols of `SimpleJit`, and (a
  history variable) the modules it was given with what became of each: `"no
  memory"` when the page could not be had, `"no exec"` when it could not be
  protected.
* **LlvmBitcode.** `stream` is the sequence of items (blocks, abbreviations,
  records) and `bc` the reader: the stack of open blocks with the abbreviations
  known in each, the tables of types and values. The writer is external and
  states what the reader assumes: relative references, signed ones in phis with
  the sign where the reader looks for it, a
  value for every function and global first (`BodiesComeBack` does not compare
  the operands of phis, which the reader reads as unsigned), types after their components,
  elements before aggregates, names before or behind the bodies, abbreviations
  nowhere, in a block before or behind a nested one, or for all blocks.
* **Objects.** `object` is `compile_ir_to_object_with_limits` at O0: `done`
  functions have been merged, then the globals, then the file is written; text,
  data and relocations are sequences over bytes, a byte being what it is a byte
  of. The code of a function has one byte for each instruction, so what
  its instructions say is left out.

## 3. The runs

| Run | Question | Instance |
|---|---|---|
| `linear_scan` | does the scan share a register, spill without need, spill the wrong interval? does it implement `RegAssign`? | all choices of 4 intervals over 5 positions, every pool of 0 to 2 registers |
| `graph_color` | the same for colouring; are low-degree nodes always coloured? | the same |
| `codegen` | does lowered code agree with IR on each path; do intervals separate what liveness separates; is every live value where the allocation says; does it end? | loop headers with up to 2 phis, swapped, constant and self-referring sources, forward and back edges, invokes, one whose call unwinds, a catchswitch, nests; paths of 4 blocks. The loops and nests go on to the back end, as do 162 three-address lines; 2 registers, every allocation |
| `phi_switch` (violation) | the same for a switch | switches with phis in the case targets |
| `live_trampoline` (violation) | the same with a forward trampoline | an if without else |
| `spill_in_place` (violation) | the same for two-address code | the lines with an in-place operation |
| `analyses` | order, dominators, frontier, loops, depth: do they agree with their definitions by paths? do queries end? | every graph of 4 blocks over 7 target lists, and 216 of 5 blocks, irreducible and with unreachable blocks |
| `loops_two_tails` (violation) | does `depth` return? | a header with two back edges |
| `optimizer` | does each pass keep meaning and SSA form? are slots gone, is the end stable, is "nothing modified" true? does a sanitizer tell its runtime what it is there to watch? | O1: about 1700 functions, 8 shapes, two variables in slots or in a struct, 3 prologues, 6 statements at two places, all ten integer predicates, volatile accesses; O2 and O3: 107 modules each, made so that every pass has work; 528 instrumented modules; 3 inputs |
| `optimizer_loop` (violation) | does folding in a loop leave SSA form? | the loops left out above |
| `files` | does what was written come back, is what is refused refused for a reason, does the parser advance, is what was reduced minimal, do symbols and relocations lead where they should, do the JIT's pointers? | three modules with every kind of instruction and constant, nine odd texts, four built modules; files whole and cut off; links with one or two other modules; nine layouts of LLVM's files; three object formats; up to three loads of three modules with every failure |
| `lto_constants` (violation) | do constants keep their value when a function moves to another context? | the links above |

**Bounds.** Four intervals and two registers are the fewest in which an
eviction, an expiry and a second pressure point all occur in one run, and in
which colouring meets a potential spill that is coloured after all. Five
positions allow nested, disjoint, touching and equal intervals. Two parallel
phis are enough for a swap, and the third block on a path for a value that a
copy has overwritten. Five blocks are enough for an irreducible loop beside a
natural one, and for nested loops with a common latch. In the optimizer, 4
bits and the inputs 0, 2 and 15 reach both sides of every branch and an
overflowing sum at run time; `MaxBlocks = 24` lets every loop of the instance
end; `SizeLimit` and `InlineDepth` of the inliner are small so that both sides of
each occur (O3 has larger ones in the code; the comparison is the same). `MaxIter = 3` is enough, since `Stabilised` holds after the third round. `MaxSteps`, `MaxBlocks`, `MaxIter` the cap on `depth` (one
past the number of loops), `MaxRun`, `MaxFree` and `MaxLoads` are the only bounds in guards or definitions.

**What is left out of a passing run, and is in a violation run instead:** forward
branch edges that carry phi copies, two-address operations on spilled
destinations (`codegen`), headers with two back edges (`AnswersUnlessShared`),
sums of constants round a loop (`optimizer`), constants that move to another
context (`files`, where the properties of links name what is kept). States with
`starved` are excused by `FreshApartUnlessStarved` and `LocationsAgree`; with two
registers those are most of the loops that spill. With three, a loop with two
phis may spill the second without starving, and then the code is wrong: `MCLatch`,
section 5. Nor do the functions of `codegen` have loops that the search does not
see: `MCUnseen`, in the same section.

**Left out altogether**, since the code mishandles them; the first group are
hazards of `PROJECT.json` with a note:

* O1: functions where a merged block feeds a phi, where an unreachable block
  joins twice in a row, or where a constant sum passes the width of its type.
* O2, O3: a load below a store on a path that is not in the dominator tree
  (`ConstFold`, value numbering); arms of a branch with nothing left to do, blocks that compute
  something beside the phi they branch on, and two empty blocks that branch to
  each other (`Threading`); a division that a loop may not reach (`Licm`); a
  loop whose trip count is one but whose comparison is of something else
  (`LoopUnroll`); recursive callees, calls before a phi of a successor, and
  returns that are not last (`Interproc`); packs with a store between the loads
  or whose right operand is loaded elsewhere (`Threading`); reassociated values that
  branches other than conditional ones use (`ConstFold`).
* Sanitizers: functions with phis behind a split, and running a sanitizer twice,
  which instruments again, as asan, tsan and msan always report a change.
* Files: packed structs without a name (parsed as vectors), a pointer alone as
  a global's initialiser (refused), unnamed arguments in use (printed as a name
  nothing defines), catchpads from the builder; arrays with an alignment that is
  no power of two, `ptrtoint` to fewer than eight bytes and casts of relocated
  words (`Objects`), whose relocations lie in the wrong place.

**Deadlock** is checked everywhere but in the optimizer's runs, where the system
stops when its rounds are over; the other modules say where they may stop by a
stuttering `Done` or `FilesStop`.

**Fairness.** The code is sequential: a function that has a next step takes it.
`Codegen` (`Terminates`, for the interval stage) and `Loops`
(`AnswersUnlessShared`) state liveness under weak fairness of the next step,
which says no more than that. The choice between queries in `Loops` is not under
fairness. That the parser ends is stated without fairness, as a rank that every
step lowers unless it uses up a token (`Progress`). The other
modules state safety only and have none.

## 4. The proofs

**The allocators** are proved for every finite set of virtual registers, every
finite set of physical ones and every pool of them, and every assignment of
intervals. The assumptions are those of `Intervals`: virtual registers are
finitely many natural numbers (the code's sorts compare them), `None` is no
physical register, `MaxPos` is a natural number.

`LinearScanProofs` has one inductive invariant, `IInv`, and every safety theorem
is one of its parts or follows from it in a step:

* `TypeOK` and `OneFate` (`TypeCorrect`, `EveryFate`) say that waiting, assigned
  and spilled registers are three disjoint sets.
* `NoShare` (`NeverShares`) is not inductive by itself: a register is given out
  again after its interval expired. `ActiveOwns` says that active intervals own
  distinct registers and none of them is free, `ScanOrder` that what was visited
  starts no later than what waits, and `GivenBack` that an assigned interval
  that is no longer active ends before any waiting one starts. So a new
  assignment can only meet active intervals, whose registers are not free.
* `NoneLost` says that each register of the pool is free or owned. At a spill
  none is free, so the active intervals, all live there, are at least as many as
  the pool: `SpillsOnlyUnderPressure`.
* `SpillsTheLongest`: the active list has a last element in the code's order
  (`FurthestExists`: of its members, the one that the fewest come after), and the
  interval spilled ends no earlier than that one.
* `ImplementsPromise`: `Assign`, `SpillActive`, `SpillCurrent` and `SpillAll` are
  `Place`, `Evict`, `Spill` and `SpillAll` of `RegAssign`, whose variables are
  those of the scan without its lists.

`GraphColorProofs` likewise:

* `TypeCorrect`, `NeverShares`, `EveryFate`: `StackInv` (the stack lists the
  removed nodes once each, undecided), `Decided` (what is off it has one fate)
  and `PoolInv` (the early return); a colour is chosen outside those of all
  neighbours, in whatever order nodes are popped.
* `LowDegreeIsColoured`: `LowWhenPushed` says that a stacked node that is no
  potential spill has fewer than k neighbours among the nodes not below it,
  which are those that may hold a colour when it is popped; so one of k colours
  is left.
* `SpillsOnlyUnderPressure`: of the nodes left take one whose interval ends first
  (`LeastNatural` of `DataLemmas`); all its neighbours
  contain its last position. So where no node has low degree, more intervals
  than registers are live there (`NoLowDegreePressed`), and `potential` is not
  empty only under pressure (`PotentialPressed`).
* `ImplementsPromise`: simplify steps are stutters, select steps are `Place` and
  `Spill`.

**The analyses** are proved for every set of graphs, of any size, irreducible
and with unreachable blocks; the only assumption, `GraphsAssumption` of `Cfg`,
says that a graph has an entry and that its targets are blocks. The theorems are
about `Spec` of `Loops`, in which the three analyses follow one another.

`LoopsProofs` begins with the theory they share. `ReachAvoiding` is computed by rounds;
`ReachClosed` and `ReachLeast` say that |V| rounds are enough (a chain of sets
that grows in every round would outgrow the blocks: `GrowingChain`) and that the
result is the least closed set. From these two follow the laws of dominance: it
is a partial order, and the dominators of a block are ordered among themselves.

* `OrderIsReverseAlways`, by `CfgInv`. The sweep marks only what is reachable, and
  what is marked has its targets marked or on the stack (`SweepInv`). Of the
  recursive search, `CallsInv` says that its calls are a path from the entry and
  that entered blocks are those of calls and those recorded, `ScanInv` that what
  a call has passed has been entered, `ParentInv` that a recorded block was
  entered from one that is recorded later. Reversed, each block but the first has
  a predecessor before it; so a strict dominator comes earlier
  (`DominatorEarlier`, by induction along the order).
* `IdomEarlierAlways`, `CorrectAlways`, by `DomInv`. `TreeInv`: whatever has a
  parent has one that comes earlier, has a parent itself and is dominated by
  every strict dominator of its child: the tree never passes a dominator by, in
  no round. `IntersectInv`: both fingers are candidates in that sense, and each
  is on the way up from where it started. So the larger finger can always move
  and they meet. `RoundInv`: as long as a round changed nothing, the positions
  it has passed are settled, their parents above all their predecessors;
  `FinalInv` is that for all positions. A settled tree is the dominator tree
  (`AboveDominates`): what is on the way up from a block is closed under
  predecessors, so every path goes through it.
* `FrontierCorrectAlways` adds that a block with one predecessor is in no
  frontier but through itself (`FrontierIsJoin`) and that the runner stops at the
  parent of the join (`RunnerFacts`).
* `HeaderDominatesAlways`, by `LoopInv`: the recorded edges are back edges in the
  sense of paths, since `dominates` answers for them; collecting backwards does
  not leave the blocks that the header dominates, since the header is never in
  the queue; and what was collected is the least set with the header, the tail
  and the predecessors of its members (`Collected`), so a part of it that control
  could not leave without passing the header would not have been collected.
* `DepthCountsAlways`, by `QueryInv`. Of two loops around a reachable block with
  different headers the one whose header dominates the other's contains it
  (`LoopsNest`), so the loops around a block are the smallest of them and those
  around that one (`InnermostCounts`), and around a loop are its parent and those
  around the parent (`ParentCounts`), as long as no other loop has the parent's
  header. Where two loops share a header the climb stays among their links for
  ever and there is no answer to be wrong.

**Phi destruction** is proved for every set of IR functions, however many blocks,
edges and phis they have. `FunctionsAssumption` of `Codegen` says of a function
what the parser, the builders and the verifier leave of it (`WellFormed`): there is
a block, branches go to blocks, only what leaves the function has no successor, and
conditional branches and invokes have two. All terminators are among them.

* `EdgesArriveAlways`, by `LowerInv` (the lowered code is that of `f`, or there is
  none) and the shape of lowered functions. The edges of a catchswitch behind its
  first are exempt: the code drops them. Trampolines are appended behind all
  other blocks, two per conditional branch, in the order of the branches:
  `LoweredBlocks` says which block is where, by induction over the blocks, since
  `EdgeBlock` counts the conditional branches before one. `BlockPath` says what
  runs before control leaves by the k-th exit.
* `ReadsAgreeAlways` is the theorem behind the two-stage copies of
  `emit_phi_copies`. `ReadsAgree` is about the operands of one block, which says
  nothing of those of the next; what is inductive is `AgreeInv`: IR and machine
  code agree on every value of the function. The proof is about lists of
  instructions: what runs one after the other (`RunSteps`, `RunConcat`), and when a
  list of moves has the effect of writing all destinations at once (`RunAtOnce`:
  none of them writes what another reads, and each destination is written once).
  Constants, snapshots and writes are three such lists, on constant registers,
  temporaries and values (`LoadEffect`, `SnapshotEffect`, `WriteEffect`), so
  together they are the parallel assignment of the IR (`CopiesEffect`), whatever
  the phis swap or chain. Then an edge has the effect of the block and its phis
  (`EdgeEffect`), on every kind of exit.

  Its hypothesis is `Destructible`, of each function: every value that is read has
  its register when its reader is lowered (`KnownReads`: definitions are laid out
  before their uses), constants are not assigned and a block has one phi for a
  value (`SingleAssignment`), and edges that need copies have them to themselves
  (`OwnCopies`). The code needs each of them: a use laid out before its definition
  reads a placeholder; and the cases of a switch, for which `OwnCopies` is false,
  are the counterexample of `phi_switch`. All functions of `codegen` that are run in lowered form
  satisfy it (`DestructibleAssumption` of `MCCodegen`, evaluated by TLC); the if
  without else and the switch of the violation runs are not among them.

**The loops that intervals are extended round** are proved to be the loops that
the branches of the code make, wherever they are looked for, for every IR function
and machine function, before spilling and after. They are looked for where some
block branches to an earlier one; where none does, what the theorem says is how
much is missed: blocks that branch to themselves, and no other cycle (section 5).
Edges of the unwinder are no branches.
`ProgramsAssumption` says only that a machine function is a list of lists of
instructions (`IsMachine`) and has no register that spilling makes; nothing is
assumed of its jumps, and blocks may be unreachable, irreducible or branch to
themselves.

* `BackEdgesAreLoopsAlways`, by `CodeInv`, says this whenever intervals are being
  extended and whenever they are returned, searched for or not (`Searchable`,
  `ScanSkips`, `SearchEndKeeps`). Its core is `SearchInv`. Gray blocks
  are those on the stack, once each, and the stack is a path (`OnPath`). Targets
  passed by a block on the stack are settled, which means that they are black or
  their edge is recorded, but for the one that leads to the block above
  (`Passed`); those of a black block all are (`AllSettled`). So when a block turns
  black, the recorded edges tie every cycle of black blocks: a set of them has a
  member from which only recorded edges lead into the set (`BlackAcyclic`,
  `FinishKeeps`). The other direction is `LoopsFound`: a recorded edge goes to a
  block from which its source can be reached, because it was gray and the stack
  is a path (`GrayLoops`).
* The search runs twice, the second time on code that `insert_spill_reloads`
  rebuilt. `RewriteInv` and `RebuiltMachine` show that this is machine code again:
  reloads, stores and renamed operands are instructions (`SpillInstrs`), and the
  blocks cut out of the flat order lie in it (`BlockBounds`).

**The registers after spilling** are proved to be apart, from the same
assumption and one on pools (`PoolAssumption`: a pool is a list without
repetition, not empty). The difficulty is that there are two codes. The first
allocation keeps registers apart by the intervals of the code before spilling;
then every instruction is rewritten to a group of instructions, intervals are
computed anew, and the second pass puts its fresh registers beside those of the
first without asking whether the first ones are still apart.

* `FreshApartUnlessStarvedAlways`, by `CodeInv` and `SpillInv`. It has five parts.
  * What `linear_scan` returns keeps intervals apart (`LinearScanSound`), by what is
    true between two intervals (`Scanning`): the free list and the registers of the
    active intervals are the pool, disjoint, and an assigned interval that is no
    longer active ends before any that is still to come starts. For few registers
    `Allocations` has every allocation that does.
  * The extension rounds end in the least ends that fit the loops (`GrowInv`): an
    end fits (`Fits`) when it is past the register's places and no loop that the
    register reaches into ends after it, and a round never goes past an end that
    fits (`Least`). So where an interval ends is a property of code and loops alone,
    not of the order in which loops were found.
  * The search finds the same loops in the same order whenever the target lists
    of the blocks are the same (`ListInv`, `LoopListOnce`: `Found` has the states
    that the search passes on target lists, and its step is a function).
  * Rewriting keeps target lists (`SameTargets`), the order of the groups and of
    the places in them (`RebuiltLayout`, `IntervalMoves`), and the destinations of
    a block but for the spilled ones (`DstsKept`); so an end that fits before
    spilling fits, moved, after it (`FitsMoves`).
  * Hence `ApartIn`, which says that of two registers in one place the first has an
    end that fits before the second starts: it holds of the first allocation
    (`SharedApart`), is kept by rewriting (`ApartMoves`), and gives intervals that
    do not meet when the second computation is done (`ApartStays`). The second pass
    adds only registers that meet nothing in their place (`ColorApart`).

  `ApartIn` is why the theorem holds although the intervals after spilling are not
  those before: an extension past a loop that was not necessary before could
  become so only if a place of the register moved over a loop's header, and none
  does. It is about intervals alone, and so independent of the divergence of
  `live_trampoline`: where intervals miss liveness, keeping them apart is not enough
  for `LocationsAgree`.

**The reducer** is proved for every module whose functions, blocks and bodies are
lists (`IsModule`; of the modules of `files` it is an assumption that TLC evaluates),
every operation to keep and every `max_passes`, as the specification `ReduceSpec`
of the reducer alone:

* `MinimalAlways`, by `IInv`. `TodoFits`: functions and blocks are tried from the
  last to the second, so what is left to try is there whatever was removed
  (`TailFitsTrial`; `Downto` lists exactly these, `DowntoFacts`). Of the ids of
  instructions nothing of the kind is true: they are listed once, and a removal
  renumbers those behind it. `Tested` is about the rounds in which nothing was
  removed: of the passes before this one nothing is left that could be removed,
  nor of this pass in the functions before this one, nor among the instructions
  of this one that are no longer listed. The end of such a round is the only way
  to end before `max_passes`; that it comes after every removal is what makes up
  for the stale ids. The other way is the panic on an id past the pool, or on
  printing a module that names what is no longer there; the theorem leaves it open.

**The merge and the JIT** are proved for all modules in which each function has a
list of instructions and a name of its own (`IsUnit`; an assumption that TLC
evaluates for the modules of `files`), in any number and order. That names are
distinct is what the index of names in `Module` takes for granted, though
`add_function` does not see to it: of two functions of one name it knows the
second only, and neither property holds then. `MergeSpec` and `JitSpec` have
the steps of `Linker` that `files` takes, and modules that come from anywhere.

* `DefinitionsWinAlways`, by `MergeInv`. `AllIn`: as long as there was no error, each
  function of the modules that are merged, and each that has been passed of the
  one that is being merged, is `In` by its name and, if it has a body, by a body of
  its length. Nothing that is in goes out (`EnteredFacts`): a function is replaced
  only where it is a declaration, and by a definition. Names stay distinct,
  since a function is appended only when `get_function_id` finds none (`FindFacts`).
  What the instructions of a function that moves mean afterwards is another
  question: `lto_constants`.
* `PointersLiveAlways`. The offset of a function in a page is the length of what was
  laid out before it (`OffsetsFacts`, `ChainPrefix`), so its code is read back from
  there whatever follows (`CodeInPage`). A page that is there is never changed, and
  a pointer is replaced only by a module that publishes the name. The property
  says nothing of a name that was last published for a page that could not be
  protected; such a pointer leads nowhere, and `Send for SimpleJit` says otherwise
  (the hazard at `page.make_exec`).

The type invariants of both allocators are proved and no longer model-checked.
The inductive invariants of the analyses were checked by TLC on the graphs of
`analyses` before they were proved, and `CodeInv` on the functions of `codegen`.

**Only model-checked** is everything else. Of the back end that is that intervals
meet where liveness does (`DefInterferes`), and the run of the code after spilling
(`LocationsAgree`), which rests on it. Neither is true of every function: section 5
has the trampolines of forward edges and the latches with two phis. A theorem
would need both as hypotheses, on the layout and on the allocation. Liveness (`Terminates`,
`AnswersUnlessShared`) is out of the prover's reach, as are fairness, ENABLED and
induction over data. `Ir` and the passes, `Printer`, `Parser` and the modules on them use
recursive operators (the interpreter, the dominator walk, types and constants
inside one another) or `Bitwise`, of which the prover knows nothing.

## 5. Disagreements between the code and what it says

Each is a run whose counterexample TLC prints.

1. `phi_switch`: the copies of all cases of a switch are emitted before the
   comparisons, in the source block (`llvm-target-x86/src/lower.rs`), although a
   comment asks for a trampoline per edge.
2. `live_trampoline`: trampolines lie behind the function; a value live across
   one has an interval that does not reach it (`regalloc.rs`).
3. `spill_in_place`: the destination of a two-address operation is read but not
   reloaded (`regalloc.rs`).
4. `loops_two_tails`: two loops with one header are each other's parent, and
   `depth` does not return (`loops.rs`).
5. `optimizer_loop`: a folded instruction is removed while a phi visited earlier
   uses it; the further rounds the comment relies on cannot help (`const_prop.rs`).
6. `lto_constants`: `merge_module_into` moves a function whose constants are
   numbers in the context it comes from; in the destination they stand for
   others (`lto.rs`).

A seventh has an instance but no run of its own. `compute_live_intervals` does not
extend, round a back edge, the interval of a register that the block at its end
writes, "in which case its interval already covers J" (`regalloc.rs`, in the
comment on the back edges). It covers that block only up to the write. Before
spilling nothing is written behind the copies, so nothing happens; but when the
second of two phis is spilled, its copy goes to a fresh register behind the copy
of the first, which may then be given the register of the first. With
`Functions <- MCLatch`, `Pools <- MCThree` and `MaxRun = 22` in
`MCCodegenTrampoline.cfg`, TLC finds `DefInterferes` violated after spilling, and
with `INVARIANT LocationsAgree` the first phi overwritten by the second on the way
round the loop: `linear_scan`, three registers, none short in the second pass.

Nor has an eighth. The search for back edges is skipped in "loop-free functions"
(the comment in `regalloc.rs`), but the test is on `t < bi`: a block that branches to
itself counts as none. So the loop of a block that branches to itself (by a switch,
an invoke or a `br`; a conditional branch goes by a trampoline, which branches
backward) is not seen if no other branch goes backward, nor is a loop that goes
round by an unwind edge, which no branch makes. With `Functions <- MCUnseen` in `MCCodegenTrampoline.cfg` (a switch of a
block to itself; a landing pad before the call that unwinds to it) TLC finds
`DefInterferes` violated, and with `INVARIANT LocationsAgree` and `MaxRun = 14` a
register overwritten that the next turn reads. `BackEdgesAreLoops` holds of both,
since it says what is missed.

Smaller ones met on the way, without a run: the header of `cfg.rs` says that
unreachable blocks have no predecessors, but their successors list them;
`DeadCodeElim` reports a modification in every round once
something was removed, so `run_until_fixed_point` uses all its rounds; the
header of `inline_pass.rs` says that recursive functions are not inlined, but
they are; that of `ubsan.rs` says that handlers are called when undefined
behaviour is detected, but the handler of an overflow is called before every sum,
difference and product without `nsw`; `writer.rs` says that its encoding is
always valid, but `read_bitcode` refuses a module whose named struct contains a
type that nothing before it mentions (`BeforeItsBody`), and calls the round trip
faithful, but it leaves out metadata and the flags of floating-point operations
(`KeptInstr`); of a catchswitch `lower.rs` keeps one handler; a comment in
`llvm-jit/src/lib.rs` says that pointers are only made after `make_exec`, but
`add_module` publishes them before it can fail; `compile.rs` calls its
object directly linkable, but references to functions and globals in code are compiled
to the address 0 (`const_to_imm`), and those in globals lie in sections that the
Mach-O file does not have and lack their addends in a COFF file (the exceptions
in `Linkable`); the getelementptr of a constant and the layout of a struct
disagree where an array has a size that is no power of two (`emit.rs`). `depth`
counts only one of two loops around a block that the entry does not reach and that
do not nest (blocks 1 to 6 with the edges 1 to 2, 2 to 3, 3 to 2 and 4, 4 to 5,
5 to 4, 6 to 3 and 5: both loops take in 6), so `DepthCounts` is about reachable
blocks. The exclusions of section 3 name the others.

## 6. Not modelled

Byte layouts (headers of object files, unwind and debug tables, instruction
encodings), characters of the text format, cost tables and legalization have no
state that could be out of order; they are listed in `PROJECT.json` with their
reason. So are the parts that no driver reaches: alias analysis, the call graph,
the list scheduler, the summaries of `thinlto.rs`. The rustc backend lowers mock
MIR by sequences of builder calls. Within modelled parts: register classes other
than the integer one, calling conventions, `clobbers` and `phys_uses` of machine
instructions, invoke sites of the interprocedural passes, structs of more than
two fields in the optimizer, and the ARM and RISC-V lowerings, which repeat the
x86 scheme.

## 7. Plan

Done: the allocators and their proofs; phi destruction, intervals, allocation and
spilling as one back end; the analyses; the pipelines of all levels and the
sanitizers; the file formats, the builder, the reducer, the linker; object files
and the JIT. In this order, what is next:

1. `Reloop`: the control tree of the WebAssembly target against the paths of the
   graph.
2. `ListSchedule`: every order the scheduler returns is a linear extension of
   the dependences, checked by running both orders.
3. The encoders: branch displacements patched when the layout is known, against
   the blocks they were made for; then the code of a function in `Objects` as
   what its instructions say.
4. The ARM lowering as a variant of `Isel` where it differs.
5. Proofs: the rest of `Codegen` (intervals against liveness, for layouts in
   which they meet it, and the values of `SpillReload`); the symbol table of
   `Objects` with folds for recursion; the bitcode of `Lrir` without types inside
   one another.
