------------------------------- MODULE Linker --------------------------------
(***************************************************************************)
(* Modules put together by the names of their functions: in one module at  *)
(* link time (merge_module_into of llvm, lto.rs, one step per iteration of *)
(* its loops), and in one table of pointers at run time (SimpleJit of      *)
(* llvm-jit, lib.rs, one step per module).  The code of a function has one *)
(* byte for each of its instructions.                                      *)
(***************************************************************************)
EXTENDS Syntax

VARIABLES
  decoded,   \* the modules that have been read back, to be merged
  linked,    \* what the first of them has become, once there is one
  jit        \* SimpleJit, and the modules it was given

mergeVars == <<decoded, linked>>

Names(fs) == {fs[k].name : k \in DOMAIN fs}
Find(list, name) ==
  LET at == {k \in DOMAIN list : list[k].name = name}
  IN  IF at = {} THEN 0 ELSE Min(at)

(* A module whose functions have their instructions and a name each.       *)
IsCode(f) ==
  /\ {"name", "declaration", "instrs"} \subseteq DOMAIN f /\ f = [x \in DOMAIN f |-> f[x]]
  /\ f.declaration \in BOOLEAN /\ IsList(f.instrs)
Distinct(fs) == \A j, k \in DOMAIN fs : fs[j].name = fs[k].name => j = k
AllCode(fs) == IsList(fs) /\ Distinct(fs) /\ \A k \in DOMAIN fs : IsCode(fs[k])
IsUnit(m) == AllCode(m.functions)

-----------------------------------------------------------------------------
(* merge_module_into.  merged counts the modules that are in, globalsIn    *)
(* and functionsIn what is in of the next.                                 *)
NoLink == [functions |-> <<>>, globals |-> <<>>, types |-> <<>>, bodies |-> <<>>, consts |-> <<>>,
           merged |-> 0, globalsIn |-> 0, functionsIn |-> 0, ok |-> TRUE]

(* A function that moves keeps the numbers of its types and constants,     *)
(* which now mean what they mean in the other context; a number that is    *)
(* too large there means nothing.                                          *)
Nothing == <<"nothing">>
Moved(from, to, x) ==
  LET n == SelectInSeq(from, LAMBDA y : y = x)
  IN  IF n \in DOMAIN to THEN to[n] ELSE Nothing
MovedInstr(src, dst, i) ==
  LET ty(t) == Moved(src.types, dst.types, t)
  IN  [i EXCEPT !.ty = ty(@), !.types = [k \in DOMAIN @ |-> ty(@[k])],
                !.vals = [k \in DOMAIN @ |-> IF @[k][1] # "const" THEN @[k]
                                              ELSE OfConst(Moved(src.consts, dst.consts, @[k][2]))]]
MovedFunction(src, dst, f) ==
  [f EXCEPT !.ty = Moved(src.types, dst.types, @),
            !.args = [k \in DOMAIN @ |-> [@[k] EXCEPT !.ty = Moved(src.types, dst.types, @)]],
            !.instrs = [k \in DOMAIN @ |-> MovedInstr(src, dst, @[k])]]
MovedGlobal(src, dst, g) ==
  [g EXCEPT !.ty = Moved(src.types, dst.types, @),
            !.init = [k \in DOMAIN @ |-> Moved(src.consts, dst.consts, @[k])]]

(* The first module is the one that the others are merged into.            *)
MergeFirst ==
  /\ linked.merged = 0 /\ decoded # <<>>
  /\ linked' = [NoLink EXCEPT !.functions = decoded[1].functions, !.globals = decoded[1].globals,
                              !.types = decoded[1].types, !.bodies = decoded[1].bodies,
                              !.consts = decoded[1].consts, !.merged = 1]

Merging == linked.merged \in 1..(Len(decoded) - 1) /\ linked.ok
Src == decoded[linked.merged + 1]

MergeGlobal ==
  /\ Merging /\ linked.globalsIn < Len(Src.globals)
  /\ LET n == linked.globalsIn + 1
         g == Src.globals[n]
     IN  linked' = IF Find(linked.globals, g.name) # 0 THEN [linked EXCEPT !.globalsIn = n]
                   ELSE [WithGlobal(linked, MovedGlobal(Src, linked, g)) EXCEPT !.globalsIn = n]

(* Wrong: the first function of a name stays, a declaration as well.       *)
Entered_First(d, src, f) ==
  IF Find(d.functions, f.name) # 0 THEN d ELSE WithFunction(d, MovedFunction(src, d, f))
Entered(d, src, f) ==
  LET n == Find(d.functions, f.name)
  IN  CASE n = 0 -> WithFunction(d, MovedFunction(src, d, f))
        [] n # 0 /\ f.declaration -> d
        [] n # 0 /\ ~f.declaration /\ d.functions[n].declaration ->
             [d EXCEPT !.functions = [@ EXCEPT ![n] = MovedFunction(src, d, f)]]
        [] n # 0 /\ ~f.declaration /\ ~d.functions[n].declaration -> [d EXCEPT !.ok = FALSE]
MergeFunction ==
  /\ Merging /\ linked.globalsIn = Len(Src.globals) /\ linked.functionsIn < Len(Src.functions)
  /\ LET n == linked.functionsIn + 1
     IN  linked' = [Entered(linked, Src, Src.functions[n]) EXCEPT !.functionsIn = n]

MergeEnd ==
  /\ Merging /\ linked.globalsIn = Len(Src.globals) /\ linked.functionsIn = Len(Src.functions)
  /\ linked' = [linked EXCEPT !.merged = @ + 1, !.globalsIn = 0, !.functionsIn = 0]

MergeStep == (MergeFirst \/ MergeGlobal \/ MergeFunction \/ MergeEnd) /\ UNCHANGED decoded

(* Merging by itself, of any modules.                                      *)
MergeInit == decoded = <<>> /\ linked = NoLink
Decoded(m) == decoded' = Append(decoded, m) /\ UNCHANGED linked
MergeSpec == MergeInit /\ [][MergeStep \/ \E m : IsUnit(m) /\ Decoded(m)]_mergeVars

-----------------------------------------------------------------------------
(* SimpleJit::add_module: the page may not be had, or not be made          *)
(* executable; then it is unmapped, and page 0 stands for where it was.    *)
NoJit == [pages |-> <<>>, symbols |-> <<>>, loads |-> <<>>]
Outcomes == {"ok", "no memory", "no exec"}
Definitions(m) == Kept(m.functions, {f \in ToSet(m.functions) : ~f.declaration})

(* Wrong: every function at the beginning of the page.                     *)
Offsets_Forgotten(fs) == [k \in DOMAIN fs |-> 0]
(* Where each function begins.                                             *)
Offsets(fs) ==
  LET start[k \in 1..Len(fs)] == IF k = 1 THEN 0 ELSE start[k - 1] + Len(fs[k - 1].instrs)
  IN  start
PageBytes(fs) == FlattenSeq([k \in DOMAIN fs |-> fs[k].instrs])

(* Each function of a name takes the place of the one before it.           *)
Published(fs, page) ==
  LET starts == Offsets(fs)
  IN  [name \in DOMAIN jit.symbols \cup Names(fs) |->
         IF name \in Names(fs) THEN [page |-> page, at |-> starts[Max({k \in DOMAIN fs : fs[k].name = name})]]
         ELSE jit.symbols[name]]
AddModule(m, outcome) ==
  LET fs == Definitions(m)
      page == Len(jit.pages) + 1
  IN  jit' = [pages |-> IF outcome = "ok" /\ fs # <<>> THEN Append(jit.pages, PageBytes(fs)) ELSE jit.pages,
              symbols |-> IF outcome = "no memory" THEN jit.symbols
                          ELSE Published(fs, IF outcome = "ok" THEN page ELSE 0),
              loads |-> Append(jit.loads, [of |-> m, outcome |-> outcome])]

(* The JIT by itself, given any modules.                                   *)
JitSpec == jit = NoJit /\ [][\E m : IsUnit(m) /\ \E outcome \in Outcomes : AddModule(m, outcome)]_jit

-----------------------------------------------------------------------------
(* DefinitionsWin: what has been merged has one function of a name, and it *)
(* is a definition when one of the modules has one (the comment in         *)
(* merge_module_into: "If dst has a declaration and src has a definition,  *)
(* replace it").                                                           *)
DefinitionsWin ==
  linked.ok =>
    \A k \in 1..linked.merged : \A j \in DOMAIN decoded[k].functions :
      LET f == decoded[k].functions[j]
          same == {n \in DOMAIN linked.functions : linked.functions[n].name = f.name}
      IN  \E n \in same : /\ same = {n}
                          /\ ~f.declaration => /\ ~linked.functions[n].declaration
                                               /\ Len(linked.functions[n].instrs) = Len(f.instrs)

(* MergedAsRead: a function does after the merge what it did in its module:*)
(* "contexts are globally interned per kind, so no explicit remap is       *)
(* needed".                                                                *)
MergedAsRead ==
  linked.ok =>
    \A k \in 1..linked.merged : \A j \in DOMAIN decoded[k].functions :
      LET f == decoded[k].functions[j]
      IN  ~f.declaration => Contains(linked.functions, f)

(* PointersLive: the pointer to a function leads to the code of the last   *)
(* module loaded that defines it, in a page that is still there, unless    *)
(* that page could not be made executable (get_function_ptr).              *)
Publishes(l, name) == l.outcome # "no memory" /\ name \in Names(Definitions(l.of))
LeadsTo(pages, ptr, code) ==
  ptr.page \in DOMAIN pages /\ SubSeq(pages[ptr.page], ptr.at + 1, ptr.at + Len(code)) = code
PointersLive ==
  \A i \in DOMAIN jit.loads :
    LET fs == Definitions(jit.loads[i].of)
    IN  \A k \in DOMAIN fs :
          /\ jit.loads[i].outcome = "ok"
          /\ \A j \in DOMAIN jit.loads : j > i => ~Publishes(jit.loads[j], fs[k].name)
          => fs[k].name \in DOMAIN jit.symbols /\ LeadsTo(jit.pages, jit.symbols[fs[k].name], fs[k].instrs)
=============================================================================
