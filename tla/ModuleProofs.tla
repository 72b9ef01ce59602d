---------------------------- MODULE ModuleProofs ----------------------------
(***************************************************************************)
(* Theorems about what takes whole modules: the reducer, for every module  *)
(* that it may be given and every number of rounds; the merge of modules,  *)
(* for all modules in which a name is that of one function; and the JIT,   *)
(* for all such modules, whatever becomes of the pages.                    *)
(***************************************************************************)
EXTENDS Reduce, Linker, DataLemmas

Passes == {"functions", "blocks", "instructions", "constants"}
Fields == {"mod", "case", "pass", "fn", "todo", "changed", "round"}

(* The passes that come before one.                                        *)
Earlier(pass) ==
  CASE pass = "functions" -> {}
    [] pass = "blocks" -> {"functions"}
    [] pass = "instructions" -> {"functions", "blocks"}
    [] OTHER -> {"functions", "blocks", "instructions"}

(* What has still to be tried, last first, is there; ids are not known to  *)
(* be.                                                                     *)
TodoFits(mod, pass, fn, todo) ==
  /\ IsList(todo)
  /\ pass \in {"functions", "blocks"} => \A i, j \in DOMAIN todo : i < j => todo[i] > todo[j]
  /\ pass = "functions" => \A i \in DOMAIN todo : todo[i] \in 2..Len(mod.functions)
  /\ pass = "blocks" => \A i \in DOMAIN todo : todo[i] \in 2..Len(mod.functions[fn].blocks)
  /\ todo # <<>> /\ pass # "functions" =>
       fn \in DOMAIN mod.functions /\ ~mod.functions[fn].declaration

ReducerOK ==
  /\ DOMAIN reducer = Fields /\ reducer = [x \in Fields |-> reducer[x]]
  /\ reducer.pass \in Passes \cup {"idle", "reduced", "panic", "not failing"}
  /\ reducer.pass \in Passes \cup {"reduced"} =>
       IsModule(reducer.mod) /\ StillFails(reducer.mod, reducer.case)
  /\ reducer.pass \in Passes =>
       /\ reducer.fn \in Nat /\ reducer.changed \in BOOLEAN
       /\ TodoFits(reducer.mod, reducer.pass, reducer.fn, reducer.todo)

(* Nothing that can be removed was left by a pass over all functions; by   *)
(* the pass that is going on over those before fn; and of fn, among what   *)
(* has been tried.                                                         *)
NoneLeft(pass, fn) == \A k \in Candidates(pass, fn) : ~Smaller(pass, fn, k)
NoneTried(pass, fn) ==
  \A k \in Candidates(pass, fn) : k \notin ToSet(reducer.todo) => ~Smaller(pass, fn, k)
Tested ==
  reducer.pass \in Passes /\ ~reducer.changed =>
    /\ \A pass \in Earlier(reducer.pass) : \A fn \in DOMAIN reducer.mod.functions : NoneLeft(pass, fn)
    /\ reducer.pass = "functions" =>
         \A fn \in DOMAIN reducer.mod.functions : NoneTried("functions", fn)
    /\ reducer.pass \in {"blocks", "instructions"} =>
         /\ \A fn \in DOMAIN reducer.mod.functions : fn < reducer.fn => NoneLeft(reducer.pass, fn)
         /\ NoneTried(reducer.pass, reducer.fn)

IInv == ReducerOK /\ Tested /\ Minimal

-----------------------------------------------------------------------------
(* RemoveAt: of a list without one position, the elements are those of the *)
(* list.                                                                   *)
LEMMA RemoveAtFacts ==
  ASSUME NEW s, IsList(s), NEW k \in DOMAIN s
  PROVE  /\ IsList(RemoveAt(s, k)) /\ Len(RemoveAt(s, k)) = Len(s) - 1
         /\ \A j \in DOMAIN RemoveAt(s, k) : \E i \in DOMAIN s : RemoveAt(s, k)[j] = s[i]
<1>1. s \in Seq(ToSet(s)) /\ Len(s) \in Nat /\ DOMAIN s = 1..Len(s)
  BY ListFacts
<1> DEFINE a == SubSeq(s, 1, k - 1)
           b == SubSeq(s, k + 1, Len(s))
<1>2. a \in Seq(ToSet(s)) /\ Len(a) = k - 1
  BY <1>1
<1>3. b \in Seq(ToSet(s)) /\ Len(b) = Len(s) - k
  BY <1>1
<1> HIDE DEF a, b
<1>4. a \o b \in Seq(ToSet(s)) /\ Len(a \o b) = Len(s) - 1
  <2>1. a \o b \in Seq(ToSet(s)) /\ Len(a \o b) = Len(a) + Len(b)
    BY <1>2, <1>3, ConcatProperties
  <2>2. k \in Nat
    BY <1>1
  <2> QED
    BY <1>1, <1>2, <1>3, <2>1, <2>2
<1>5. RemoveAt(s, k) = a \o b
  BY DEF RemoveAt, a, b
<1> HIDE DEF a, b
<1>6. \A j \in DOMAIN (a \o b) : (a \o b)[j] \in ToSet(s)
  BY <1>4
<1> QED
  BY <1>4, <1>5, <1>6, SeqIsList DEF ToSet

-----------------------------------------------------------------------------
(* new has the blocks bs, each with what is kept of its body under other   *)
(* numbers.                                                                *)
Renewed(bs, kept, new) ==
  /\ new = [k \in DOMAIN bs |-> new[k]]
  /\ \A k \in DOMAIN bs :
       new[k].body = [j \in DOMAIN Kept(bs[k].body, kept) |-> new[k].body[j]]

Clone(f, instrs, blocks) == [Signature(f) EXCEPT !.instrs = instrs, !.blocks = blocks]

(* Rebuilt: the blocks of the clone are lists again, with what is kept.    *)
LEMMA RebuiltBlocks ==
  ASSUME NEW bs, IsList(bs), \A k \in DOMAIN bs : IsList(bs[k].body), NEW kept,
         NEW new, Renewed(bs, kept, new)
  PROVE  /\ IsList(new) /\ Len(new) = Len(bs)
         /\ \A k \in DOMAIN new : IsList(new[k].body)
<1>1. Len(bs) \in Nat /\ DOMAIN bs = 1..Len(bs)
  BY ListFacts
<1>2. IsList(new) /\ Len(new) = Len(bs)
  BY <1>1, FunctionIsList DEF Renewed
<1>3. ASSUME NEW k \in DOMAIN bs PROVE IsList(new[k].body)
  <2> DEFINE left == Kept(bs[k].body, kept)
  <2>1. bs[k].body \in Seq(ToSet(bs[k].body))
    BY ListFacts
  <2>2. left \in Seq(ToSet(bs[k].body))
    BY <2>1, KeptElements
  <2>3. DOMAIN left = 1..Len(left) /\ Len(left) \in Nat
    BY <2>2
  <2>4. new[k].body = [j \in DOMAIN left |-> new[k].body[j]]
    BY DEF Renewed
  <2> HIDE DEF left
  <2> QED
    BY <2>3, <2>4, FunctionIsList
<1> QED
  BY <1>2, <1>3

(* function_signature_clone with blocks is a function again.               *)
LEMMA CloneFacts ==
  ASSUME NEW f, IsFunction(f), NEW instrs, NEW blocks,
         IsList(blocks), \A k \in DOMAIN blocks : IsList(blocks[k].body),
         f.declaration => blocks = <<>>
  PROVE  /\ IsFunction(Clone(f, instrs, blocks))
         /\ Clone(f, instrs, blocks).blocks = blocks
         /\ Clone(f, instrs, blocks).declaration = f.declaration
<1> DEFINE c == Clone(f, instrs, blocks)
<1>1. /\ DOMAIN c = DOMAIN f /\ c = [x \in DOMAIN f |-> c[x]]
      /\ c.blocks = blocks /\ c.declaration = f.declaration
  BY DEF IsFunction, Signature, Clone
<1> QED
  BY <1>1 DEF IsFunction

(* remove_block: the clone has one block less.                             *)
LEMMA WithoutBlockFacts ==
  ASSUME NEW f, IsFunction(f), NEW k \in DOMAIN f.blocks
  PROVE  /\ IsFunction(WithoutBlock(f, k))
         /\ Len(WithoutBlock(f, k).blocks) = Len(f.blocks) - 1
         /\ WithoutBlock(f, k).declaration = f.declaration
<1> DEFINE bs == RemoveAt(f.blocks, k)
           kept == UNION {PlacedIn(bs[n]) : n \in DOMAIN bs}
           new == [n \in DOMAIN bs |->
                     [name |-> bs[n].name,
                      body |-> LET left == Kept(bs[n].body, kept)
                               IN  [j \in DOMAIN left |-> Shifted(kept, left[j])],
                      term |-> IF bs[n].term \in kept THEN Shifted(kept, bs[n].term) ELSE 0]]
           ids == Kept([n \in DOMAIN f.instrs |-> n], kept)
           ins == [n \in DOMAIN ids |-> [RemapInstr(kept, k, f.instrs[ids[n]]) EXCEPT !.md = <<>>]]
<1>1. IsList(f.blocks) /\ \A n \in DOMAIN f.blocks : IsList(f.blocks[n].body)
  BY DEF IsFunction
<1>2. /\ IsList(bs) /\ Len(bs) = Len(f.blocks) - 1
      /\ \A n \in DOMAIN bs : IsList(bs[n].body)
  BY <1>1, RemoveAtFacts
<1>3. WithoutBlock(f, k) = Clone(f, ins, new)
  BY DEF WithoutBlock, Rebuilt, Clone
<1>4. IsList(new) /\ Len(new) = Len(bs) /\ \A n \in DOMAIN new : IsList(new[n].body)
  <2>1. Renewed(bs, kept, new)
    BY DEF Renewed
  <2> HIDE DEF new, kept, bs
  <2> QED
    BY <1>2, <2>1, RebuiltBlocks
<1>5. ~f.declaration
  BY <1>1 DEF IsFunction
<1> HIDE DEF new, ins, bs
<1> QED
  BY <1>2, <1>3, <1>4, <1>5, CloneFacts

(* clone_module_replace_instr_with_undef, .._with_zero: the clone has the  *)
(* same blocks, each without the instruction.                              *)
LEMMA WithoutInstrFacts ==
  ASSUME NEW f, IsFunction(f), NEW id, NEW const
  PROVE  /\ IsFunction(WithoutInstr(f, id, const))
         /\ Len(WithoutInstr(f, id, const).blocks) = Len(f.blocks)
         /\ WithoutInstr(f, id, const).declaration = f.declaration
<1> DEFINE bs == f.blocks
           kept == DOMAIN f.instrs \ {id}
           new == [n \in DOMAIN bs |->
                     [name |-> bs[n].name,
                      body |-> LET left == Kept(bs[n].body, kept)
                               IN  [j \in DOMAIN left |-> Shifted(kept, left[j])],
                      term |-> IF bs[n].term \in kept THEN Shifted(kept, bs[n].term) ELSE 0]]
           ids == Kept([n \in DOMAIN f.instrs |-> n], kept)
           ins == [n \in DOMAIN ids |->
                     [Substituted(kept, id, const, f.instrs[ids[n]]) EXCEPT !.md = <<>>]]
<1>1. IsList(bs) /\ \A n \in DOMAIN bs : IsList(bs[n].body)
  BY DEF IsFunction
<1>2. WithoutInstr(f, id, const) = Clone(f, ins, new)
  BY DEF WithoutInstr, Rebuilt, Clone
<1>3. IsList(new) /\ Len(new) = Len(bs) /\ \A n \in DOMAIN new : IsList(new[n].body)
  <2>1. Renewed(bs, kept, new)
    BY DEF Renewed
  <2> HIDE DEF new, kept, bs
  <2> QED
    BY <1>1, <2>1, RebuiltBlocks
<1>4. f.declaration => new = <<>>
  <2>1. f.declaration => DOMAIN new = {}
    BY DEF IsFunction
  <2>2. new \in Seq(ToSet(new))
    BY <1>3 DEF IsList
  <2> HIDE DEF new
  <2> QED
    BY <2>1, <2>2, EmptyDomain
<1> HIDE DEF new, ins
<1> QED
  BY <1>1, <1>2, <1>3, <1>4, CloneFacts

-----------------------------------------------------------------------------
(* Trials are modules.  One without a function:                            *)
LEMMA FunctionTrialFacts ==
  ASSUME NEW mod, IsModule(mod), NEW k \in DOMAIN mod.functions, NEW fn
  PROVE  /\ IsModule(Trial(mod, "functions", fn, k))
         /\ Len(Trial(mod, "functions", fn, k).functions) = Len(mod.functions) - 1
<1> DEFINE fs == RemoveAt(mod.functions, k)
           t == [mod EXCEPT !.functions = fs]
<1>1. /\ IsList(fs) /\ Len(fs) = Len(mod.functions) - 1
      /\ \A j \in DOMAIN fs : \E i \in DOMAIN mod.functions : fs[j] = mod.functions[i]
  BY RemoveAtFacts DEF IsModule
<1>2. Trial(mod, "functions", fn, k) = t
  BY DEF Trial
<1> HIDE DEF fs
<1>3. DOMAIN t = DOMAIN mod /\ t = [x \in DOMAIN mod |-> t[x]] /\ t.functions = fs
  BY DEF IsModule
<1> HIDE DEF t
<1>4. IsModule(t)
  BY <1>1, <1>3 DEF IsModule
<1> QED
  BY <1>1, <1>2, <1>3, <1>4

(* With another function in the place of one:                              *)
LEMMA ReplaceFunction ==
  ASSUME NEW mod, IsModule(mod), NEW fn \in DOMAIN mod.functions, NEW f, IsFunction(f)
  PROVE  LET t == [mod EXCEPT !.functions[fn] = f]
         IN  /\ IsModule(t) /\ Len(t.functions) = Len(mod.functions)
             /\ DOMAIN t.functions = DOMAIN mod.functions
             /\ t.functions[fn] = f
<1> DEFINE fs == [mod.functions EXCEPT ![fn] = f]
           t == [mod EXCEPT !.functions[fn] = f]
<1>1. Len(mod.functions) \in Nat /\ DOMAIN mod.functions = 1..Len(mod.functions)
  BY ListFacts DEF IsModule
<1>2. /\ fs = [k \in 1..Len(mod.functions) |-> fs[k]] /\ fs[fn] = f
      /\ \A k \in 1..Len(mod.functions) : fs[k] = f \/ fs[k] = mod.functions[k]
  BY <1>1
<1> HIDE DEF fs
<1>3. IsList(fs) /\ Len(fs) = Len(mod.functions) /\ DOMAIN fs = 1..Len(mod.functions)
  BY <1>1, <1>2, FunctionIsList
<1>4. DOMAIN t = DOMAIN mod /\ t = [x \in DOMAIN mod |-> t[x]] /\ t.functions = fs
  BY DEF IsModule, fs
<1> HIDE DEF t
<1>5. IsModule(t)
  BY <1>1, <1>2, <1>3, <1>4 DEF IsModule
<1> QED
  BY <1>1, <1>2, <1>3, <1>4, <1>5 DEF t

(* Without a block, without an instruction:                                *)
LEMMA BodyTrialFacts ==
  ASSUME NEW mod, IsModule(mod), NEW fn \in DOMAIN mod.functions,
         NEW pass \in {"blocks", "instructions", "constants"}, NEW k,
         pass = "blocks" => k \in DOMAIN mod.functions[fn].blocks
  PROVE  LET t == Trial(mod, pass, fn, k)
         IN  /\ IsModule(t) /\ DOMAIN t.functions = DOMAIN mod.functions
             /\ Len(t.functions[fn].blocks) =
                  Len(mod.functions[fn].blocks) - (IF pass = "blocks" THEN 1 ELSE 0)
             /\ t.functions[fn].declaration = mod.functions[fn].declaration
<1> DEFINE f == mod.functions[fn]
           t == Trial(mod, pass, fn, k)
<1>1. IsFunction(f) /\ Len(f.blocks) \in Nat
  BY ListFacts DEF IsModule, IsFunction
<1>2. CASE pass = "blocks"
  <2>1. t = [mod EXCEPT !.functions[fn] = WithoutBlock(f, k)]
    BY <1>2 DEF Trial
  <2>2. /\ IsFunction(WithoutBlock(f, k))
        /\ Len(WithoutBlock(f, k).blocks) = Len(f.blocks) - 1
        /\ WithoutBlock(f, k).declaration = f.declaration
    BY <1>1, <1>2, WithoutBlockFacts
  <2>3. /\ IsModule(t) /\ DOMAIN t.functions = DOMAIN mod.functions
        /\ t.functions[fn] = WithoutBlock(f, k)
    <3> HIDE DEF t, f
    <3> QED
      BY <2>1, <2>2, ReplaceFunction
  <2> HIDE DEF t, f
  <2> QED
    BY <1>2, <2>2, <2>3 DEF t, f
<1>3. CASE pass # "blocks"
  <2> DEFINE c == IF pass = "constants" THEN ZeroOf(f.instrs[k].ty) ELSE UndefOf(f.instrs[k].ty)
  <2>1. t = [mod EXCEPT !.functions[fn] = WithoutInstr(f, k, c)]
    BY <1>3 DEF Trial, InstrTrial
  <2> HIDE DEF c
  <2>2. /\ IsFunction(WithoutInstr(f, k, c))
        /\ Len(WithoutInstr(f, k, c).blocks) = Len(f.blocks)
        /\ WithoutInstr(f, k, c).declaration = f.declaration
    BY <1>1, WithoutInstrFacts
  <2>3. /\ IsModule(t) /\ DOMAIN t.functions = DOMAIN mod.functions
        /\ t.functions[fn] = WithoutInstr(f, k, c)
    <3> HIDE DEF t, f
    <3> QED
      BY <2>1, <2>2, ReplaceFunction
  <2> HIDE DEF t
  <2> QED
    BY <1>1, <1>3, <2>2, <2>3 DEF t
<1> QED
  BY <1>2, <1>3

-----------------------------------------------------------------------------
(* Downto: everything from 2 on, the last first.                           *)
LEMMA DowntoFacts ==
  ASSUME NEW n \in Nat
  PROVE  /\ IsList(Downto(n, 2))
         /\ \A i, j \in DOMAIN Downto(n, 2) : i < j => Downto(n, 2)[i] > Downto(n, 2)[j]
         /\ \A i \in DOMAIN Downto(n, 2) : Downto(n, 2)[i] \in 2..n
         /\ 2..n \subseteq ToSet(Downto(n, 2))
<1> DEFINE s == Downto(n, 2)
           m == IF n < 2 THEN 0 ELSE n - 1
<1>1. m \in Nat /\ 1..(n - 2 + 1) = 1..m
  OBVIOUS
<1>2. s = [k \in 1..m |-> n - k + 1]
  BY <1>1 DEF Downto
<1>3. DOMAIN s = 1..m /\ s = [k \in 1..m |-> s[k]] /\ \A k \in 1..m : s[k] = n - k + 1
  BY <1>2
<1> HIDE DEF s
<1>4. IsList(s)
  <2> HIDE DEF m
  <2> QED
    BY <1>1, <1>3, FunctionIsList
<1>5. \A i, j \in DOMAIN s : i < j => s[i] > s[j]
  <2> SUFFICES ASSUME NEW i \in 1..m, NEW j \in 1..m, i < j PROVE s[i] > s[j]
    BY <1>3
  <2>1. s[i] = n - i + 1 /\ s[j] = n - j + 1
    BY <1>3
  <2>2. n - i + 1 > n - j + 1
    OBVIOUS
  <2> QED
    BY <2>1, <2>2
<1>7. \A i \in DOMAIN s : s[i] \in 2..n
  <2> SUFFICES ASSUME NEW i \in 1..m PROVE s[i] \in 2..n
    BY <1>3
  <2>1. n - i + 1 \in 2..n
    OBVIOUS
  <2> QED
    BY <1>3, <2>1
<1>6. 2..n \subseteq ToSet(s)
  <2> SUFFICES ASSUME NEW k \in 2..n PROVE k \in ToSet(s)
    OBVIOUS
  <2>1. n - k + 1 \in 1..m /\ n - (n - k + 1) + 1 = k
    OBVIOUS
  <2>2. s[n - k + 1] = k
    BY <1>3, <2>1
  <2> QED
    BY <1>3, <2>1, <2>2 DEF ToSet
<1> QED
  BY <1>4, <1>5, <1>6, <1>7 DEF s

(* The instructions of a function, as the passes go through them.          *)
LEMMA BodiesFacts ==
  ASSUME NEW f, IsFunction(f)
  PROVE  /\ IsList(Bodies(f))
         /\ UNION {ToSet(f.blocks[n].body) : n \in DOMAIN f.blocks} \subseteq ToSet(Bodies(f))
<1> DEFINE bs == f.blocks
           ss == [k \in DOMAIN bs |-> bs[k].body]
           X == UNION {ToSet(bs[n].body) : n \in DOMAIN bs}
<1>1. /\ Len(bs) \in Nat /\ DOMAIN bs = 1..Len(bs)
      /\ \A k \in DOMAIN bs : bs[k].body \in Seq(X)
  <2>1. IsList(bs) /\ \A k \in DOMAIN bs : IsList(bs[k].body)
    BY DEF IsFunction
  <2>2. \A k \in DOMAIN bs : ToSet(bs[k].body) \subseteq X
    OBVIOUS
  <2> HIDE DEF X, bs
  <2> QED
    BY <2>1, <2>2, ListFacts
<1>2. Bodies(f) = FlattenSeq(ss)
  BY DEF Bodies
<1> HIDE DEF X, bs
<1>3. ss \in Seq(Seq(X)) /\ Len(ss) = Len(bs) /\ \A k \in 1..Len(bs) : ss[k] = bs[k].body
  BY <1>1
<1> HIDE DEF ss
<1>4. CASE ss = <<>>
  <2>1. Len(ss) = 0
    BY <1>4
  <2>2. FlattenSeq(ss) = ss
    BY <2>1 DEF FlattenSeq
  <2>3. DOMAIN bs = {}
    BY <1>1, <1>3, <2>1
  <2>4. X = {}
    BY <2>3 DEF X
  <2> QED
    BY <1>2, <1>3, <2>2, <2>4, SeqIsList DEF X, bs
<1>5. CASE ss # <<>>
  <2>1. /\ FlattenSeq(ss) \in Seq(X)
        /\ \A e : e \in ToSet(FlattenSeq(ss)) <=> \E k \in 1..Len(ss) : e \in ToSet(ss[k])
    BY <1>3, <1>5, FlattenElements
  <2>2. ASSUME NEW e \in X PROVE e \in ToSet(FlattenSeq(ss))
    <3>1. PICK k \in DOMAIN bs : e \in ToSet(bs[k].body)
      BY <2>2 DEF X
    <3> QED
      BY <1>1, <1>3, <2>1, <3>1
  <2> QED
    BY <1>2, <2>1, <2>2, SeqIsList DEF X, bs
<1> QED
  BY <1>4, <1>5

(* Todo: what a pass goes through is there, and holds all candidates.      *)
LEMMA TodoFacts ==
  ASSUME NEW mod, IsModule(mod), NEW fn \in DOMAIN mod.functions, NEW pass \in Passes
  PROVE  /\ TodoFits(mod, pass, fn, Todo(mod, pass, fn))
         /\ pass = "functions" /\ fn = 1 =>
              2..Len(mod.functions) \subseteq ToSet(Todo(mod, pass, fn))
         /\ pass = "functions" /\ fn # 1 => Todo(mod, pass, fn) = <<>>
         /\ pass = "blocks" =>
              2..Len(mod.functions[fn].blocks) \subseteq ToSet(Todo(mod, pass, fn))
         /\ pass = "instructions" =>
              UNION {ToSet(mod.functions[fn].blocks[n].body) : n \in DOMAIN mod.functions[fn].blocks}
                \subseteq ToSet(Todo(mod, pass, fn))
<1> DEFINE f == mod.functions[fn]
           t == Todo(mod, pass, fn)
<1>1. /\ IsFunction(f) /\ Len(f.blocks) \in Nat /\ Len(mod.functions) \in Nat
      /\ f.declaration => f.blocks = <<>>
  BY ListFacts DEF IsModule, IsFunction
<1>2. IsList(<<>>) /\ DOMAIN <<>> = {}
  BY SeqIsList DEF IsList
<1>3. CASE pass = "functions" /\ fn = 1
  <2>1. t = Downto(Len(mod.functions), 2)
    BY <1>3 DEF Todo
  <2> HIDE DEF t
  <2> QED
    BY <1>1, <1>3, <2>1, DowntoFacts DEF TodoFits, t
<1>4. CASE pass = "functions" /\ fn # 1
  <2>1. t = <<>>
    BY <1>4 DEF Todo
  <2> HIDE DEF t
  <2> QED
    BY <1>2, <1>4, <2>1 DEF TodoFits, t
<1>5. CASE pass # "functions" /\ f.declaration
  <2>1. t = <<>> /\ f.blocks = <<>>
    BY <1>1, <1>5 DEF Todo, Passes
  <2>2. DOMAIN f.blocks = {} /\ 2..Len(f.blocks) = {}
    BY <2>1
  <2>3. UNION {ToSet(f.blocks[n].body) : n \in DOMAIN f.blocks} = {}
    BY <2>2
  <2> HIDE DEF t, f
  <2> QED
    BY <1>2, <1>5, <2>1, <2>2, <2>3 DEF TodoFits, t, f
<1>6. CASE pass = "blocks" /\ ~f.declaration
  <2>1. t = Downto(Len(f.blocks), 2)
    BY <1>6 DEF Todo
  <2> HIDE DEF t
  <2> QED
    BY <1>1, <1>6, <2>1, DowntoFacts DEF TodoFits, t
<1>7. CASE pass \in {"instructions", "constants"} /\ ~f.declaration
  <2>1. t = Bodies(f)
    BY <1>7 DEF Todo
  <2>2. /\ IsList(t)
        /\ UNION {ToSet(f.blocks[n].body) : n \in DOMAIN f.blocks} \subseteq ToSet(t)
    BY <1>1, <2>1, BodiesFacts
  <2> HIDE DEF t, f
  <2> QED
    BY <1>7, <2>2 DEF TodoFits, t, f
<1> QED
  BY <1>3, <1>4, <1>5, <1>6, <1>7 DEF Passes

-----------------------------------------------------------------------------
(* Tail: what is left of a list when its head is done.                     *)
LEMMA TailFacts ==
  ASSUME NEW s, IsList(s), s # <<>>
  PROVE  /\ IsList(Tail(s)) /\ Head(s) = s[1] /\ 1 \in DOMAIN s
         /\ \A i \in DOMAIN Tail(s) : i + 1 \in DOMAIN s /\ i + 1 > 1 /\ i \in Int /\ Tail(s)[i] = s[i + 1]
         /\ \A x : x \in ToSet(s) /\ x \notin ToSet(Tail(s)) => x = Head(s)
<1> DEFINE t == Tail(s)
           n == Len(s)
<1>1. s \in Seq(ToSet(s)) /\ n \in Nat /\ DOMAIN s = 1..n
  BY ListFacts
<1>2. n # 0
  BY <1>1
<1>3. t \in Seq(ToSet(s)) /\ Len(t) = n - 1 /\ DOMAIN t = 1..(n - 1)
  BY <1>1, <1>2
<1>4. Head(s) = s[1] /\ 1 \in DOMAIN s
  BY <1>1, <1>2
<1>5. \A i \in 1..(n - 1) : t[i] = s[i + 1]
  BY <1>1, <1>2
<1> HIDE DEF t, n
<1>6. IsList(t)
  BY <1>3, SeqIsList
<1>7. ASSUME NEW i \in DOMAIN t
      PROVE  i + 1 \in DOMAIN s /\ i + 1 > 1 /\ i \in Int /\ t[i] = s[i + 1]
  BY <1>1, <1>3, <1>5
<1>8. ASSUME NEW x, x \in ToSet(s), x \notin ToSet(t) PROVE x = Head(s)
  <2>1. PICK i \in DOMAIN s : x = s[i]
    BY <1>8 DEF ToSet
  <2>2. CASE i = 1
    BY <1>4, <2>1, <2>2
  <2>3. CASE i # 1
    <3>1. i - 1 \in 1..(n - 1) /\ (i - 1) + 1 = i
      BY <1>1, <2>3
    <3>2. t[i - 1] = x /\ i - 1 \in DOMAIN t
      BY <1>3, <1>5, <2>1, <3>1
    <3> QED
      BY <1>8, <3>2 DEF ToSet
  <2> QED
    BY <2>2, <2>3
<1> QED
  BY <1>4, <1>6, <1>7, <1>8 DEF t

(* What is left to try still fits, whether the head is kept or removed.    *)
LEMMA TailFits ==
  ASSUME NEW mod, NEW pass \in Passes, NEW fn, NEW todo, todo # <<>>,
         TodoFits(mod, pass, fn, todo)
  PROVE  TodoFits(mod, pass, fn, Tail(todo))
BY TailFacts DEF TodoFits

LEMMA TailFitsTrial ==
  ASSUME NEW mod, IsModule(mod), NEW pass \in Passes, NEW fn, NEW todo, todo # <<>>,
         TodoFits(mod, pass, fn, todo)
  PROVE  LET trial == Trial(mod, pass, fn, Head(todo))
         IN  IsModule(trial) /\ TodoFits(trial, pass, fn, Tail(todo))
<1> DEFINE k == Head(todo)
           trial == Trial(mod, pass, fn, k)
           t == Tail(todo)
<1>1. /\ IsList(t) /\ k = todo[1] /\ 1 \in DOMAIN todo
      /\ \A i \in DOMAIN t : i + 1 \in DOMAIN todo /\ i + 1 > 1 /\ i \in Int /\ t[i] = todo[i + 1]
  BY TailFacts DEF TodoFits
<1>2. TodoFits(mod, pass, fn, t)
  BY TailFits
<1>3. Len(mod.functions) \in Nat /\ DOMAIN mod.functions = 1..Len(mod.functions)
  BY ListFacts DEF IsModule
<1> HIDE DEF t, k
<1>4. CASE pass = "functions"
  <2>1. k \in 2..Len(mod.functions) /\ \A i \in DOMAIN t : t[i] \in 2..Len(mod.functions)
    BY <1>1, <1>2, <1>4 DEF TodoFits
  <2>2. \A i \in DOMAIN t : k > t[i]
    BY <1>1, <1>4 DEF TodoFits
  <2>3. IsModule(trial) /\ Len(trial.functions) = Len(mod.functions) - 1
    <3>1. k \in DOMAIN mod.functions
      BY <1>3, <2>1
    <3>2. /\ IsModule(Trial(mod, "functions", fn, k))
          /\ Len(Trial(mod, "functions", fn, k).functions) = Len(mod.functions) - 1
      BY <3>1, FunctionTrialFacts
    <3> QED
      BY <1>4, <3>2 DEF trial, k
  <2> HIDE DEF trial
  <2>4. ASSUME NEW i \in DOMAIN t PROVE t[i] \in 2..Len(trial.functions)
    BY <1>3, <2>1, <2>2, <2>3
  <2> QED
    BY <1>2, <1>4, <2>3, <2>4 DEF TodoFits, trial, k, t
<1>5. CASE pass # "functions"
  <2>1. fn \in DOMAIN mod.functions /\ ~mod.functions[fn].declaration
    BY <1>5 DEF TodoFits
  <2>2. pass = "blocks" =>
          /\ k \in 2..Len(mod.functions[fn].blocks)
          /\ \A i \in DOMAIN t : k > t[i] /\ t[i] \in 2..Len(mod.functions[fn].blocks)
    BY <1>1, <1>2 DEF TodoFits
  <2>3. Len(mod.functions[fn].blocks) \in Nat
        /\ DOMAIN mod.functions[fn].blocks = 1..Len(mod.functions[fn].blocks)
    BY <2>1, ListFacts DEF IsModule, IsFunction
  <2>4. /\ IsModule(trial) /\ DOMAIN trial.functions = DOMAIN mod.functions
        /\ Len(trial.functions[fn].blocks) =
             Len(mod.functions[fn].blocks) - (IF pass = "blocks" THEN 1 ELSE 0)
        /\ trial.functions[fn].declaration = mod.functions[fn].declaration
    <3>1. pass \in {"blocks", "instructions", "constants"}
      BY <1>5 DEF Passes
    <3>2. pass = "blocks" => k \in DOMAIN mod.functions[fn].blocks
      BY <2>2, <2>3
    <3> QED
      BY <2>1, <3>1, <3>2, BodyTrialFacts
  <2> HIDE DEF trial
  <2>5. ASSUME pass = "blocks", NEW i \in DOMAIN t PROVE t[i] \in 2..Len(trial.functions[fn].blocks)
    BY <2>2, <2>3, <2>4, <2>5
  <2> QED
    BY <1>2, <1>5, <2>1, <2>4, <2>5 DEF TodoFits, trial, k, t
<1> QED
  BY <1>4, <1>5

-----------------------------------------------------------------------------
(* What is smaller depends on the module and the operation.                *)
LEMMA SameModule ==
  ASSUME reducer.mod' = reducer.mod, reducer.case' = reducer.case
  PROVE  \A pass, fn :
           /\ Candidates(pass, fn)' = Candidates(pass, fn)
           /\ \A k : Smaller(pass, fn, k)' <=> Smaller(pass, fn, k)
BY DEF Candidates, Smaller

LEMMA SameLeft ==
  ASSUME reducer.mod' = reducer.mod, reducer.case' = reducer.case
  PROVE  \A pass, fn : NoneLeft(pass, fn)' <=> NoneLeft(pass, fn)
BY SameModule DEF NoneLeft

(* The steps of a pass: what is smaller is kept, and the others are done.  *)
LEMMA StartKeeps ==
  ASSUME IInv, NEW mod, IsModule(mod), StartReducing(mod)
  PROVE  IInv'
<1>1. PICK case \in Cases :
        reducer' = IF StillFails(mod, case)
              THEN [reducer EXCEPT !.mod = mod, !.case = case, !.pass = "functions", !.fn = 1,
                             !.todo = Todo(mod, "functions", 1), !.round = 1]
              ELSE [reducer EXCEPT !.mod = mod, !.case = case, !.pass = "not failing"]
  BY DEF StartReducing
<1>2. reducer = IdleReducer /\ DOMAIN reducer = Fields
  BY DEF StartReducing, IInv, ReducerOK
<1>3. CASE ~StillFails(mod, case)
  <2>1. /\ DOMAIN reducer' = Fields /\ reducer' = [x \in Fields |-> reducer'[x]]
        /\ reducer.pass' = "not failing"
    BY <1>1, <1>2, <1>3 DEF Fields
  <2> QED
    BY <2>1 DEF IInv, ReducerOK, Tested, Minimal, Passes
<1>4. CASE StillFails(mod, case)
  <2>1. /\ DOMAIN reducer' = Fields /\ reducer' = [x \in Fields |-> reducer'[x]]
        /\ reducer.mod' = mod /\ reducer.case' = case /\ reducer.pass' = "functions"
        /\ reducer.fn' = 1 /\ reducer.todo' = Todo(mod, "functions", 1)
        /\ reducer.changed' = reducer.changed
    BY <1>1, <1>2, <1>4 DEF Fields
  <2>2. reducer.changed = FALSE
    BY <1>2 DEF IdleReducer
  <2>3. 1 \in DOMAIN mod.functions
    <3>1. DOMAIN mod.functions = 1..Len(mod.functions) /\ Len(mod.functions) \in Nat
      BY ListFacts DEF IsModule
    <3> QED
      BY <1>4, <3>1 DEF StillFails
  <2>4. /\ TodoFits(mod, "functions", 1, Todo(mod, "functions", 1))
        /\ 2..Len(mod.functions) \subseteq ToSet(Todo(mod, "functions", 1))
    BY <2>3, TodoFacts DEF Passes
  <2>5. ReducerOK'
    <3>1. TodoFits(reducer.mod, reducer.pass, reducer.fn, reducer.todo)'
      BY <2>1, <2>4
    <3>2. StillFails(reducer.mod, reducer.case)' /\ IsModule(reducer.mod)'
      BY <1>4, <2>1
    <3>3. reducer.fn' \in Nat
      BY <2>1
    <3>4. reducer.changed' \in BOOLEAN
      BY <2>1, <2>2
    <3> QED
      BY <2>1, <3>1, <3>2, <3>3, <3>4 DEF ReducerOK, Passes
  <2>6. Tested'
    <3>1. \A fn : NoneTried("functions", fn)'
      BY <2>1, <2>4 DEF NoneTried, Candidates
    <3> QED
      BY <2>1, <3>1 DEF Tested, Earlier
  <2> QED
    BY <2>1, <2>5, <2>6 DEF IInv, Minimal
<1> QED
  BY <1>3, <1>4

(* The first of the list is done, and is not smaller: the next one.        *)
LEMMA NextKeeps ==
  ASSUME IInv, Reducing, reducer.todo # <<>>,
         reducer' = [reducer EXCEPT !.todo = Tail(@)],
         ~Smaller(reducer.pass, reducer.fn, Head(reducer.todo)) \/ reducer.pass = "constants"
  PROVE  IInv'
<1>1. /\ reducer.pass \in Passes /\ DOMAIN reducer = Fields /\ IsList(reducer.todo)
      /\ TodoFits(reducer.mod, reducer.pass, reducer.fn, reducer.todo)
      /\ ReducerOK /\ Tested
  <2>1. reducer.pass \in Passes
    BY DEF Reducing, ToSet, PassOrder, Passes
  <2> QED
    BY <2>1 DEF IInv, ReducerOK, TodoFits
<1>2. /\ DOMAIN reducer' = Fields /\ reducer' = [x \in Fields |-> reducer'[x]]
      /\ reducer.mod' = reducer.mod /\ reducer.case' = reducer.case
      /\ reducer.pass' = reducer.pass /\ reducer.fn' = reducer.fn
      /\ reducer.changed' = reducer.changed /\ reducer.todo' = Tail(reducer.todo)
  BY <1>1 DEF Fields
<1>3. ReducerOK'
  <2>1. TodoFits(reducer.mod, reducer.pass, reducer.fn, reducer.todo)'
    BY <1>1, <1>2, TailFits
  <2> QED
    BY <1>1, <1>2, <2>1 DEF ReducerOK
<1>4. Tested'
  <2> SUFFICES ASSUME ~reducer.changed PROVE Tested'
    BY <1>2 DEF Tested
  <2>1. /\ \A fn \in DOMAIN reducer.mod.functions' : fn \in DOMAIN reducer.mod.functions
        /\ Earlier(reducer.pass)' = Earlier(reducer.pass)
    BY <1>2
  <2>2. ASSUME reducer.pass # "constants", NEW pass, NEW fn, NoneTried(pass, fn),
               pass = reducer.pass, pass = "functions" \/ fn = reducer.fn
        PROVE  NoneTried(pass, fn)'
    <3>1. ~Smaller(pass, fn, Head(reducer.todo))
      <4>1. ~Smaller(reducer.pass, reducer.fn, Head(reducer.todo))
        BY <2>2
      <4>2. CASE pass = "functions"
        BY <2>2, <4>1, <4>2 DEF Smaller, Skipped, Trial
      <4> QED
        BY <2>2, <4>1, <4>2
    <3>2. \A x : x \in ToSet(reducer.todo) /\ x \notin ToSet(Tail(reducer.todo)) => x = Head(reducer.todo)
      BY <1>1, TailFacts
    <3> QED
      BY <1>2, <2>2, <3>1, <3>2, SameModule DEF NoneTried
  <2> QED
    BY <1>1, <1>2, <2>1, <2>2, SameLeft DEF Tested
<1> QED
  BY <1>1, <1>2, <1>3, <1>4 DEF IInv, Minimal, Passes

LEMMA TryKeeps ==
  ASSUME IInv, Try
  PROVE  IInv'
<1> DEFINE k == Head(reducer.todo)
           trial == Trial(reducer.mod, reducer.pass, reducer.fn, k)
<1>1. Reducing /\ reducer.todo # <<>>
  BY DEF Try
<1>2. /\ reducer.pass \in Passes /\ DOMAIN reducer = Fields
      /\ IsModule(reducer.mod) /\ reducer.fn \in Nat
      /\ TodoFits(reducer.mod, reducer.pass, reducer.fn, reducer.todo)
  <2>1. reducer.pass \in Passes
    BY DEF Try, Reducing, ToSet, PassOrder, Passes
  <2> QED
    BY <2>1 DEF IInv, ReducerOK
<1>3. CASE reducer' = [reducer EXCEPT !.pass = "panic"]
  <2>1. /\ DOMAIN reducer' = Fields /\ reducer' = [x \in Fields |-> reducer'[x]]
        /\ reducer.pass' = "panic"
    BY <1>2, <1>3 DEF Fields
  <2> QED
    BY <2>1 DEF IInv, ReducerOK, Tested, Minimal, Passes
<1>4. CASE Skipped(reducer.mod, reducer.pass, reducer.fn, k) /\ reducer' = [reducer EXCEPT !.todo = Tail(@)]
  <2>1. ~Smaller(reducer.pass, reducer.fn, k)
    BY <1>4 DEF Smaller
  <2> QED
    BY <1>1, <1>4, <2>1, NextKeeps
<1>5. CASE ~StillFails(trial, reducer.case) /\ reducer' = [reducer EXCEPT !.todo = Tail(@)]
  <2>1. ~Smaller(reducer.pass, reducer.fn, k)
    BY <1>5 DEF Smaller
  <2> QED
    BY <1>1, <1>5, <2>1, NextKeeps
<1>6. CASE /\ StillFails(trial, reducer.case)
           /\ reducer' = [reducer EXCEPT !.mod = trial, !.todo = Tail(@), !.changed = TRUE]
  <2>1. IsModule(trial) /\ TodoFits(trial, reducer.pass, reducer.fn, Tail(reducer.todo))
    BY <1>1, <1>2, TailFitsTrial
  <2> HIDE DEF trial
  <2>2. /\ DOMAIN reducer' = Fields /\ reducer' = [x \in Fields |-> reducer'[x]]
        /\ reducer.mod' = trial /\ reducer.case' = reducer.case
        /\ reducer.pass' = reducer.pass /\ reducer.fn' = reducer.fn
        /\ reducer.changed' = TRUE /\ reducer.todo' = Tail(reducer.todo)
    BY <1>2, <1>6 DEF Fields
  <2>3. ReducerOK'
    BY <1>2, <1>6, <2>1, <2>2 DEF ReducerOK
  <2> QED
    BY <1>2, <2>2, <2>3 DEF IInv, Tested, Minimal, Passes
<1> QED
  BY <1>3, <1>4, <1>5, <1>6 DEF Try, Tried

LEMMA FunctionNumber ==
  ASSUME NEW mod, IsModule(mod), NEW fn \in DOMAIN mod.functions
  PROVE  fn \in Nat
<1>1. Len(mod.functions) \in Nat /\ DOMAIN mod.functions = 1..Len(mod.functions)
  BY ListFacts DEF IsModule
<1> QED
  BY <1>1

(* Where a pass goes through the next function, or the next pass begins.   *)
LEMMA AdvanceKeeps ==
  ASSUME ReducerOK, NEW pass \in Passes, NEW fn \in DOMAIN reducer.mod.functions, NEW new,
         new = At_(pass, fn) \/ \E r : new = [At_(pass, fn) EXCEPT !.round = r, !.changed = FALSE],
         reducer.pass \in Passes, reducer' = new,
         ~new.changed =>
           /\ \A p \in Earlier(pass) : \A g \in DOMAIN reducer.mod.functions : NoneLeft(p, g)
           /\ pass = "functions" => fn = 1 \/ \A g \in DOMAIN reducer.mod.functions : NoneLeft(pass, g)
           /\ pass # "functions" =>
                \A g \in DOMAIN reducer.mod.functions : g < fn => NoneLeft(pass, g)
                \/ pass = "constants"
  PROVE  IInv'
<1>1. /\ DOMAIN reducer = Fields /\ IsModule(reducer.mod)
      /\ StillFails(reducer.mod, reducer.case) /\ reducer.changed \in BOOLEAN
  BY DEF ReducerOK
<1>2. /\ DOMAIN reducer' = Fields /\ reducer' = [x \in Fields |-> reducer'[x]]
      /\ reducer.mod' = reducer.mod /\ reducer.case' = reducer.case
      /\ reducer.pass' = pass /\ reducer.fn' = fn
      /\ reducer.changed' \in BOOLEAN /\ reducer.todo' = Todo(reducer.mod, pass, fn)
  BY <1>1 DEF Fields, At_
<1>3. fn \in Nat
  BY <1>1, FunctionNumber
<1>4. /\ TodoFits(reducer.mod, pass, fn, Todo(reducer.mod, pass, fn))
      /\ pass # "constants" => \/ pass = "functions" /\ fn # 1
                               \/ Candidates(pass, fn) \subseteq ToSet(Todo(reducer.mod, pass, fn))
  <2> DEFINE todo == Todo(reducer.mod, pass, fn)
             f == reducer.mod.functions[fn]
  <2>1. /\ TodoFits(reducer.mod, pass, fn, todo)
        /\ pass = "functions" /\ fn = 1 => 2..Len(reducer.mod.functions) \subseteq ToSet(todo)
        /\ pass = "blocks" => 2..Len(f.blocks) \subseteq ToSet(todo)
        /\ pass = "instructions" =>
             UNION {ToSet(f.blocks[n].body) : n \in DOMAIN f.blocks} \subseteq ToSet(todo)
    BY <1>1, TodoFacts
  <2> HIDE DEF todo
  <2>2. CASE pass = "functions"
    BY <2>1, <2>2 DEF Candidates, todo
  <2>3. CASE pass = "blocks"
    BY <2>1, <2>3 DEF Candidates, todo
  <2>4. CASE pass = "instructions"
    BY <2>1, <2>4 DEF Candidates, todo
  <2> QED
    BY <2>1, <2>2, <2>3, <2>4 DEF Passes, todo
<1>5. ReducerOK'
  BY <1>1, <1>2, <1>3, <1>4 DEF ReducerOK
<1>6. Tested'
  <2> SUFFICES ASSUME ~reducer.changed' PROVE Tested'
    BY DEF Tested
  <2>1. ASSUME NEW p, NEW g, NoneLeft(p, g)' PROVE NoneTried(p, g)'
    BY <2>1 DEF NoneLeft, NoneTried
  <2>2. pass \in {"blocks", "instructions"} => NoneTried(pass, fn)'
    <3> SUFFICES ASSUME pass \in {"blocks", "instructions"} PROVE NoneTried(pass, fn)'
      OBVIOUS
    <3>1. Candidates(pass, fn)' = Candidates(pass, fn)
      BY <1>2, SameModule
    <3>2. Candidates(pass, fn) \subseteq ToSet(reducer.todo)'
      BY <1>2, <1>4
    <3> QED
      BY <3>1, <3>2 DEF NoneTried
  <2>3. pass = "functions" => \A g \in DOMAIN reducer.mod.functions : NoneTried(pass, g)'
    <3>1. CASE pass = "functions" /\ fn = 1
      <4>1. \A g : Candidates(pass, g) = Candidates(pass, fn)
        BY <3>1 DEF Candidates
      <4> QED
        <5>1. \A g : Candidates(pass, g)' = Candidates(pass, fn)
          <6> TAKE g
          <6>1. Candidates(pass, g)' = Candidates(pass, g)
            BY <1>2, SameModule
          <6> QED
            BY <4>1, <6>1
        <5>2. Candidates(pass, fn) \subseteq ToSet(reducer.todo)'
          BY <1>2, <1>4, <3>1
        <5> QED
          BY <5>1, <5>2 DEF NoneTried
    <3>2. CASE pass = "functions" /\ fn # 1
      BY <2>1, <3>2, SameLeft, <1>2
    <3> QED
      BY <3>1, <3>2
  <2> QED
    BY <1>2, <2>2, <2>3, SameLeft DEF Tested
<1> QED
  BY <1>2, <1>5, <1>6 DEF IInv, Minimal, Passes

(* A pass that is through: nothing is left of it in any function.          *)
LEMMA PassDone ==
  ASSUME IInv, reducer.pass \in Passes \ {"constants"}, ~reducer.changed, reducer.todo = <<>>
  PROVE  /\ reducer.pass # "functions" => NoneLeft(reducer.pass, reducer.fn)
         /\ reducer.pass = "functions" \/ reducer.fn >= Len(reducer.mod.functions) =>
              \A g \in DOMAIN reducer.mod.functions : NoneLeft(reducer.pass, g)
<1>1. /\ reducer.fn \in Nat /\ IsModule(reducer.mod) /\ Tested
  BY DEF IInv, ReducerOK
<1>2. Len(reducer.mod.functions) \in Nat
      /\ DOMAIN reducer.mod.functions = 1..Len(reducer.mod.functions)
  BY <1>1, ListFacts DEF IsModule
<1>3. ToSet(reducer.todo) = {}
  BY DEF ToSet
<1>4. \A pass, fn : NoneTried(pass, fn) => NoneLeft(pass, fn)
  BY <1>3 DEF NoneTried, NoneLeft
<1>5. CASE reducer.pass = "functions"
  <2>1. \A g \in DOMAIN reducer.mod.functions : NoneLeft(reducer.pass, g)
    BY <1>1, <1>4, <1>5 DEF Tested, Passes
  <2> QED
    BY <1>5, <2>1
<1>6. CASE reducer.pass # "functions"
  <2>1. /\ NoneLeft(reducer.pass, reducer.fn)
        /\ \A g \in DOMAIN reducer.mod.functions : g < reducer.fn => NoneLeft(reducer.pass, g)
    BY <1>1, <1>4, <1>6 DEF Tested, Passes
  <2>2. ASSUME reducer.fn >= Len(reducer.mod.functions), NEW g \in DOMAIN reducer.mod.functions
        PROVE  g < reducer.fn \/ g = reducer.fn
    BY <1>1, <1>2, <2>2
  <2> QED
    BY <1>6, <2>1, <2>2
<1> QED
  BY <1>5, <1>6

LEMMA NextFunctionKeeps ==
  ASSUME IInv, NextFunction
  PROVE  IInv'
<1>1. /\ reducer.pass \in Passes /\ reducer.todo = <<>> /\ ReducerOK
      /\ reducer' = At_(reducer.pass, reducer.fn + 1)
  BY DEF NextFunction, Reducing, ToSet, PassOrder, Passes, IInv
<1>2. /\ IsModule(reducer.mod) /\ reducer.fn \in Nat /\ reducer.fn < Len(reducer.mod.functions)
  BY <1>1 DEF ReducerOK, NextFunction
<1>3. /\ Len(reducer.mod.functions) \in Nat
      /\ DOMAIN reducer.mod.functions = 1..Len(reducer.mod.functions)
  BY <1>2, ListFacts DEF IsModule
<1>4. /\ reducer.fn + 1 \in DOMAIN reducer.mod.functions
      /\ \A g \in DOMAIN reducer.mod.functions : g < reducer.fn + 1 => g < reducer.fn \/ g = reducer.fn
  BY <1>2, <1>3
<1>5. At_(reducer.pass, reducer.fn + 1).changed = reducer.changed
  BY <1>1 DEF At_, ReducerOK, Fields
<1>6. ASSUME ~reducer.changed
      PROVE  /\ \A p \in Earlier(reducer.pass) : \A g \in DOMAIN reducer.mod.functions : NoneLeft(p, g)
             /\ reducer.pass = "functions" =>
                  \A g \in DOMAIN reducer.mod.functions : NoneLeft(reducer.pass, g)
             /\ reducer.pass # "functions" =>
                  \A g \in DOMAIN reducer.mod.functions : g < reducer.fn + 1 => NoneLeft(reducer.pass, g)
                  \/ reducer.pass = "constants"
  <2>1. \A p \in Earlier(reducer.pass) : \A g \in DOMAIN reducer.mod.functions : NoneLeft(p, g)
    BY <1>1, <1>6 DEF IInv, Tested
  <2>2. reducer.pass = "functions" =>
          \A g \in DOMAIN reducer.mod.functions : NoneLeft(reducer.pass, g)
    BY <1>1, <1>6, PassDone
  <2>3. ASSUME reducer.pass \in {"blocks", "instructions"}, NEW g \in DOMAIN reducer.mod.functions,
               g < reducer.fn + 1
        PROVE  NoneLeft(reducer.pass, g)
    <3>1. NoneLeft(reducer.pass, reducer.fn)
      BY <1>1, <1>6, <2>3, PassDone
    <3>2. g < reducer.fn => NoneLeft(reducer.pass, g)
      BY <1>1, <1>6, <2>3 DEF IInv, Tested
    <3> QED
      BY <1>4, <2>3, <3>1, <3>2
  <2> QED
    BY <1>1, <2>1, <2>2, <2>3 DEF Passes
<1> QED
  BY <1>1, <1>4, <1>5, <1>6, AdvanceKeeps

LEMMA NextPassKeeps ==
  ASSUME IInv, NextPass
  PROVE  IInv'
<1> DEFINE next == PassOrder[CHOOSE n \in 2..4 : PassOrder[n - 1] = reducer.pass]
<1>1. /\ reducer.pass \in Passes \ {"constants"} /\ reducer.todo = <<>> /\ ReducerOK
      /\ reducer.fn >= Len(reducer.mod.functions) /\ reducer' = At_(next, 1)
  BY DEF NextPass, Reducing, ToSet, PassOrder, Passes, IInv
<1>2. /\ next \in Passes \ {"functions"}
      /\ Earlier(next) = Earlier(reducer.pass) \cup {reducer.pass}
  <2> DEFINE n == CHOOSE m \in 2..4 : PassOrder[m - 1] = reducer.pass
  <2>1. \E m \in 2..4 : PassOrder[m - 1] = reducer.pass
    <3>1. PassOrder[2 - 1] = "functions" /\ PassOrder[3 - 1] = "blocks" /\ PassOrder[4 - 1] = "instructions"
      BY DEF PassOrder
    <3>2. 2 \in 2..4 /\ 3 \in 2..4 /\ 4 \in 2..4
      OBVIOUS
    <3> QED
      BY <1>1, <3>1, <3>2 DEF Passes
  <2>2. n \in 2..4 /\ PassOrder[n - 1] = reducer.pass
    BY <2>1
  <2>3. next = PassOrder[n]
    OBVIOUS
  <2> HIDE DEF n
  <2>4. n = 2 \/ n = 3 \/ n = 4
    BY <2>2
  <2> HIDE DEF next
  <2>5. CASE n = 2
    <3>1. reducer.pass = "functions" /\ next = "blocks"
      BY <2>2, <2>3, <2>5 DEF PassOrder
    <3> QED
      BY <3>1 DEF Passes, Earlier
  <2>6. CASE n = 3
    <3>1. reducer.pass = "blocks" /\ next = "instructions"
      BY <2>2, <2>3, <2>6 DEF PassOrder
    <3> QED
      BY <3>1 DEF Passes, Earlier
  <2>7. CASE n = 4
    <3>1. reducer.pass = "instructions" /\ next = "constants"
      BY <2>2, <2>3, <2>7 DEF PassOrder
    <3> QED
      BY <3>1 DEF Passes, Earlier
  <2> QED
    BY <2>4, <2>5, <2>6, <2>7
<1> HIDE DEF next
<1>3. /\ IsModule(reducer.mod) /\ StillFails(reducer.mod, reducer.case)
  BY <1>1 DEF ReducerOK
<1>4. 1 \in DOMAIN reducer.mod.functions /\ \A g \in DOMAIN reducer.mod.functions : ~(g < 1)
  <2>1. /\ Len(reducer.mod.functions) \in Nat
        /\ DOMAIN reducer.mod.functions = 1..Len(reducer.mod.functions)
    BY <1>3, ListFacts DEF IsModule
  <2>2. DOMAIN reducer.mod.functions # {}
    BY <1>3 DEF StillFails
  <2> QED
    BY <2>1, <2>2
<1>5. At_(next, 1).changed = reducer.changed
  BY <1>1 DEF At_, ReducerOK, Fields
<1>6. ASSUME ~reducer.changed
      PROVE  \A p \in Earlier(next) : \A g \in DOMAIN reducer.mod.functions : NoneLeft(p, g)
  <2>1. \A p \in Earlier(reducer.pass) : \A g \in DOMAIN reducer.mod.functions : NoneLeft(p, g)
    BY <1>1, <1>6 DEF IInv, Tested
  <2>2. \A g \in DOMAIN reducer.mod.functions : NoneLeft(reducer.pass, g)
    BY <1>1, <1>6, PassDone
  <2> QED
    BY <1>2, <2>1, <2>2
<1> QED
  BY <1>1, <1>2, <1>4, <1>5, <1>6, AdvanceKeeps

(* The last pass: another round, or the end.  A round in which nothing was *)
(* removed has seen that nothing can be.                                   *)
LEMMA NextRoundKeeps ==
  ASSUME IInv, NextRound
  PROVE  IInv'
<1>1. /\ reducer.pass = "constants" /\ reducer.pass \in Passes /\ ReducerOK
      /\ reducer' = IF reducer.changed /\ reducer.round < MaxPasses
             THEN [At_("functions", 1) EXCEPT !.round = @ + 1, !.changed = FALSE]
             ELSE [reducer EXCEPT !.pass = "reduced"]
  BY DEF NextRound, Passes, IInv
<1>2. /\ DOMAIN reducer = Fields /\ reducer.changed \in BOOLEAN
      /\ IsModule(reducer.mod) /\ StillFails(reducer.mod, reducer.case)
  BY <1>1 DEF ReducerOK
<1>3. CASE reducer.changed /\ reducer.round < MaxPasses
  <2> DEFINE new == [At_("functions", 1) EXCEPT !.round = At_("functions", 1).round + 1, !.changed = FALSE]
  <2>1. reducer' = new
    BY <1>1, <1>3
  <2>2. \E r : new = [At_("functions", 1) EXCEPT !.round = r, !.changed = FALSE]
    OBVIOUS
  <2>3. 1 \in DOMAIN reducer.mod.functions
    <3>1. /\ Len(reducer.mod.functions) \in Nat
          /\ DOMAIN reducer.mod.functions = 1..Len(reducer.mod.functions)
      BY <1>2, ListFacts DEF IsModule
    <3>2. DOMAIN reducer.mod.functions # {}
      BY <1>2 DEF StillFails
    <3> QED
      BY <3>1, <3>2
  <2>4. "functions" \in Passes /\ Earlier("functions") = {}
    BY DEF Passes, Earlier
  <2> HIDE DEF new
  <2> QED
    BY <1>1, <2>1, <2>2, <2>3, <2>4, AdvanceKeeps
<1>4. CASE ~(reducer.changed /\ reducer.round < MaxPasses)
  <2>1. /\ DOMAIN reducer' = Fields /\ reducer' = [x \in Fields |-> reducer'[x]]
        /\ reducer.mod' = reducer.mod /\ reducer.case' = reducer.case
        /\ reducer.pass' = "reduced" /\ reducer.round' = reducer.round
    BY <1>1, <1>2, <1>4 DEF Fields
  <2>2. ReducerOK' /\ Tested'
    BY <1>2, <2>1 DEF ReducerOK, Tested, Passes
  <2>3. ASSUME ~reducer.changed, NEW pass \in {"functions", "blocks", "instructions"},
               NEW fn \in DOMAIN reducer.mod.functions
        PROVE  NoneLeft(pass, fn)
    BY <1>1, <2>3 DEF IInv, Tested, Earlier
  <2>4. ASSUME reducer.round < MaxPasses, NEW pass \in {"functions", "blocks", "instructions"},
               NEW fn \in DOMAIN reducer.mod.functions'
        PROVE  NoneLeft(pass, fn)'
    BY <1>4, <2>1, <2>3, <2>4, SameLeft
  <2>5. Minimal'
    BY <1>2, <2>1, <2>4 DEF Minimal, NoneLeft
  <2> QED
    BY <2>2, <2>5 DEF IInv
<1> QED
  BY <1>3, <1>4

-----------------------------------------------------------------------------
(* Minimal, for every module, operation and number of rounds: although the *)
(* passes go by ids that their own removals make stale, a reducer that     *)
(* ends before max_passes leaves nothing that a single further step could  *)
(* remove.  The argument: a round ends without changes only where every    *)
(* id it tried was one of the module it ends with.                         *)
THEOREM MinimalAlways ==
  ReduceSpec => []Minimal
<1>1. ReduceInit => IInv
  <2> SUFFICES ASSUME ReduceInit PROVE IInv
    OBVIOUS
  <2>1. /\ DOMAIN reducer = Fields /\ reducer = [x \in Fields |-> reducer[x]]
        /\ reducer.pass = "idle"
    BY DEF ReduceInit, IdleReducer, Fields
  <2> QED
    BY <2>1 DEF IInv, ReducerOK, Tested, Minimal, Passes
<1>2. IInv /\ [(\E mod : IsModule(mod) /\ StartReducing(mod)) \/ ReduceNext]_reducer => IInv'
  <2> SUFFICES ASSUME IInv, [(\E mod : IsModule(mod) /\ StartReducing(mod)) \/ ReduceNext]_reducer
               PROVE  IInv'
    OBVIOUS
  <2>1. ASSUME NEW mod, IsModule(mod), StartReducing(mod) PROVE IInv'
    BY <2>1, StartKeeps
  <2>2. CASE Try
    BY <2>2, TryKeeps
  <2>3. CASE NextFunction
    BY <2>3, NextFunctionKeeps
  <2>4. CASE NextPass
    BY <2>4, NextPassKeeps
  <2>5. CASE NextRound
    BY <2>5, NextRoundKeeps
  <2>6. CASE UNCHANGED reducer
    <3>1. \A pass, fn : (NoneLeft(pass, fn)' <=> NoneLeft(pass, fn))
                        /\ (NoneTried(pass, fn)' <=> NoneTried(pass, fn))
      BY <2>6, SameModule DEF NoneLeft, NoneTried
    <3>2. ReducerOK'
      BY <2>6 DEF IInv, ReducerOK
    <3>3. Tested'
      BY <2>6, <3>1 DEF IInv, Tested
    <3>4. Minimal'
      BY <2>6, SameModule DEF IInv, Minimal
    <3> QED
      BY <3>2, <3>3, <3>4 DEF IInv
  <2> QED
    BY <2>1, <2>2, <2>3, <2>4, <2>5, <2>6 DEF ReduceNext
<1>3. IInv => Minimal
  BY DEF IInv
<1> QED
  BY <1>1, <1>2, <1>3, PTL DEF ReduceSpec

-----------------------------------------------------------------------------
(* What is compiled of a module is its definitions, each name once.        *)
LEMMA DefinitionsFacts ==
  ASSUME NEW m, IsUnit(m)
  PROVE  AllCode(Definitions(m))
<1> DEFINE fs == m.functions
           defs == {f \in ToSet(fs) : ~f.declaration}
           kept == Kept(fs, defs)
<1>1. /\ IsList(fs) /\ Distinct(fs) /\ \A k \in DOMAIN fs : IsCode(fs[k])
      /\ fs \in Seq(ToSet(fs))
  BY DEF IsUnit, AllCode, IsList
<1>2. IsInjective(fs)
  BY <1>1 DEF Distinct, IsInjective
<1>3. kept \in Seq(ToSet(fs)) /\ IsInjective(kept)
  <2> HIDE DEF fs, defs
  <2> QED
    BY <1>1, <1>2, KeptElements
<1> HIDE DEF defs, kept
<1>4. IsList(kept)
  <2> HIDE DEF fs
  <2> QED
    BY <1>3, SeqIsList
<1>5. \A k \in DOMAIN kept : \E n \in DOMAIN fs : kept[k] = fs[n]
  <2>1. \A k \in DOMAIN kept : kept[k] \in ToSet(fs)
    BY <1>3
  <2> QED
    BY <2>1 DEF ToSet
<1>6. Distinct(kept)
  <2> SUFFICES ASSUME NEW j \in DOMAIN kept, NEW k \in DOMAIN kept, kept[j].name = kept[k].name
               PROVE  j = k
    BY DEF Distinct
  <2>1. PICK a \in DOMAIN fs, b \in DOMAIN fs : kept[j] = fs[a] /\ kept[k] = fs[b]
    BY <1>5
  <2>2. kept[j] = kept[k]
    BY <1>1, <2>1 DEF Distinct
  <2> QED
    BY <1>3, <2>2 DEF IsInjective
<1>7. \A k \in DOMAIN kept : IsCode(kept[k])
  BY <1>1, <1>5
<1> QED
  BY <1>4, <1>6, <1>7 DEF AllCode, Definitions, kept, defs

(* Each function begins where the one before it ends.                      *)
LEMMA OffsetsFacts ==
  ASSUME NEW fs, AllCode(fs), fs # <<>>
  PROVE  /\ Offsets(fs)[1] = 0
         /\ \A k \in 1..Len(fs) : Offsets(fs)[k] \in Nat
         /\ \A k \in 2..Len(fs) : Offsets(fs)[k] = Offsets(fs)[k - 1] + Len(fs[k - 1].instrs)
<1> DEFINE D == 1..Len(fs)
           base == [i \in {1} |-> 0]
           pre == [i \in D |-> i - 1]
           step == [p \in D \X Nat |-> p[2] + Len(fs[p[1] - 1].instrs)]
           Rec(h) == h = [k \in 1..Len(fs) |-> IF k = 1 THEN 0 ELSE h[k - 1] + Len(fs[k - 1].instrs)]
           start == CHOOSE h : Rec(h)
<1>1. /\ Len(fs) \in Nat /\ DOMAIN fs = D /\ D \subseteq Nat
      /\ \A i \in D : i # 1 => i - 1 \in D
      /\ 1 \in D
  <2>1. Len(fs) \in Nat /\ DOMAIN fs = D /\ fs \in Seq(ToSet(fs))
    BY ListFacts DEF AllCode, IsList
  <2>2. Len(fs) # 0
    BY <2>1
  <2> QED
    BY <2>1, <2>2
<1>2. \A i \in D : Len(fs[i].instrs) \in Nat
  <2> TAKE i \in D
  <2>1. IsList(fs[i].instrs)
    BY <1>1 DEF AllCode, IsCode
  <2> QED
    BY <2>1, ListFacts
<1>3. \A i \in D \ {1} : \A t \in Nat :
        step[<<i, t>>] = t + Len(fs[i - 1].instrs) /\ step[<<i, t>>] \in Nat
  <2> TAKE i \in D \ {1}
  <2> TAKE t \in Nat
  <2>1. step[<<i, t>>] = t + Len(fs[i - 1].instrs)
    OBVIOUS
  <2>2. i - 1 \in D
    BY <1>1
  <2> HIDE DEF D, step
  <2> QED
    BY <1>2, <2>1, <2>2
<1>4. WellPosed(D, Nat, {1}, base, pre, step)
  <2>1. \A i \in D \ {1} : pre[i] \in D /\ pre[i] < i
    BY <1>1
  <2>2. \A i \in D \cap {1} : base[i] \in Nat
    OBVIOUS
  <2> HIDE DEF D, base, pre, step
  <2> QED
    BY <1>1, <1>3, <2>1, <2>2 DEF WellPosed
<1>5. \E h \in [D -> Nat] : Rec(h)
  <2> HIDE DEF D, base, pre, step, Rec
  <2>1. PICK h \in [D -> Nat] : \A i \in D : h[i] = Value(h, i, {1}, base, pre, step)
    BY <1>4, RecursiveFunction
  <2>2. \A i \in D : h[i] = IF i = 1 THEN 0 ELSE h[i - 1] + Len(fs[i - 1].instrs)
    <3> TAKE i \in D
    <3>1. h[i] = IF i \in {1} THEN base[i] ELSE step[<<i, h[pre[i]]>>]
      BY <2>1 DEF Value
    <3>2. CASE i = 1
      BY <3>1, <3>2 DEF base
    <3>3. CASE i # 1
      <4>1. pre[i] = i - 1 /\ h[i - 1] \in Nat
        BY <1>1, <2>1, <3>3 DEF pre
      <4>2. step[<<i, h[i - 1]>>] = h[i - 1] + Len(fs[i - 1].instrs)
        BY <1>3, <3>3, <4>1
      <4> QED
        BY <3>1, <3>3, <4>1, <4>2
    <3> QED
      BY <3>2, <3>3
  <2>3. Rec(h)
    BY <2>1, <2>2 DEF Rec, D
  <2> QED
    BY <2>3
<1>6. Rec(start) /\ start = Offsets(fs)
  <2>1. Offsets(fs) = start
    BY DEF Offsets
  <2> HIDE DEF Rec
  <2>2. Rec(start)
    BY <1>5 DEF start
  <2> QED
    BY <2>1, <2>2
<1>7. PICK g \in [D -> Nat] : Rec(g)
  BY <1>5
<1> DEFINE o == Offsets(fs)
<1>8. \A k \in D : o[k] = IF k = 1 THEN 0 ELSE o[k - 1] + Len(fs[k - 1].instrs)
  <2> HIDE DEF start, o
  <2>1. Rec(o)
    BY <1>6 DEF o
  <2> QED
    BY <2>1
<1> HIDE DEF o, Rec, start
<1>9. \A k \in D : o[k] \in Nat
  <2> DEFINE Good == {n \in Nat : \A k \in D : k <= n => o[k] \in Nat}
  <2>1. 0 \in Good
    BY <1>1
  <2>2. \A n \in Nat : n \in Good => n + 1 \in Good
    <3> SUFFICES ASSUME NEW n \in Nat, n \in Good, NEW k \in D, k = n + 1 PROVE o[k] \in Nat
      BY <1>1
    <3>1. CASE k = 1
      BY <1>8, <3>1
    <3>2. CASE k # 1
      <4>1. k - 1 \in D /\ k - 1 = n
        BY <1>1, <3>2
      <4>2. o[k - 1] \in Nat /\ Len(fs[k - 1].instrs) \in Nat
        BY <1>2, <4>1
      <4> QED
        BY <1>8, <3>2, <4>2
    <3> QED
      BY <3>1, <3>2
  <2> HIDE DEF Good
  <2>3. \A n \in Nat : n \in Good
    BY <2>1, <2>2, InductionOnSet
  <2> QED
    BY <1>1, <2>3 DEF Good
<1> QED
  BY <1>1, <1>8, <1>9 DEF o

(* What is appended up to one list is the beginning of what is appended up *)
(* to a later one.                                                         *)
LEMMA ChainPrefix ==
  ASSUME NEW ss, IsList(ss), \A i \in 1..Len(ss) : IsList(ss[i]),
         NEW h, Chain(h, ss), \A i \in 0..Len(ss) : IsList(h[i]),
         NEW k \in 1..Len(ss)
  PROVE  \A n \in k..Len(ss) : /\ Len(h[k]) <= Len(h[n])
                               /\ \A i \in 1..Len(h[k]) : h[n][i] = h[k][i]
<1> DEFINE Good == {n \in Nat : n \in k..Len(ss) => /\ Len(h[k]) <= Len(h[n])
                                                    /\ \A i \in 1..Len(h[k]) : h[n][i] = h[k][i]}
<1>1. Len(ss) \in Nat /\ \A i \in 0..Len(ss) : Len(h[i]) \in Nat
  BY ListFacts
<1>2. 0 \in Good
  BY <1>1
<1>3. \A n \in Nat : n \in Good => n + 1 \in Good
  <2> SUFFICES ASSUME NEW n \in Nat, n \in Good, n + 1 \in k..Len(ss)
               PROVE  /\ Len(h[k]) <= Len(h[n + 1])
                      /\ \A i \in 1..Len(h[k]) : h[n + 1][i] = h[k][i]
    OBVIOUS
  <2>1. CASE n + 1 = k
    BY <1>1, <2>1
  <2>2. CASE n + 1 # k
    <3>1. /\ n \in k..Len(ss) /\ n \in 0..Len(ss) /\ n + 1 \in 1..Len(ss)
          /\ (n + 1) - 1 = n
      BY <1>1, <2>2
    <3>2. h[n + 1] = h[n] \o ss[n + 1]
      BY <3>1 DEF Chain, Joins
    <3>3. IsList(h[n]) /\ IsList(ss[n + 1])
      BY <3>1
    <3>4. /\ Len(h[n + 1]) = Len(h[n]) + Len(ss[n + 1]) /\ Len(h[n]) \in Nat /\ Len(ss[n + 1]) \in Nat
          /\ \A i \in 1..Len(h[n]) : h[n + 1][i] = h[n][i]
      <4> DEFINE s == h[n]
                 t == ss[n + 1]
      <4>1. IsList(s) /\ IsList(t) /\ h[n + 1] = s \o t
        BY <3>2, <3>3
      <4> HIDE DEF s, t
      <4>2. Len(s) \in Nat /\ Len(t) \in Nat
        BY <4>1, ListFacts
      <4>3. Len(s \o t) = Len(s) + Len(t) /\ \A i \in 1..Len(s) : (s \o t)[i] = s[i]
        BY <4>1, ConcatLists
      <4> QED
        BY <4>1, <4>2, <4>3 DEF s, t
    <3>5. /\ Len(h[k]) <= Len(h[n]) /\ Len(h[k]) \in Nat
          /\ \A i \in 1..Len(h[k]) : h[n][i] = h[k][i]
      BY <1>1, <3>1
    <3> DEFINE short == Len(h[k])
               long == Len(h[n])
               longer == Len(h[n + 1])
    <3>6. /\ short \in Nat /\ long \in Nat /\ short <= long
          /\ longer = long + Len(ss[n + 1]) /\ Len(ss[n + 1]) \in Nat
      BY <3>4, <3>5
    <3> HIDE DEF short, long, longer
    <3>7. short <= longer /\ \A i \in 1..short : i \in 1..long
      BY <3>6
    <3>8. ASSUME NEW i \in 1..short PROVE h[n + 1][i] = h[k][i]
      BY <3>4, <3>5, <3>7, <3>8 DEF short, long
    <3> QED
      BY <3>7, <3>8 DEF short, longer
  <2> QED
    BY <2>1, <2>2
<1> HIDE DEF Good
<1>4. \A n \in Nat : n \in Good
  BY <1>2, <1>3, InductionOnSet
<1> QED
  BY <1>1, <1>4 DEF Good

(* The code of each function is in the page where it is said to begin.     *)
LEMMA CodeInPage ==
  ASSUME NEW fs, AllCode(fs), NEW k \in DOMAIN fs
  PROVE  SubSeq(PageBytes(fs), Offsets(fs)[k] + 1, Offsets(fs)[k] + Len(fs[k].instrs)) = fs[k].instrs
<1> DEFINE ss == [n \in DOMAIN fs |-> fs[n].instrs]
           o == Offsets(fs)
           code == fs[k].instrs
<1>1. /\ Len(fs) \in Nat /\ DOMAIN fs = 1..Len(fs) /\ k \in 1..Len(fs) /\ fs # <<>>
      /\ \A n \in 1..Len(fs) : ss[n] = fs[n].instrs /\ IsList(ss[n])
  <2>1. Len(fs) \in Nat /\ DOMAIN fs = 1..Len(fs) /\ fs \in Seq(ToSet(fs))
    BY ListFacts DEF AllCode, IsList
  <2>2. fs # <<>>
    BY <2>1
  <2> QED
    BY <2>1, <2>2 DEF AllCode, IsCode
<1>2. IsList(ss) /\ Len(ss) = Len(fs) /\ DOMAIN ss = 1..Len(fs)
  <2>1. ss = [n \in 1..Len(fs) |-> ss[n]] /\ DOMAIN ss = 1..Len(fs)
    BY <1>1
  <2> HIDE DEF ss
  <2> QED
    BY <1>1, <2>1, FunctionIsList
<1>3. PageBytes(fs) = FlattenSeq(ss)
  BY DEF PageBytes
<1> HIDE DEF ss
<1>4. PICK h : /\ Chain(h, ss) /\ FlattenSeq(ss) = h[Len(ss)]
               /\ \A i \in 0..Len(ss) : IsList(h[i])
  BY <1>1, <1>2, FlattenChain
<1>5. /\ o[1] = 0 /\ \A n \in 1..Len(fs) : o[n] \in Nat
      /\ \A n \in 2..Len(fs) : o[n] = o[n - 1] + Len(fs[n - 1].instrs)
  BY <1>1, OffsetsFacts
<1> HIDE DEF o
<1>6. \A n \in 1..Len(fs) : /\ h[n] = h[n - 1] \o ss[n]
                            /\ IsList(h[n]) /\ IsList(h[n - 1]) /\ IsList(ss[n])
  <2> TAKE n \in 1..Len(fs)
  <2>1. n \in 1..Len(ss) /\ n \in 0..Len(ss) /\ n - 1 \in 0..Len(ss)
    BY <1>1, <1>2
  <2> QED
    BY <1>1, <1>4, <2>1 DEF Chain, Joins
<1>7. \A n \in 1..Len(fs) : /\ Len(h[n]) = Len(h[n - 1]) + Len(ss[n])
                            /\ Len(h[n - 1]) \in Nat /\ Len(ss[n]) \in Nat /\ Len(h[n]) \in Nat
                            /\ \A i \in 1..Len(ss[n]) : h[n][Len(h[n - 1]) + i] = ss[n][i]
  <2> TAKE n \in 1..Len(fs)
  <2> DEFINE s == h[n - 1]
             t == ss[n]
  <2>1. IsList(s) /\ IsList(t) /\ h[n] = s \o t
    BY <1>6
  <2> HIDE DEF s, t
  <2>2. Len(s) \in Nat /\ Len(t) \in Nat
    BY <2>1, ListFacts
  <2>3. Len(s \o t) = Len(s) + Len(t) /\ \A i \in 1..Len(t) : (s \o t)[Len(s) + i] = t[i]
    BY <2>1, ConcatLists
  <2>4. Len(s) + Len(t) \in Nat
    BY <2>2
  <2> QED
    BY <2>1, <2>2, <2>3, <2>4 DEF s, t
<1>8. \A n \in 1..Len(fs) : o[n] = Len(h[n - 1])
  <2> DEFINE Good == {n \in Nat : n \in 1..Len(fs) => o[n] = Len(h[n - 1])}
  <2>1. 0 \in Good
    BY <1>1
  <2>2. \A n \in Nat : n \in Good => n + 1 \in Good
    <3> SUFFICES ASSUME NEW n \in Nat, n \in Good, n + 1 \in 1..Len(fs)
                 PROVE  o[n + 1] = Len(h[n])
      OBVIOUS
    <3>1. CASE n = 0
      <4>1. Len(h[0]) = 0
        BY <1>4 DEF Chain
      <4> QED
        BY <1>5, <3>1, <4>1
    <3>2. CASE n # 0
      <4>1. n \in 1..Len(fs) /\ n + 1 \in 2..Len(fs) /\ (n + 1) - 1 = n
        BY <1>1, <3>2
      <4>2. o[n] = Len(h[n - 1]) /\ o[n + 1] = o[n] + Len(fs[n].instrs)
        BY <1>5, <4>1
      <4>3. Len(h[n]) = Len(h[n - 1]) + Len(ss[n]) /\ ss[n] = fs[n].instrs
        BY <1>1, <1>7, <4>1
      <4> QED
        BY <4>2, <4>3
    <3> QED
      BY <3>1, <3>2
  <2> HIDE DEF Good
  <2>3. \A n \in Nat : n \in Good
    BY <2>1, <2>2, InductionOnSet
  <2> QED
    BY <1>1, <2>3 DEF Good
<1>9. /\ Len(h[k]) <= Len(h[Len(ss)])
      /\ \A i \in 1..Len(h[k]) : h[Len(ss)][i] = h[k][i]
  <2>1. \A i \in 1..Len(ss) : IsList(ss[i])
    BY <1>1, <1>2
  <2>2. k \in 1..Len(ss) /\ Len(ss) \in k..Len(ss)
    BY <1>1, <1>2
  <2> QED
    BY <1>2, <1>4, <2>1, <2>2, ChainPrefix
<1> DEFINE page == h[Len(ss)]
           a == o[k]
           n == Len(code)
<1>10. /\ a \in Nat /\ n \in Nat /\ n = Len(ss[k]) /\ code = ss[k]
       /\ \A i \in 1..n : page[a + i] = code[i]
       /\ a + n <= Len(page) /\ Len(page) \in Nat
  <2>1. a \in Nat /\ n \in Nat /\ n = Len(ss[k]) /\ code = ss[k]
    BY <1>1, <1>5, <1>7
  <2>2. Len(h[k]) = a + n /\ a = Len(h[k - 1])
    BY <1>1, <1>7, <1>8, <2>1
  <2>3. Len(page) \in Nat
    BY <1>1, <1>2, <1>4, ListFacts
  <2> HIDE DEF a, n, code, page
  <2>4. ASSUME NEW i \in 1..n PROVE page[a + i] = code[i]
    <3>1. a + i \in 1..Len(h[k])
      <4> DEFINE l == Len(h[k])
      <4>1. i \in Nat /\ 1 <= i /\ i <= n
        BY <2>1
      <4>2. l = a + n /\ a \in Nat /\ n \in Nat
        BY <2>1, <2>2
      <4> HIDE DEF l
      <4>3. a + i \in 1..l
        BY <4>1, <4>2
      <4> QED
        BY <4>3 DEF l
    <3>2. h[k][a + i] = ss[k][i]
      BY <1>1, <1>7, <2>1, <2>2
    <3> QED
      BY <1>9, <2>1, <3>1, <3>2 DEF page
  <2> QED
    BY <1>9, <2>1, <2>2, <2>3, <2>4 DEF page
<1>11. PageBytes(fs) = page /\ IsList(page) /\ IsList(code)
  BY <1>1, <1>2, <1>3, <1>4
<1> HIDE DEF page, a, code
<1>12. page \in Seq(ToSet(page)) /\ code \in Seq(ToSet(code))
  BY <1>11 DEF IsList
<1>13. SubSeq(page, a + 1, a + n) = [i \in 1..n |-> page[a + i]]
  <2>1. SubSeq(page, a + 1, a + n) = [i \in 1..(1 + (a + n) - (a + 1)) |-> page[i + (a + 1) - 1]]
    BY <1>10, <1>12 DEF SubSeq
  <2>2. 1 + (a + n) - (a + 1) = n /\ \A i \in 1..n : i + (a + 1) - 1 = a + i
    BY <1>10
  <2> HIDE DEF n
  <2> QED
    BY <2>1, <2>2
<1>14. code = [i \in 1..n |-> code[i]]
  BY <1>12
<1>15. SubSeq(page, a + 1, a + n) = code
  <2> HIDE DEF n
  <2> QED
    BY <1>10, <1>13, <1>14
<1> QED
  BY <1>11, <1>15 DEF a, o, code

-----------------------------------------------------------------------------
JitOK ==
  /\ IsList(jit.pages) /\ IsList(jit.loads)
  /\ \A i \in DOMAIN jit.loads : IsUnit(jit.loads[i].of)

(* SimpleJit::add_module: what is published is the last of its name; the   *)
(* page, when there is one, is behind those there were.                    *)
LEMMA AddModuleKeeps ==
  ASSUME JitOK, PointersLive, NEW m, IsUnit(m), NEW outcome \in Outcomes, AddModule(m, outcome)
  PROVE  (JitOK /\ PointersLive)'
<1> DEFINE fs == Definitions(m)
           page == Len(jit.pages) + 1
           load == [of |-> m, outcome |-> outcome]
<1>1. /\ AllCode(fs) /\ Len(fs) \in Nat /\ DOMAIN fs = 1..Len(fs)
      /\ IsList(jit.pages) /\ IsList(jit.loads)
  BY DefinitionsFacts, ListFacts DEF AllCode, JitOK
<1>2. /\ jit'.pages = IF outcome = "ok" /\ fs # <<>> THEN Append(jit.pages, PageBytes(fs)) ELSE jit.pages
      /\ jit'.symbols = IF outcome = "no memory" THEN jit.symbols
                        ELSE Published(fs, IF outcome = "ok" THEN page ELSE 0)
      /\ jit'.loads = Append(jit.loads, load)
  BY DEF AddModule
<1> HIDE DEF fs, page, load
<1>3. /\ IsList(jit'.loads) /\ DOMAIN jit'.loads = 1..(Len(jit.loads) + 1)
      /\ Len(jit.loads) \in Nat /\ DOMAIN jit.loads = 1..Len(jit.loads)
      /\ \A i \in 1..Len(jit.loads) : jit'.loads[i] = jit.loads[i]
      /\ jit'.loads[Len(jit.loads) + 1] = load
  <2> DEFINE new == Append(jit.loads, load)
  <2>1. /\ IsList(new) /\ DOMAIN new = 1..(Len(jit.loads) + 1)
        /\ \A i \in 1..Len(jit.loads) : new[i] = jit.loads[i]
        /\ new[Len(jit.loads) + 1] = load
    BY <1>1, AppendList
  <2>2. Len(jit.loads) \in Nat /\ DOMAIN jit.loads = 1..Len(jit.loads)
    BY <1>1, ListFacts
  <2>3. jit'.loads = new
    BY <1>2
  <2> HIDE DEF new
  <2> QED
    BY <2>1, <2>2, <2>3
<1>4. load.of = m /\ load.outcome = outcome
  BY DEF load
<1>5. /\ IsList(jit'.pages) /\ DOMAIN jit.pages \subseteq DOMAIN jit'.pages
      /\ \A n \in DOMAIN jit.pages : jit'.pages[n] = jit.pages[n]
      /\ outcome = "ok" /\ fs # <<>> => page \in DOMAIN jit'.pages /\ jit'.pages[page] = PageBytes(fs)
  <2>1. Len(jit.pages) \in Nat /\ DOMAIN jit.pages = 1..Len(jit.pages)
    BY <1>1, ListFacts
  <2>2. CASE outcome = "ok" /\ fs # <<>>
    <3> DEFINE new == Append(jit.pages, PageBytes(fs))
    <3>1. /\ IsList(new) /\ DOMAIN new = 1..(Len(jit.pages) + 1)
          /\ \A n \in 1..Len(jit.pages) : new[n] = jit.pages[n]
          /\ new[Len(jit.pages) + 1] = PageBytes(fs)
      BY <1>1, AppendList
    <3>2. jit'.pages = new
      BY <1>2, <2>2
    <3> HIDE DEF new
    <3> QED
      BY <2>1, <3>1, <3>2 DEF page
  <2>3. CASE ~(outcome = "ok" /\ fs # <<>>)
    BY <1>1, <1>2, <2>3
  <2> QED
    BY <2>2, <2>3
<1>6. JitOK'
  <2>1. \A i \in DOMAIN jit'.loads : IsUnit(jit'.loads[i].of)
    BY <1>3, <1>4 DEF JitOK
  <2> QED
    BY <1>3, <1>5, <2>1 DEF JitOK
<1>7. ASSUME NEW i \in DOMAIN jit'.loads, jit'.loads[i].outcome = "ok",
             NEW k \in DOMAIN Definitions(jit'.loads[i].of),
             \A j \in DOMAIN jit'.loads :
               j > i => ~Publishes(jit'.loads[j], Definitions(jit'.loads[i].of)[k].name)
      PROVE  LET f == Definitions(jit'.loads[i].of)[k]
             IN  f.name \in DOMAIN jit'.symbols /\ LeadsTo(jit'.pages, jit'.symbols[f.name], f.instrs)
  <2> DEFINE f == Definitions(jit'.loads[i].of)[k]
  <2>1. CASE i \in 1..Len(jit.loads)
    <3>1. /\ i \in DOMAIN jit.loads /\ jit'.loads[i] = jit.loads[i]
          /\ f = Definitions(jit.loads[i].of)[k] /\ jit.loads[i].outcome = "ok"
          /\ k \in DOMAIN Definitions(jit.loads[i].of)
      BY <1>3, <1>7, <2>1
    <3>2. \A j \in DOMAIN jit.loads : j > i => ~Publishes(jit.loads[j], f.name)
      BY <1>3, <1>7, <2>1
    <3>3. f.name \in DOMAIN jit.symbols /\ LeadsTo(jit.pages, jit.symbols[f.name], f.instrs)
      <4> HIDE DEF f
      <4>1. LET gs == Definitions(jit.loads[i].of)
            IN  gs[k].name \in DOMAIN jit.symbols /\ LeadsTo(jit.pages, jit.symbols[gs[k].name], gs[k].instrs)
        BY <3>1, <3>2 DEF PointersLive
      <4> QED
        BY <3>1, <4>1
    <3>4. ~Publishes(load, f.name)
      <4>1. Len(jit.loads) + 1 \in DOMAIN jit'.loads /\ Len(jit.loads) + 1 > i
        BY <1>3, <2>1
      <4> QED
        BY <1>3, <1>7, <4>1
    <3>5. f.name \in DOMAIN jit'.symbols /\ jit'.symbols[f.name] = jit.symbols[f.name]
      <4> HIDE DEF f
      <4>1. outcome = "no memory" \/ f.name \notin Names(fs)
        BY <1>4, <3>4 DEF Publishes, fs
      <4> QED
        BY <1>2, <3>3, <4>1 DEF Published
    <3> HIDE DEF f
    <3>6. LeadsTo(jit'.pages, jit'.symbols[f.name], f.instrs)
      BY <1>5, <3>3, <3>5 DEF LeadsTo
    <3> QED
      BY <3>5, <3>6 DEF f
  <2>2. CASE i = Len(jit.loads) + 1
    <3>1. f = fs[k] /\ k \in DOMAIN fs /\ outcome = "ok" /\ fs # <<>>
      <4>1. jit'.loads[i] = load
        BY <1>3, <2>2
      <4>2. k \in DOMAIN fs /\ f = fs[k] /\ outcome = "ok"
        BY <1>4, <1>7, <4>1 DEF fs
      <4>3. fs # <<>>
        BY <1>1, <4>2
      <4> QED
        BY <4>2, <4>3
    <3> HIDE DEF f
    <3>2. {n \in DOMAIN fs : fs[n].name = f.name} = {k}
      BY <1>1, <3>1 DEF AllCode, Distinct
    <3>3. Max({n \in DOMAIN fs : fs[n].name = f.name}) = k
      <4>1. k \in Nat
        BY <1>1, <3>1
      <4>2. Max({k}) = k
        BY <4>1 DEF Max
      <4> QED
        BY <3>2, <4>2
    <3>4. f.name \in Names(fs)
      BY <3>1 DEF Names
    <3>5. /\ f.name \in DOMAIN jit'.symbols
          /\ jit'.symbols[f.name] = [page |-> page, at |-> Offsets(fs)[k]]
      BY <1>2, <3>1, <3>3, <3>4 DEF Published
    <3>6. SubSeq(PageBytes(fs), Offsets(fs)[k] + 1, Offsets(fs)[k] + Len(f.instrs)) = f.instrs
      BY <1>1, <3>1, CodeInPage
    <3>7. LeadsTo(jit'.pages, jit'.symbols[f.name], f.instrs)
      <4>1. jit'.symbols[f.name].page = page /\ jit'.symbols[f.name].at = Offsets(fs)[k]
        BY <3>5
      <4>2. page \in DOMAIN jit'.pages /\ jit'.pages[page] = PageBytes(fs)
        BY <1>5, <3>1
      <4> QED
        BY <3>6, <4>1, <4>2 DEF LeadsTo
    <3> QED
      BY <3>5, <3>7 DEF f
  <2> HIDE DEF f
  <2>3. i \in 1..Len(jit.loads) \/ i = Len(jit.loads) + 1
    BY <1>3
  <2> QED
    BY <2>1, <2>2, <2>3
<1>8. PointersLive'
  BY <1>7 DEF PointersLive
<1> QED
  BY <1>6, <1>8

(* PointersLive, for all modules, in any number and order, whether memory  *)
(* is had or not: the pointer that get_function_ptr gives leads to the code*)
(* of the last module that published the name, unless add_module failed to *)
(* make its page executable.  The argument: a function begins where the    *)
(* codes before it end, and a page once there stays as it is, while the    *)
(* table of names has at most what came later in the place of a name.      *)
THEOREM PointersLiveAlways ==
  JitSpec => []PointersLive
<1> DEFINE J == JitOK /\ PointersLive
           Step == \E m : IsUnit(m) /\ \E outcome \in Outcomes : AddModule(m, outcome)
<1>1. jit = NoJit => J
  <2> SUFFICES ASSUME jit = NoJit PROVE J
    OBVIOUS
  <2>1. jit.pages = <<>> /\ jit.loads = <<>> /\ DOMAIN jit.loads = {}
    BY DEF NoJit
  <2>2. IsList(<<>>)
    BY DEF IsList, ToSet
  <2> QED
    BY <2>1, <2>2 DEF JitOK, PointersLive
<1>2. J /\ [Step]_jit => J'
  <2> SUFFICES ASSUME J, [Step]_jit PROVE J'
    OBVIOUS
  <2>1. CASE Step
    BY <2>1, AddModuleKeeps
  <2>2. CASE UNCHANGED jit
    <3>1. JitOK'
      BY <2>2 DEF JitOK
    <3>2. PointersLive'
      BY <2>2 DEF PointersLive, LeadsTo
    <3> QED
      BY <3>1, <3>2
  <2> QED
    BY <2>1, <2>2
<1>3. J => PointersLive
  OBVIOUS
<1> QED
  BY <1>1, <1>2, <1>3, PTL DEF JitSpec

-----------------------------------------------------------------------------
LinkFields == DOMAIN NoLink

(* A function has come in: by its name, and by its code if it has any.     *)
In(fs, f) ==
  \E n \in DOMAIN fs : /\ fs[n].name = f.name
                       /\ ~f.declaration => ~fs[n].declaration /\ Len(fs[n].instrs) = Len(f.instrs)

MergeOK ==
  /\ IsList(decoded) /\ \A k \in DOMAIN decoded : IsUnit(decoded[k])
  /\ DOMAIN linked = LinkFields /\ linked = [x \in LinkFields |-> linked[x]]
  /\ IsUnit(linked)
  /\ linked.merged \in 0..Len(decoded) /\ linked.functionsIn \in Nat
  /\ linked.merged = Len(decoded) => linked.functionsIn = 0
AllIn ==
  linked.ok =>
    /\ \A k \in 1..linked.merged : \A j \in DOMAIN decoded[k].functions :
         In(linked.functions, decoded[k].functions[j])
    /\ linked.merged \in 1..(Len(decoded) - 1) =>
         \A j \in 1..linked.functionsIn : j \in DOMAIN Src.functions => In(linked.functions, Src.functions[j])
MergeInv == MergeOK /\ AllIn

(* Of distinct names, the one that is found is the one there is.           *)
LEMMA FindFacts ==
  ASSUME NEW fs, AllCode(fs), NEW name
  PROVE  /\ Find(fs, name) = 0 => \A k \in DOMAIN fs : fs[k].name # name
         /\ Find(fs, name) # 0 => Find(fs, name) \in DOMAIN fs /\ fs[Find(fs, name)].name = name
<1> DEFINE found == {k \in DOMAIN fs : fs[k].name = name}
<1>1. DOMAIN fs = 1..Len(fs) /\ Len(fs) \in Nat
  BY ListFacts DEF AllCode
<1>2. Find(fs, name) = IF found = {} THEN 0 ELSE Min(found)
  BY DEF Find
<1>3. ASSUME NEW k \in found PROVE Min(found) = k
  <2>1. found = {k}
    BY DEF AllCode, Distinct
  <2>2. k \in Nat
    BY <1>1
  <2> HIDE DEF found
  <2> QED
    BY <2>1, <2>2 DEF Min
<1>4. CASE found = {}
  BY <1>2, <1>4
<1>5. CASE found # {}
  <2>1. PICK k : k \in found
    BY <1>5
  <2>2. Find(fs, name) = k
    BY <1>2, <1>3, <1>5, <2>1
  <2> QED
    BY <1>1, <2>1, <2>2
<1> QED
  BY <1>4, <1>5

(* A function that moves has the name and as much code as before.          *)
LEMMA MovedFacts ==
  ASSUME NEW f, IsCode(f), NEW src, NEW dst
  PROVE  LET g == MovedFunction(src, dst, f)
         IN  /\ IsCode(g) /\ g.name = f.name /\ g.declaration = f.declaration
             /\ Len(g.instrs) = Len(f.instrs)
<1> DEFINE g == MovedFunction(src, dst, f)
           code == [k \in DOMAIN f.instrs |-> MovedInstr(src, dst, f.instrs[k])]
<1>1. Len(f.instrs) \in Nat /\ DOMAIN f.instrs = 1..Len(f.instrs)
  BY ListFacts DEF IsCode
<1>2. IsList(code) /\ Len(code) = Len(f.instrs)
  <2>1. code = [k \in 1..Len(f.instrs) |-> code[k]]
    BY <1>1
  <2> HIDE DEF code
  <2> QED
    BY <1>1, <2>1, FunctionIsList
<1>3. DOMAIN g = DOMAIN f /\ g = [x \in DOMAIN f |-> g[x]]
  BY DEF MovedFunction, IsCode
<1>4. g.name = f.name /\ g.declaration = f.declaration /\ g.instrs = code
  BY DEF MovedFunction, IsCode
<1> HIDE DEF g, code
<1>5. IsCode(g)
  BY <1>2, <1>3, <1>4 DEF IsCode
<1> QED
  BY <1>2, <1>4, <1>5 DEF g

(* What is in stays in, and the function that was entered comes in.        *)
LEMMA EnteredFacts ==
  ASSUME NEW d, DOMAIN d = LinkFields, d = [x \in LinkFields |-> d[x]], IsUnit(d),
         NEW src, NEW f, IsCode(f)
  PROVE  LET e == Entered(d, src, f)
         IN  /\ DOMAIN e = LinkFields /\ e = [x \in LinkFields |-> e[x]] /\ IsUnit(e)
             /\ e.merged = d.merged
             /\ \A g : In(d.functions, g) => In(e.functions, g)
             /\ e.ok => d.ok /\ In(e.functions, f)
<1> DEFINE e == Entered(d, src, f)
           fs == d.functions
           n == Find(fs, f.name)
           moved == MovedFunction(src, d, f)
<1>1. /\ IsCode(moved) /\ moved.name = f.name /\ moved.declaration = f.declaration
      /\ Len(moved.instrs) = Len(f.instrs)
  BY MovedFacts
<1>2. /\ IsList(fs) /\ AllCode(fs) /\ Len(fs) \in Nat /\ DOMAIN fs = 1..Len(fs)
      /\ n = 0 => \A k \in DOMAIN fs : fs[k].name # f.name
      /\ n # 0 => n \in DOMAIN fs /\ fs[n].name = f.name
  BY FindFacts, ListFacts DEF IsUnit, AllCode
<1>3. {"functions", "ok", "merged"} \subseteq LinkFields
  BY DEF LinkFields, NoLink
<1> HIDE DEF moved
<1>4. ASSUME NEW new, AllCode(new), e = [d EXCEPT !.functions = new],
             \A g : In(fs, g) => In(new, g), In(new, f)
      PROVE  /\ DOMAIN e = LinkFields /\ e = [x \in LinkFields |-> e[x]] /\ IsUnit(e)
             /\ e.merged = d.merged
             /\ \A g : In(d.functions, g) => In(e.functions, g)
             /\ e.ok => d.ok /\ In(e.functions, f)
  <2> HIDE DEF e, fs
  <2>1. /\ DOMAIN e = LinkFields /\ e = [x \in LinkFields |-> e[x]]
        /\ e.functions = new /\ e.merged = d.merged /\ e.ok = d.ok
    BY <1>3, <1>4
  <2> QED
    BY <1>4, <2>1 DEF IsUnit, fs
<1>5. CASE n = 0
  <2> DEFINE new == Append(fs, moved)
  <2>1. e = [d EXCEPT !.functions = new]
    BY <1>5 DEF Entered, WithFunction, moved
  <2>2. /\ IsList(new) /\ DOMAIN new = 1..(Len(fs) + 1)
        /\ \A k \in 1..Len(fs) : new[k] = fs[k]
        /\ new[Len(fs) + 1] = moved
    BY <1>2, AppendList
  <2> HIDE DEF new, e, n
  <2>3. AllCode(new)
    <3> DEFINE last == Len(fs) + 1
    <3>0. /\ last \in Nat /\ last \notin 1..Len(fs) /\ new[last] = moved
          /\ \A k \in DOMAIN new : k \in DOMAIN fs \/ k = last
          /\ \A k \in DOMAIN fs : new[k] = fs[k] /\ new[k].name # new[last].name
      <4>1. last \in Nat /\ last \notin 1..Len(fs) /\ DOMAIN new = DOMAIN fs \cup {last}
        BY <1>2, <2>2
      <4>2. \A k \in DOMAIN fs : new[k] = fs[k] /\ fs[k].name # moved.name
        BY <1>1, <1>2, <1>5, <2>2
      <4>3. new[last] = moved
        BY <2>2
      <4> HIDE DEF last, fs
      <4> QED
        BY <1>2, <4>1, <4>2, <4>3
    <3> HIDE DEF last, fs
    <3>1. Distinct(new)
      BY <1>2, <3>0 DEF AllCode, Distinct
    <3>2. \A k \in DOMAIN new : IsCode(new[k])
      BY <1>1, <1>2, <3>0 DEF AllCode
    <3> QED
      BY <2>2, <3>1, <3>2 DEF AllCode
  <2>4. \A g : In(fs, g) => In(new, g)
    <3>1. \A k \in DOMAIN fs : k \in DOMAIN new /\ new[k] = fs[k]
      <4> HIDE DEF fs
      <4> QED
        BY <1>2, <2>2
    <3> HIDE DEF fs
    <3> QED
      BY <3>1 DEF In
  <2>5. In(new, f)
    BY <1>1, <1>2, <2>2 DEF In
  <2> QED
    BY <1>4, <2>1, <2>3, <2>4, <2>5 DEF e
<1>6. CASE n # 0 /\ f.declaration
  <2>1. e = d
    BY <1>6 DEF Entered
  <2>2. In(fs, f)
    BY <1>2, <1>6 DEF In
  <2> QED
    BY <2>1, <2>2
<1>7. CASE n # 0 /\ ~f.declaration /\ fs[n].declaration
  <2> DEFINE new == [fs EXCEPT ![n] = moved]
  <2>1. e = [d EXCEPT !.functions = new]
    BY <1>7 DEF Entered, moved
  <2>2. /\ new = [k \in 1..Len(fs) |-> new[k]] /\ new[n] = moved
        /\ \A k \in 1..Len(fs) : k # n => new[k] = fs[k]
    BY <1>2, <1>7
  <2> HIDE DEF new, e, n
  <2>3. IsList(new) /\ DOMAIN new = 1..Len(fs)
    BY <1>2, <2>2, FunctionIsList
  <2>4. AllCode(new)
    <3>1. Distinct(new)
      <4>1. DOMAIN new = DOMAIN fs /\ \A k \in DOMAIN fs : new[k].name = fs[k].name
        BY <1>1, <1>2, <1>7, <2>2, <2>3
      <4> HIDE DEF fs
      <4> QED
        BY <1>2, <4>1 DEF AllCode, Distinct
    <3>2. \A k \in DOMAIN new : IsCode(new[k])
      BY <1>1, <1>2, <2>2, <2>3 DEF AllCode
    <3> QED
      BY <2>3, <3>1, <3>2 DEF AllCode
  <2>5. ASSUME NEW g, In(fs, g) PROVE In(new, g)
    <3>1. PICK k \in DOMAIN fs : /\ fs[k].name = g.name
                                 /\ ~g.declaration => ~fs[k].declaration /\ Len(fs[k].instrs) = Len(g.instrs)
      BY <2>5 DEF In
    <3>2. CASE k = n
      <4>1. g.declaration /\ new[n].name = g.name /\ n \in DOMAIN new
        BY <1>1, <1>2, <1>7, <2>2, <2>3, <3>1, <3>2
      <4> QED
        BY <4>1 DEF In
    <3>3. CASE k # n
      <4>1. new[k] = fs[k] /\ k \in DOMAIN new
        BY <1>2, <2>2, <2>3, <3>3
      <4> QED
        BY <3>1, <4>1 DEF In
    <3> QED
      BY <3>2, <3>3
  <2>6. In(new, f)
    BY <1>1, <1>2, <1>7, <2>2, <2>3 DEF In
  <2> QED
    BY <1>4, <2>1, <2>4, <2>5, <2>6 DEF e
<1>8. CASE n # 0 /\ ~f.declaration /\ ~fs[n].declaration
  <2>1. e = [d EXCEPT !.ok = FALSE]
    BY <1>8 DEF Entered
  <2> HIDE DEF e
  <2>2. /\ DOMAIN e = LinkFields /\ e = [x \in LinkFields |-> e[x]]
        /\ e.functions = fs /\ e.merged = d.merged /\ ~e.ok
    BY <1>3, <2>1
  <2> QED
    BY <2>2 DEF IsUnit, e, fs
<1>9. \/ n = 0
      \/ n # 0 /\ f.declaration
      \/ n # 0 /\ ~f.declaration /\ fs[n].declaration
      \/ n # 0 /\ ~f.declaration /\ ~fs[n].declaration
  <2>1. f.declaration \in BOOLEAN /\ (n # 0 => fs[n].declaration \in BOOLEAN)
    BY <1>2 DEF AllCode, IsCode
  <2> HIDE DEF n, fs
  <2> QED
    BY <2>1
<1> QED
  BY <1>5, <1>6, <1>7, <1>8, <1>9

(* How much is in.                                                         *)
LEMMA Counts ==
  ASSUME MergeOK
  PROVE  /\ Len(decoded) \in Nat /\ DOMAIN decoded = 1..Len(decoded)
         /\ linked.merged \in Nat /\ linked.merged <= Len(decoded) /\ linked.functionsIn \in Nat
<1>1. Len(decoded) \in Nat /\ DOMAIN decoded = 1..Len(decoded)
  BY ListFacts DEF MergeOK
<1>2. linked.merged \in 0..Len(decoded) /\ linked.functionsIn \in Nat
  BY DEF MergeOK
<1> DEFINE n == linked.merged
<1> HIDE DEF n
<1>3. n \in Nat /\ n <= Len(decoded)
  BY <1>1, <1>2 DEF n
<1> QED
  BY <1>1, <1>2, <1>3 DEF n

(* The module that is being merged.                                        *)
LEMMA MergingFacts ==
  ASSUME MergeInv, Merging
  PROVE  /\ linked.merged \in Nat /\ linked.merged + 1 \in DOMAIN decoded
         /\ linked.merged \in 1..(Len(decoded) - 1)
         /\ linked.merged # Len(decoded) /\ linked.merged + 1 \in 0..Len(decoded)
         /\ linked.functionsIn \in Nat /\ linked.ok
         /\ AllCode(Src.functions) /\ Len(Src.functions) \in Nat
         /\ DOMAIN Src.functions = 1..Len(Src.functions)
<1> DEFINE n == linked.merged
<1>1. /\ Len(decoded) \in Nat /\ DOMAIN decoded = 1..Len(decoded) /\ n \in Nat
      /\ n \in 1..(Len(decoded) - 1) /\ linked.functionsIn \in Nat /\ linked.ok
  BY Counts DEF MergeInv, Merging
<1> HIDE DEF n
<1>2. n + 1 \in DOMAIN decoded /\ n # Len(decoded) /\ n + 1 \in 0..Len(decoded)
  <2> DEFINE size == Len(decoded)
  <2>1. size \in Nat /\ DOMAIN decoded = 1..size /\ n \in Nat /\ n \in 1..(size - 1)
    BY <1>1
  <2> HIDE DEF size
  <2>2. n + 1 \in 1..size /\ n # size /\ n + 1 \in 0..size
    BY <2>1
  <2> QED
    BY <2>1, <2>2 DEF size
<1>3. AllCode(Src.functions)
  BY <1>2 DEF MergeInv, MergeOK, IsUnit, Src, n
<1>4. Len(Src.functions) \in Nat /\ DOMAIN Src.functions = 1..Len(Src.functions)
  BY <1>3, ListFacts DEF AllCode
<1> QED
  BY <1>1, <1>2, <1>3, <1>4 DEF n

(* A step that leaves the functions alone.                                 *)
LEMMA SameFunctions ==
  ASSUME MergeInv, decoded' = decoded,
         DOMAIN linked' = LinkFields, linked' = [x \in LinkFields |-> linked'[x]],
         \A x \in {"functions", "merged", "functionsIn", "ok"} : linked'[x] = linked[x]
  PROVE  MergeInv'
<1>1. /\ linked'.functions = linked.functions /\ linked'.merged = linked.merged
      /\ linked'.functionsIn = linked.functionsIn /\ linked'.ok = linked.ok
  OBVIOUS
<1>2. MergeOK'
  BY <1>1 DEF MergeInv, MergeOK, IsUnit
<1>3. AllIn'
  BY <1>1 DEF MergeInv, AllIn, Src
<1> QED
  BY <1>2, <1>3 DEF MergeInv

LEMMA MergeFirstKeeps ==
  ASSUME MergeInv, MergeFirst, decoded' = decoded
  PROVE  MergeInv'
<1>1. /\ IsList(decoded) /\ decoded # <<>> /\ Len(decoded) \in Nat
      /\ DOMAIN decoded = 1..Len(decoded) /\ decoded \in Seq(ToSet(decoded))
  BY ListFacts DEF MergeInv, MergeOK, MergeFirst, IsList
<1>2. 1 \in DOMAIN decoded /\ 1 \in 0..Len(decoded) /\ IsUnit(decoded[1])
  <2>1. Len(decoded) # 0
    BY <1>1
  <2> QED
    BY <1>1, <2>1 DEF MergeInv, MergeOK
<1>3. /\ DOMAIN linked' = LinkFields /\ linked' = [x \in LinkFields |-> linked'[x]]
      /\ linked'.functions = decoded[1].functions /\ linked'.merged = 1 /\ linked'.functionsIn = 0
  BY DEF MergeFirst, LinkFields, NoLink
<1>4. MergeOK'
  <2>1. IsUnit(linked')
    BY <1>2, <1>3 DEF IsUnit
  <2> QED
    BY <1>2, <1>3, <2>1 DEF MergeInv, MergeOK
<1>5. AllIn'
  <2>1. \A j \in DOMAIN decoded[1].functions : In(decoded[1].functions, decoded[1].functions[j])
    BY DEF In
  <2>2. \A k \in 1..linked'.merged : k = 1
    BY <1>3
  <2> QED
    <3>1. \A k \in 1..linked'.merged : \A j \in DOMAIN decoded[k].functions :
            In(linked'.functions, decoded[k].functions[j])
      BY <1>3, <2>1, <2>2
    <3>2. \A j \in 1..linked'.functionsIn : FALSE
      <4> DEFINE n == linked'.functionsIn
      <4>1. n = 0
        BY <1>3
      <4> HIDE DEF n
      <4>2. \A j \in 1..n : FALSE
        BY <4>1
      <4> QED
        BY <4>2 DEF n
    <3> QED
      BY <3>1, <3>2 DEF AllIn
<1> QED
  BY <1>4, <1>5 DEF MergeInv

LEMMA MergeFunctionKeeps ==
  ASSUME MergeInv, MergeFunction, decoded' = decoded
  PROVE  MergeInv'
<1> DEFINE n == linked.functionsIn + 1
           f == Src.functions[n]
           e == Entered(linked, Src, f)
<1>1. /\ linked.functionsIn < Len(Src.functions) /\ Merging
      /\ linked' = [e EXCEPT !.functionsIn = n]
  BY DEF MergeFunction
<1>2. /\ linked.functionsIn \in Nat /\ linked.ok /\ linked.merged # Len(decoded)
      /\ linked.merged \in 1..(Len(decoded) - 1)
      /\ AllCode(Src.functions) /\ Len(Src.functions) \in Nat
      /\ DOMAIN Src.functions = 1..Len(Src.functions)
  BY <1>1, MergingFacts
<1>3. n \in Nat /\ n \in DOMAIN Src.functions /\ \A j \in 1..n : j \in 1..linked.functionsIn \/ j = n
  <2> DEFINE l == linked.functionsIn
             size == Len(Src.functions)
  <2>1. l \in Nat /\ size \in Nat /\ l < size /\ n = l + 1
    BY <1>1, <1>2
  <2> HIDE DEF l, size, n
  <2>2. n \in Nat /\ n \in 1..size /\ \A j \in 1..n : j \in 1..l \/ j = n
    BY <2>1
  <2> QED
    BY <1>2, <2>2 DEF l, size
<1>5. IsCode(f)
  BY <1>2, <1>3 DEF AllCode
<1>6. /\ DOMAIN linked = LinkFields /\ linked = [x \in LinkFields |-> linked[x]] /\ IsUnit(linked)
      /\ "functionsIn" \in LinkFields
  BY DEF MergeInv, MergeOK, LinkFields, NoLink
<1> HIDE DEF f
<1>7. /\ DOMAIN e = LinkFields /\ e = [x \in LinkFields |-> e[x]] /\ IsUnit(e)
      /\ e.merged = linked.merged
      /\ \A g : In(linked.functions, g) => In(e.functions, g)
      /\ e.ok => linked.ok /\ In(e.functions, f)
  BY <1>5, <1>6, EnteredFacts
<1> HIDE DEF e, n
<1>8. /\ DOMAIN linked' = LinkFields /\ linked' = [x \in LinkFields |-> linked'[x]]
      /\ linked'.functions = e.functions /\ linked'.merged = linked.merged
      /\ linked'.ok = e.ok /\ linked'.functionsIn = n
  <2>1. "functions" \in LinkFields /\ "merged" \in LinkFields /\ "ok" \in LinkFields
    BY DEF LinkFields, NoLink
  <2> QED
    BY <1>1, <1>6, <1>7, <2>1
<1>9. MergeOK'
  <2>1. IsUnit(linked')
    BY <1>7, <1>8 DEF IsUnit
  <2> QED
    BY <1>2, <1>3, <1>8, <2>1 DEF MergeInv, MergeOK
<1>10. AllIn'
  <2> SUFFICES ASSUME linked'.ok PROVE AllIn'
    BY DEF AllIn
  <2>1. Src' = Src
    BY <1>8 DEF Src
  <2>2. In(e.functions, Src.functions[n])
    BY <1>7, <1>8 DEF f
  <2>3. \A k \in 1..linked.merged : \A j \in DOMAIN decoded[k].functions :
          In(e.functions, decoded[k].functions[j])
    BY <1>2, <1>7 DEF MergeInv, AllIn
  <2>4. \A j \in 1..linked.functionsIn : j \in DOMAIN Src.functions => In(e.functions, Src.functions[j])
    BY <1>2, <1>7 DEF MergeInv, AllIn
  <2>6. \A j \in 1..n : j \in DOMAIN Src.functions => In(e.functions, Src.functions[j])
    BY <1>3, <2>2, <2>4
  <2> QED
    BY <1>8, <2>1, <2>3, <2>6 DEF AllIn
<1> QED
  BY <1>9, <1>10 DEF MergeInv

LEMMA MergeEndKeeps ==
  ASSUME MergeInv, MergeEnd, decoded' = decoded
  PROVE  MergeInv'
<1>1. /\ Merging /\ linked.functionsIn = Len(Src.functions)
      /\ linked' = [linked EXCEPT !.merged = linked.merged + 1, !.globalsIn = 0, !.functionsIn = 0]
      /\ DOMAIN linked = LinkFields /\ linked = [x \in LinkFields |-> linked[x]] /\ IsUnit(linked)
  BY DEF MergeEnd, MergeInv, MergeOK
<1>2. /\ linked.merged \in Nat /\ linked.merged + 1 \in 0..Len(decoded)
      /\ linked.merged \in 1..(Len(decoded) - 1) /\ linked.ok
      /\ DOMAIN Src.functions = 1..Len(Src.functions)
  BY <1>1, MergingFacts
<1>6. /\ DOMAIN linked' = LinkFields /\ linked' = [x \in LinkFields |-> linked'[x]]
      /\ linked'.functions = linked.functions /\ linked'.merged = linked.merged + 1
      /\ linked'.ok = linked.ok /\ linked'.functionsIn = 0
  BY <1>1 DEF LinkFields, NoLink
<1>7. MergeOK'
  <2>1. IsUnit(linked')
    BY <1>1, <1>6 DEF IsUnit
  <2> QED
    <3>1. linked'.merged \in 0..Len(decoded') /\ linked'.functionsIn = 0
      BY <1>2, <1>6
    <3>2. IsList(decoded') /\ \A k \in DOMAIN decoded' : IsUnit(decoded'[k])
      BY DEF MergeInv, MergeOK
    <3> QED
      BY <1>6, <2>1, <3>1, <3>2 DEF MergeOK
<1>8. AllIn'
  <2>1. \A k \in 1..linked.merged : \A j \in DOMAIN decoded[k].functions :
          In(linked.functions, decoded[k].functions[j])
    BY <1>2 DEF MergeInv, AllIn
  <2>2. \A j \in DOMAIN Src.functions : In(linked.functions, Src.functions[j])
    BY <1>1, <1>2 DEF MergeInv, AllIn
  <2>3. \A k \in 1..(linked.merged + 1) : k \in 1..linked.merged \/ k = linked.merged + 1
    <3> DEFINE n == linked.merged
    <3>1. n \in Nat
      BY <1>2
    <3> HIDE DEF n
    <3>2. \A k \in 1..(n + 1) : k \in 1..n \/ k = n + 1
      BY <3>1
    <3> QED
      BY <3>2 DEF n
  <2>4. \A k \in 1..(linked.merged + 1) : \A j \in DOMAIN decoded[k].functions :
          In(linked.functions, decoded[k].functions[j])
    BY <2>1, <2>2, <2>3 DEF Src
  <2> QED
    <3>1. \A j \in 1..linked'.functionsIn : FALSE
      <4> DEFINE n == linked'.functionsIn
      <4>1. n = 0
        BY <1>6
      <4> HIDE DEF n
      <4>2. \A j \in 1..n : FALSE
        BY <4>1
      <4> QED
        BY <4>2 DEF n
    <3> QED
      BY <1>6, <2>4, <3>1 DEF AllIn
<1> QED
  BY <1>7, <1>8 DEF MergeInv

(* Another module has been read: it is behind those there are, and nothing *)
(* of it has been merged.                                                  *)
LEMMA DecodedKeeps ==
  ASSUME MergeInv, NEW m, IsUnit(m), Decoded(m)
  PROVE  MergeInv'
<1> DEFINE new == Append(decoded, m)
<1>1. decoded' = new /\ linked' = linked
  BY DEF Decoded
<1>2. Len(decoded) \in Nat /\ DOMAIN decoded = 1..Len(decoded)
  BY ListFacts DEF MergeInv, MergeOK
<1>3. /\ IsList(new) /\ DOMAIN new = 1..(Len(decoded) + 1) /\ Len(new) = Len(decoded) + 1
      /\ \A k \in 1..Len(decoded) : new[k] = decoded[k]
      /\ new[Len(decoded) + 1] = m
  BY AppendList DEF MergeInv, MergeOK
<1> HIDE DEF new
<1> DEFINE there == linked.merged
           size == Len(decoded)
<1>4. /\ there \in Nat /\ there <= size /\ size \in Nat /\ Len(new) = size + 1
      /\ linked.merged = there /\ Len(decoded) = size
  BY <1>3, Counts DEF MergeInv
<1>5. MergeOK'
  <2>1. \A k \in DOMAIN new : IsUnit(new[k])
    BY <1>2, <1>3 DEF MergeInv, MergeOK
  <2>2. linked.merged \in 0..Len(new) /\ linked.merged # Len(new)
    <3> HIDE DEF there, size
    <3> QED
      BY <1>4
  <2> QED
    BY <1>1, <1>3, <2>1, <2>2 DEF MergeInv, MergeOK
<1>6. AllIn'
  <2> SUFFICES ASSUME linked.ok PROVE AllIn'
    BY <1>1 DEF AllIn
  <2>1. \A k \in 1..linked.merged : new[k] = decoded[k]
    <3> HIDE DEF there, size
    <3>1. \A k \in 1..there : k \in 1..size
      BY <1>4
    <3> QED
      BY <1>3, <1>4, <3>1
  <2>2. \A k \in 1..linked.merged : \A j \in DOMAIN new[k].functions :
          In(linked.functions, new[k].functions[j])
    BY <2>1 DEF MergeInv, AllIn
  <2>3. linked.merged \in 1..(Len(new) - 1) =>
          \A j \in 1..linked.functionsIn :
            j \in DOMAIN new[linked.merged + 1].functions =>
              In(linked.functions, new[linked.merged + 1].functions[j])
    <3>1. CASE linked.merged = Len(decoded)
      <4>1. linked.functionsIn = 0
        BY <3>1 DEF MergeInv, MergeOK
      <4> DEFINE l == linked.functionsIn
      <4>2. l = 0
        BY <4>1
      <4> HIDE DEF l
      <4>3. \A j \in 1..l : FALSE
        BY <4>2
      <4> QED
        BY <4>3 DEF l
    <3>2. CASE linked.merged # Len(decoded)
      <4> SUFFICES ASSUME linked.merged \in 1..(Len(new) - 1)
                   PROVE  \A j \in 1..linked.functionsIn :
                            j \in DOMAIN new[linked.merged + 1].functions =>
                              In(linked.functions, new[linked.merged + 1].functions[j])
        OBVIOUS
      <4>1. linked.merged \in 1..(Len(decoded) - 1) /\ linked.merged + 1 \in 1..Len(decoded)
        <5> HIDE DEF there, size
        <5>1. there \in 1..size /\ there # size
          BY <1>4, <3>2
        <5>2. there \in 1..(size - 1) /\ there + 1 \in 1..size
          BY <1>4, <5>1
        <5> QED
          BY <1>4, <5>2
      <4>2. new[linked.merged + 1] = Src
        BY <1>3, <4>1 DEF Src
      <4> QED
        BY <4>1, <4>2 DEF MergeInv, AllIn
    <3> QED
      BY <3>1, <3>2
  <2> QED
    BY <1>1, <2>2, <2>3 DEF AllIn, Src
<1> QED
  BY <1>5, <1>6 DEF MergeInv

(* DefinitionsWin, for all modules, in whatever order they are read and    *)
(* merged: as long as merge_module_into has met no second definition of a  *)
(* name, each function that has been passed is there once, and with a body *)
(* if one of the modules has one.  The argument: what was in stays in,     *)
(* since only a declaration gives way and only to a definition; and names  *)
(* stay distinct, since a function comes in only where none has its name.  *)
THEOREM DefinitionsWinAlways ==
  MergeSpec => []DefinitionsWin
<1> DEFINE Step == MergeStep \/ \E m : IsUnit(m) /\ Decoded(m)
<1>1. MergeInit => MergeInv
  <2> SUFFICES ASSUME MergeInit PROVE MergeInv
    OBVIOUS
  <2>1. /\ decoded = <<>> /\ DOMAIN decoded = {} /\ Len(decoded) = 0
        /\ linked.functions = <<>> /\ linked.merged = 0 /\ linked.functionsIn = 0
    BY DEF MergeInit, NoLink
  <2>0. DOMAIN linked = LinkFields /\ linked = [x \in LinkFields |-> linked[x]]
    BY DEF MergeInit, NoLink, LinkFields
  <2>2. IsList(<<>>) /\ AllCode(<<>>)
    BY DEF IsList, ToSet, AllCode, Distinct
  <2>3. MergeOK
    BY <2>0, <2>1, <2>2 DEF MergeOK, IsUnit
  <2>4. AllIn
    <3> DEFINE n == linked.merged
    <3>1. n = 0
      BY <2>1
    <3> HIDE DEF n
    <3>2. (\A k \in 1..n : FALSE) /\ n \notin 1..(Len(decoded) - 1)
      BY <2>1, <3>1
    <3> QED
      BY <3>2 DEF AllIn, n
  <2> QED
    BY <2>3, <2>4 DEF MergeInv
<1>2. MergeInv /\ [Step]_mergeVars => MergeInv'
  <2> SUFFICES ASSUME MergeInv, [Step]_mergeVars PROVE MergeInv'
    OBVIOUS
  <2>1. CASE MergeFirst /\ UNCHANGED decoded
    BY <2>1, MergeFirstKeeps
  <2>2. CASE MergeGlobal /\ UNCHANGED decoded
    <3>1. DOMAIN linked = LinkFields /\ linked = [x \in LinkFields |-> linked[x]]
      BY DEF MergeInv, MergeOK
    <3>2. PICK globals, n : \/ linked' = [linked EXCEPT !.globalsIn = n]
                            \/ linked' = [[linked EXCEPT !.globals = globals] EXCEPT !.globalsIn = n]
      BY <2>2 DEF MergeGlobal, WithGlobal
    <3>3. /\ DOMAIN linked' = LinkFields /\ linked' = [x \in LinkFields |-> linked'[x]]
          /\ \A x \in {"functions", "merged", "functionsIn", "ok"} : linked'[x] = linked[x]
      BY <3>1, <3>2 DEF LinkFields, NoLink
    <3> QED
      BY <2>2, <3>3, SameFunctions
  <2>3. CASE MergeFunction /\ UNCHANGED decoded
    BY <2>3, MergeFunctionKeeps
  <2>4. CASE MergeEnd /\ UNCHANGED decoded
    BY <2>4, MergeEndKeeps
  <2>5. CASE \E m : IsUnit(m) /\ Decoded(m)
    BY <2>5, DecodedKeeps
  <2>6. CASE UNCHANGED mergeVars
    BY <2>6, SameFunctions DEF mergeVars, MergeInv, MergeOK
  <2> QED
    BY <2>1, <2>2, <2>3, <2>4, <2>5, <2>6 DEF MergeStep
<1>3. MergeInv => DefinitionsWin
  <2> SUFFICES ASSUME MergeInv, linked.ok,
                      NEW k \in 1..linked.merged, NEW j \in DOMAIN decoded[k].functions
               PROVE  LET f == decoded[k].functions[j]
                          same == {n \in DOMAIN linked.functions : linked.functions[n].name = f.name}
                      IN  \E n \in same : /\ same = {n}
                                          /\ ~f.declaration =>
                                               /\ ~linked.functions[n].declaration
                                               /\ Len(linked.functions[n].instrs) = Len(f.instrs)
    BY DEF DefinitionsWin
  <2> DEFINE f == decoded[k].functions[j]
  <2>1. In(linked.functions, f)
    BY DEF MergeInv, AllIn
  <2>2. Distinct(linked.functions)
    BY DEF MergeInv, MergeOK, IsUnit, AllCode
  <2> HIDE DEF f
  <2>3. PICK n \in DOMAIN linked.functions :
          /\ linked.functions[n].name = f.name
          /\ ~f.declaration => /\ ~linked.functions[n].declaration
                               /\ Len(linked.functions[n].instrs) = Len(f.instrs)
    BY <2>1 DEF In
  <2>4. {i \in DOMAIN linked.functions : linked.functions[i].name = f.name} = {n}
    BY <2>2, <2>3 DEF Distinct
  <2> QED
    BY <2>3, <2>4 DEF f
<1> QED
  BY <1>1, <1>2, <1>3, PTL DEF MergeSpec
=============================================================================
