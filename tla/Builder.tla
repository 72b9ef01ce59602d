------------------------------ MODULE Builder ------------------------------
(***************************************************************************)
(* The IR builder (llvm-ir: builder.rs, and what it calls of function.rs   *)
(* and basic_block.rs).  A caller has a module in mind, the script, and    *)
(* asks for its functions, blocks and instructions.  It fills the blocks   *)
(* one after the other, in any order in which the operands of what it asks *)
(* for have been built: it has nothing but the values returned so far.     *)
(***************************************************************************)
EXTENDS Syntax, TLC

VARIABLE builder

NoScript == [functions |-> <<>>]
(* The builder: the module, current_function and current_block (0 is       *)
(* None), next_name_id; and what its caller remembers: the ValueRefs that  *)
(* it was given for the instructions of the script, and the block of the   *)
(* script that it fills.                                                   *)
Builder0(script) ==
  [script |-> script, mod |-> [EmptyModule EXCEPT !.globals = script.globals, !.types = script.types],
   fn |-> 0, block |-> 0, fresh |-> 0, given |-> <<>>, used |-> FALSE]

Idle == [script |-> NoScript, mod |-> EmptyModule, fn |-> 0, block |-> 0, fresh |-> 0, given |-> <<>>, used |-> FALSE]
BuildInit == builder = Idle
Building == builder.script # NoScript /\ ~builder.used
StartBuilding(script) == builder = Idle /\ builder' = Builder0(script)

-----------------------------------------------------------------------------
(* What is asked for an instruction, and what is made of the request: the  *)
(* type of the result, and the words that the builder has no parameter for *)
(* are left out.                                                           *)
LikeFirst(f, i) == [i EXCEPT !.ty = TypeOf(f, i.vals[1])]
Plainly(i) == [i EXCEPT !.words = {}]

MakeInteger(f, i) == [LikeFirst(f, i) EXCEPT !.words = IF i.op = "add" THEN @ \cap {"nsw"} ELSE {}]
MakeBitwise(f, i) == Plainly(LikeFirst(f, i))
MakeFloating(f, i) == Plainly(LikeFirst(f, i))
MakeCompare(f, i) == [Plainly(i) EXCEPT !.ty = I1]
MakeMemory(f, i) ==
  [i EXCEPT !.words = @ \cap {"inbounds"},
            !.ty = CASE i.op \in {"alloca", "getelementptr"} -> Ptr
                     [] i.op = "load" -> i.types[1]
                     [] i.op = "store" -> Void]
MakeCast(f, i) == [i EXCEPT !.ty = i.types[1]]
MakeData(f, i) ==
  [i EXCEPT !.ty = CASE i.op \in {"freeze", "insertvalue", "insertelement"} -> TypeOf(f, i.vals[1])
                     [] i.op = "select" -> TypeOf(f, i.vals[2])
                     [] i.op = "phi" -> i.types[1]
                     [] OTHER -> i.ty]
MakeCall(f, i) == [i EXCEPT !.words = @ \cap {"sideeffect", "alignstack"}]
MakeAtomic(f, i) ==
  [i EXCEPT !.ty = CASE i.op = "fence" -> Void
                     [] i.op = "cmpxchg" -> Struct(<<i.ty[2][1], I1>>, FALSE)
                     [] i.op = "atomicrmw" -> i.ty]
MakeTerminator(f, i) == [i EXCEPT !.ty = Void]
MakePad(f, i) == [i EXCEPT !.ty = IF i.op \in {"catchpad", "cleanuppad", "catchswitch"} THEN Ptr ELSE Void]

Make(f, i) ==
  CASE i.op \in {"add", "sub", "mul", "udiv", "sdiv", "urem", "srem"} -> MakeInteger(f, i)
    [] i.op \in {"and", "or", "xor", "shl", "lshr", "ashr"} -> MakeBitwise(f, i)
    [] i.op \in {"fadd", "fsub", "fmul", "fdiv", "fneg"} -> MakeFloating(f, i)
    [] i.op \in {"icmp", "fcmp"} -> MakeCompare(f, i)
    [] i.op \in {"alloca", "load", "store", "getelementptr"} -> MakeMemory(f, i)
    [] i.op \in Casts -> MakeCast(f, i)
    [] i.op \in {"call", "asm"} -> MakeCall(f, i)
    [] i.op \in Atomic -> MakeAtomic(f, i)
    [] i.op \in Pads -> MakePad(f, i)
    [] i.op \in {"ret", "br", "condbr", "switch", "unreachable"} -> MakeTerminator(f, i)
    [] OTHER -> MakeData(f, i)

(* A name is asked for unless the instruction has no result, and alloc_instr *)
(* finds one where it is empty.                                            *)
HasName(i) ==
  /\ i.op \notin {"store", "fence"} \cup Terminators
  /\ i.op \in {"call", "asm"} => i.ty # Void
FreshName(n) == "v" \o ToString(n)

-----------------------------------------------------------------------------
Func == builder.mod.functions[builder.fn]
Wanted == builder.script.functions[builder.fn]

(* The next instruction of the block of the script that is being filled.   *)
Asked(k) ==
  LET done == Len(Func.blocks[k].body)
      want == Wanted.blocks[k]
  IN  IF done < Len(want.body) THEN want.body[done + 1] ELSE want.term
Known(v) == v[1] = "instr" => builder.given[v[2]] # 0
Given(v) == IF v[1] = "instr" THEN OfInstr(builder.given[v[2]]) ELSE v
(* Every operand of the block is built already, or is of the block.        *)
Fillable(k) ==
  LET want == Wanted.blocks[k]
      ids == want.body \o <<want.term>>
  IN  \A n \in DOMAIN ids : \A j \in DOMAIN Wanted.instrs[ids[n]].vals :
        LET v == Wanted.instrs[ids[n]].vals[j]
        IN  Known(v) \/ \E e \in 1..(n - 1) : v = OfInstr(ids[e])

Finished(k) == Func.blocks[k].term # 0
FunctionFinished == builder.fn # 0 => /\ Len(Func.blocks) = Len(Wanted.blocks)
                                      /\ \A k \in DOMAIN Func.blocks : Finished(k)
Declared == Len(builder.mod.functions)

AddFunction ==
  /\ Building /\ FunctionFinished /\ Declared < Len(builder.script.functions)
  /\ LET f == builder.script.functions[Declared + 1]
     IN  /\ ~f.declaration
         /\ builder' = [builder EXCEPT !.mod = WithFunction(@, Function(f.name, f.ty, f.args, FALSE, f.linkage, FALSE)),
                           !.fn = Declared + 1, !.block = 0, !.fresh = 0,
                           !.given = [k \in DOMAIN f.instrs |-> 0]]
(* The current function stays what it is: the caller has no more to ask    *)
(* for it.                                                                 *)
AddDeclaration ==
  /\ Building /\ FunctionFinished /\ Declared < Len(builder.script.functions)
  /\ LET f == builder.script.functions[Declared + 1]
         args == [k \in DOMAIN f.args |-> [name |-> "", ty |-> f.args[k].ty]]
     IN  /\ f.declaration
         /\ builder' = [builder EXCEPT !.mod = WithFunction(@, Function(f.name, f.ty, args, TRUE, "external", FALSE)),
                           !.fn = 0]

AddBlock ==
  /\ Building /\ builder.fn # 0 /\ Len(Func.blocks) < Len(Wanted.blocks)
  /\ builder' = [builder EXCEPT !.mod.functions[builder.fn].blocks = Append(@, Block(Wanted.blocks[Len(@) + 1].name))]

PositionAtEnd ==
  /\ Building /\ builder.fn # 0 /\ Len(Func.blocks) = Len(Wanted.blocks)
  /\ builder.block # 0 => Finished(builder.block)
  /\ \E k \in DOMAIN Func.blocks : ~Finished(k) /\ Fillable(k) /\ builder' = [builder EXCEPT !.block = k]

(* build_*, append_instr and alloc_instr: the instruction goes into the    *)
(* pool, and into the block or in the place of its terminator.             *)
Appended(f, k, i) ==
  [f EXCEPT !.instrs = Append(@, i),
            !.blocks[k] = IF i.op \in Terminators THEN [@ EXCEPT !.term = Len(f.instrs) + 1]
                          ELSE [@ EXCEPT !.body = Append(@, Len(f.instrs) + 1)]]
Build ==
  /\ Building /\ builder.fn # 0 /\ builder.block # 0 /\ ~Finished(builder.block)
  /\ LET id == Asked(builder.block)
         i == Wanted.instrs[id]
         made == Make(Func, [i EXCEPT !.vals = [j \in DOMAIN @ |-> Given(@[j])]])
         numbered == HasName(made) /\ made.name = ""
         named == [made EXCEPT !.name = IF numbered THEN FreshName(builder.fresh) ELSE @]
     IN  builder' = [builder EXCEPT !.mod.functions[builder.fn] = Appended(@, builder.block, named),
                        !.fresh = IF numbered THEN @ + 1 ELSE @,
                        !.given[id] = Len(Func.instrs) + 1]

Built == Building /\ FunctionFinished /\ Declared = Len(builder.script.functions)
BuildNext == AddFunction \/ AddDeclaration \/ AddBlock \/ PositionAtEnd \/ Build
=============================================================================
