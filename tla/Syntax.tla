------------------------------- MODULE Syntax -------------------------------
(***************************************************************************)
(* Modules of the IR as data (llvm-ir: module.rs, function.rs,             *)
(* instruction.rs, types.rs, value.rs), and the slots that the text        *)
(* printer and the text parser are described with.                         *)
(*                                                                         *)
(* An instruction is one record whatever its kind: op is its opcode, words *)
(* its boolean fields (flags, volatile, ...), choice its enumerations      *)
(* (predicate, orderings, ...), types, vals, blks, nums and strs its       *)
(* types, operands, blocks, numbers and strings, each in the order of the  *)
(* fields.  ty is the type of its result and md its metadata.              *)
(***************************************************************************)
EXTENDS Lists

CONSTANT WordBits   \* the width of the words that integer constants are kept in (64)

ASSUME WordAssumption == WordBits \in Nat \ {0}

Modulus == 2 ^ WordBits

(* TypeData.  A struct with a name is known by it: its body is in the      *)
(* module.                                                                 *)
Plain(t) == <<t>>
IntTy(n) == <<"int", n>>
Void == Plain("void")
Ptr == Plain("ptr")
I1 == IntTy(1)
I32 == IntTy(32)
I64 == IntTy(64)
FloatKinds == {"half", "bfloat", "float", "double", "fp128", "x86_fp80"}
PlainTypes == FloatKinds \cup {"void", "ptr", "label", "metadata"}
Array(n, t) == <<"array", n, t>>
Vector(n, t, scalable) == <<"vector", n, t, scalable>>
Struct(fields, packed) == <<"struct", fields, packed>>
Named(name) == <<"named", name>>
FnType(ret, params, variadic) == <<"fn", ret, params, variadic>>

(* ConstantData: kind, type, and the rest; of an integer wider than a word *)
(* ("wide") the words.                                                     *)
Const(kind, ty, data) == <<kind, ty, data>>
Scalars == {"undef", "poison", "null", "zeroinitializer"}
Aggregates == {"elements", "fields", "lanes"}   \* Array, Struct, Vector
ConstInt(ty, n) == Const("int", ty, n % Modulus)
GlobalRef(name) == Const("ref", Ptr, name)

(* ValueRef.                                                               *)
OfConst(c) == <<"const", c>>
OfInstr(i) == <<"instr", i>>
OfArg(k) == <<"arg", k>>
OfGlobal(k) == <<"global", k>>

Instr(op) ==
  [op |-> op, name |-> "", ty |-> Void, words |-> {}, choice |-> <<>>, types |-> <<>>,
   vals |-> <<>>, blks |-> <<>>, nums |-> <<>>, strs |-> <<>>, md |-> <<>>]

Terminators == {"ret", "br", "condbr", "invoke", "switch", "unreachable", "resume",
                "catchswitch", "catchret", "cleanupret"}

Casts == {"trunc", "zext", "sext", "fptrunc", "fpext", "fptoui", "fptosi", "uitofp",
          "sitofp", "ptrtoint", "inttoptr", "bitcast", "addrspacecast"}
ConstCasts == {"bitcast", "inttoptr", "ptrtoint", "addrspacecast", "trunc", "zext", "sext"}

Integer == {"add", "sub", "mul", "udiv", "sdiv", "urem", "srem", "and", "or", "xor",
            "shl", "lshr", "ashr"}
Floating == {"fadd", "fsub", "fmul", "fdiv", "frem", "fneg", "icmp", "fcmp"}
Arithmetic == Integer \cup Floating \cup Casts \cup {"freeze"}
Atomic == {"fence", "cmpxchg", "atomicrmw"}
Pads == {"catchpad", "cleanuppad", "catchswitch", "catchret", "cleanupret"}
Memory == {"alloca", "load", "store", "getelementptr"} \cup Atomic

IntFlags == {"nuw", "nsw"}
FastFlags == {"nnan", "ninf", "nsz", "arcp", "contract", "afn", "reassoc"}
IntPredicates == {"eq", "ne", "ugt", "uge", "ult", "ule", "sgt", "sge", "slt", "sle"}
FloatPredicates == {"false", "oeq", "ogt", "oge", "olt", "ole", "one", "ord", "uno",
                    "ueq", "ugt", "uge", "ult", "ule", "une", "true"}
TailKinds == {"tail", "musttail", "notail"}
Orderings == {"unordered", "monotonic", "acquire", "release", "acq_rel", "seq_cst"}
RmwOps == {"xchg", "add", "sub", "and", "nand", "or", "xor", "max", "min", "umax",
           "umin", "fadd", "fsub"}
Linkages == {"private", "internal", "weak", "weak_odr", "linkonce", "linkonce_odr",
             "common", "available_externally"}

(* InstrKind: the fields of a variant, as how many operands it has and     *)
(* which words it may carry.                                               *)
WordsOf(op) ==
  CASE op \in {"add", "sub", "mul", "shl"} -> IntFlags
    [] op \in {"udiv", "sdiv", "lshr", "ashr"} -> {"exact"}
    [] op \in {"fadd", "fsub", "fmul", "fdiv", "frem", "fneg", "fcmp"} -> FastFlags \cup {"fast"}
    [] op \in {"load", "store", "atomicrmw"} -> {"volatile"}
    [] op = "cmpxchg" -> {"weak", "volatile"}
    [] op = "getelementptr" -> {"inbounds"}
    [] op = "call" -> TailKinds
    [] op = "asm" -> {"sideeffect", "alignstack"}
    [] op = "landingpad" -> {"cleanup"}
    [] op = "cleanuppad" -> {"none"}
    [] op = "catchswitch" -> {"none", "caller"}
    [] op = "cleanupret" -> {"caller"}
    [] OTHER -> {}

ArithmeticFits(i) ==
  i.op \in Arithmetic /\ Len(i.vals) = IF i.op \in {"fneg", "freeze"} \cup Casts THEN 1 ELSE 2
MemoryFits(i) ==
  \/ i.op = "alloca" /\ Len(i.types) = 1 /\ Len(i.vals) \in 0..1 /\ Len(i.nums) \in 0..1
  \/ i.op = "load" /\ Len(i.vals) = 1 /\ Len(i.nums) \in 0..1 /\ i.types = <<i.ty>>
  \/ i.op = "store" /\ Len(i.vals) = 2 /\ Len(i.nums) \in 0..1
  \/ i.op = "getelementptr" /\ Len(i.vals) > 0 /\ Len(i.types) = 1
  \/ i.op = "fence" /\ Len(i.choice) = 1
  \/ i.op = "cmpxchg" /\ Len(i.vals) = 3 /\ Len(i.choice) = 2
  \/ i.op = "atomicrmw" /\ Len(i.vals) = 2 /\ Len(i.choice) = 2
DataFits(i) ==
  \/ i.op \in {"select", "insertelement"} /\ Len(i.vals) = 3
  \/ i.op = "phi" /\ Len(i.vals) = Len(i.blks) /\ i.types = <<i.ty>>
  \/ i.op = "extractvalue" /\ Len(i.vals) = 1
  \/ i.op \in {"insertvalue", "extractelement", "shufflevector"} /\ Len(i.vals) = 2
  \/ i.op = "call" /\ i.vals # <<>> /\ i.types[1][1] = "fn"
  \/ i.op = "asm" /\ Len(i.strs) = 2
  \/ i.op = "landingpad" /\ Len(i.types) = 1 + Len(i.vals) /\ Len(i.choice) = Len(i.vals)
  \/ i.op \in {"catchpad", "cleanuppad"}
TerminatorFits(i) ==
  \/ i.op = "ret" /\ Len(i.vals) \in 0..1
  \/ i.op = "br" /\ Len(i.blks) = 1
  \/ i.op = "condbr" /\ Len(i.vals) = 1 /\ Len(i.blks) = 2
  \/ i.op = "invoke" /\ i.vals # <<>> /\ i.types[1][1] = "fn" /\ Len(i.blks) = 2
  \/ i.op = "switch" /\ Len(i.vals) = Len(i.blks)
  \/ i.op = "unreachable"
  \/ i.op = "resume" /\ Len(i.vals) = 1
  \/ i.op = "catchswitch" /\ ("none" \in i.words <=> i.vals = <<>>)
  \/ i.op = "catchret" /\ Len(i.vals) = 1 /\ Len(i.blks) = 1
  \/ i.op = "cleanupret" /\ Len(i.vals) = 1 /\ ("caller" \in i.words <=> i.blks = <<>>)

Fits(i) ==
  /\ i.words \subseteq WordsOf(i.op)
  /\ ArithmeticFits(i) \/ MemoryFits(i) \/ DataFits(i) \/ TerminatorFits(i)

-----------------------------------------------------------------------------
(* Module and Function.  A block is [name, body, term]: term is 0 while it *)
(* has no terminator.                                                      *)
Block(name) == [name |-> name, body |-> <<>>, term |-> 0]
Function(name, ty, args, declaration, linkage, strictfp) ==
  [name |-> name, ty |-> ty, args |-> args, declaration |-> declaration,
   linkage |-> linkage, strictfp |-> strictfp, instrs |-> <<>>, blocks |-> <<>>]
EmptyModule == [file |-> <<>>, layout |-> <<>>, triple |-> <<>>, types |-> <<>>,
                globals |-> <<>>, functions |-> <<>>, named |-> <<>>, nodes |-> <<>>]

(* Module::add_function, add_global, set_named_metadata, set_metadata_node. *)
WithFunction(m, f) == [m EXCEPT !.functions = Append(@, f)]
WithGlobal(m, g) == [m EXCEPT !.globals = Append(@, g)]
SetNamedMetadata(m, name, value) ==
  LET n == SelectInSeq(m.named, LAMBDA d : d[1] = name)
  IN  IF n = 0 THEN [m EXCEPT !.named = Append(@, <<name, value>>)]
      ELSE [m EXCEPT !.named[n] = <<name, value>>]
SetMetadataNode(m, id, value) ==
  [m EXCEPT !.nodes = SelectSeq(@, LAMBDA d : d[1] < id) \o <<<<id, value>>>> \o SelectSeq(@, LAMBDA d : d[1] > id)]

(* Context::type_of_const, Function::type_of_value.                        *)
TypeOfConst(c) == c[2]
TypeOf(f, v) ==
  CASE v[1] = "const" -> TypeOfConst(v[2])
    [] v[1] = "instr" -> f.instrs[v[2]].ty
    [] v[1] = "arg" -> f.args[v[2]].ty

-----------------------------------------------------------------------------
(* The slots of the grammars: what is written or read at one place.        *)
K(w) == <<"word", w>>              \* a keyword or punctuation
Flags(words) == <<"flags", words>> \* those of the words that are set
One(words) == <<"one", words>>     \* one of the words
Ty == <<"type">>                   \* a type
Val == <<"value">>                 \* a value
TyVal == <<"typed value">>         \* a type and a value
Blk == <<"block">>                 \* the name of a block
Num == <<"number">>
Str == <<"string">>
=============================================================================
