---------------------------- MODULE LlvmBitcode -----------------------------
(***************************************************************************)
(* The reader of LLVM bitcode (llvm-bitcode: bitstream.rs, llvm_reader.rs).*)
(* One step reads one item of the file.  open is the stack of the blocks   *)
(* that are being parsed, each with the abbreviation width behind it, and  *)
(* abbrevs the abbreviations that are known.  How wide a number is written *)
(* is left out.                                                            *)
(***************************************************************************)
EXTENDS Lrir

(***************************************************************************)
(* External: the .bc files that the LLVM reader (llvm-bitcode,             *)
(* llvm_reader.rs) is made for, as it and its comments describe them.  A   *)
(* file is a sequence of items: a block is entered or ends, an             *)
(* abbreviation is defined, or a record is written, in full or by the      *)
(* number of an abbreviation.  layout says where the table of names is,    *)
(* and whether abbreviations are used: those of a block are defined before *)
(* or behind the constants in it, or for all blocks of its kind.           *)
(***************************************************************************)

Enter(block) == <<"enter", block>>
End == <<"end">>
Define(ops) == <<"define", ops>>
Unabbreviated == 3
Record(code, fields) == <<"record", Unabbreviated, <<>>, code, fields>>
(* The n-th abbreviation of a block has the number n + 3.                  *)
Abbreviated(n, ops, code, fields) == <<"record", n + 3, ops, code, fields>>

-----------------------------------------------------------------------------
(* Types, by their place in the table, each after what it consists of.     *)
RECURSIVE Enumerate(_, _, _)
Enumerate(bodies, types, t) ==
  IF Contains(types, t) THEN types
  ELSE Append(FoldLeft(LAMBDA ts, x : Enumerate(bodies, ts, x), types,
                       IF t[1] = "named" THEN bodies[t[2]][2] ELSE Components(t)), t)
LlvmContext(m) ==
  LET ctx == Context(m)
  IN  [ctx EXCEPT !.types = FoldLeft(LAMBDA ts, t : Enumerate(ctx.bodies, ts, t), <<>>, ctx.types)]
FloatTypeCodes == <<<<"half", "HALF">>, <<"bfloat", "BFLOAT">>, <<"float", "FLOAT">>, <<"double", "DOUBLE">>,
                    <<"fp128", "FP128">>, <<"x86_fp80", "X86_FP80">>>>
TypeItems(ctx, t) ==
  LET id(x) == Id(ctx.types, x)
      ids(ts) == [k \in DOMAIN ts |-> id(ts[k])]
      flag(b) == IF b THEN 1 ELSE 0
  IN  CASE t[1] = "int" -> <<Record("INTEGER", <<t[2]>>)>>
        [] t[1] \in FloatKinds -> <<Record(FloatTypeCodes[SelectInSeq(FloatTypeCodes, LAMBDA c : c[1] = t[1])][2], <<>>)>>
        [] t[1] = "void" -> <<Record("VOID", <<>>)>>
        [] t[1] = "label" -> <<Record("LABEL", <<>>)>>
        [] t[1] = "metadata" -> <<Record("METADATA", <<>>)>>
        [] t[1] = "ptr" -> <<Record("OPAQUE_POINTER", <<0>>)>>
        [] t[1] = "array" -> <<Record("ARRAY", <<t[2], id(t[3])>>)>>
        [] t[1] = "vector" -> <<Record("VECTOR", <<t[2], id(t[3])>>)>>
        [] t[1] = "struct" -> <<Record("STRUCT_ANON", <<flag(t[3])>> \o ids(t[2]))>>
        [] t[1] = "fn" -> <<Record("FUNCTION", <<flag(t[4]), id(t[2])>> \o ids(t[3]))>>
        [] t[1] = "named" -> <<Record("STRUCT_NAMED", <<t[2]>>),
                               Record("STRUCT_BODY", <<flag(ctx.bodies[t[2]][3])>> \o ids(ctx.bodies[t[2]][2]))>>

-----------------------------------------------------------------------------
(* Values: globals, functions; in a function its arguments, its constants  *)
(* and the results of its instructions.                                    *)
IsRef(v) == v[1] = "const" /\ v[2][1] = "ref"
LocalConsts(f) ==
  LET used == SelectSeq(Operands(f.instrs), LAMBDA v : v[1] = "const")
  IN  SelectSeq(FoldLeft(LAMBDA cs, v : Push(cs, v[2]), <<>>, used), LAMBDA c : c[1] # "ref")
Yields(i) == i.op \notin Terminators \cup {"store", "fence"} /\ i.ty # Void
ResultsBefore(f, n) == Cardinality({k \in 1..(n - 1) : Yields(f.instrs[k])})
Names(m) == [k \in DOMAIN m.globals |-> m.globals[k].name] \o [k \in DOMAIN m.functions |-> m.functions[k].name]
FirstConst(m, f) == Len(Names(m)) + Len(f.args)
(* The number of a value; that of the value which instruction n may have.  *)
Numbered(m, f, consts, v) ==
  CASE IsRef(v) -> Id(Names(m), v[2][3])
    [] v[1] = "arg" -> Len(Names(m)) + v[2] - 1
    [] v[1] = "const" /\ ~IsRef(v) -> FirstConst(m, f) + Id(consts, v[2])
    [] v[1] = "instr" -> FirstConst(m, f) + Len(consts) + ResultsBefore(f, v[2])
Next_(m, f, consts, n) == FirstConst(m, f) + Len(consts) + ResultsBefore(f, n)
(* References go back from there; one that goes forward is huge, those of  *)
(* a phi have a sign.                                                      *)
Back(m, f, consts, n, v) == Next_(m, f, consts, n) - Numbered(m, f, consts, v)
Huge == 1000000
Relative(back) == IF back > 0 THEN back ELSE Huge
Signed(back) == IF back >= 0 THEN 2 * back ELSE 1 - 2 * back

(* Constants, each after what it consists of.                              *)
ConstCastNumbers == ("zext" :> 1 @@ "sext" :> 2 @@ "trunc" :> 3 @@ "ptrtoint" :> 8 @@ "inttoptr" :> 9
                     @@ "bitcast" :> 11 @@ "addrspacecast" :> 12)
SignRotated(n) == IF n < Modulus \div 2 THEN 2 * n ELSE 2 * (Modulus - n - 1) + 1
ConstItem(ctx, m, first, consts, c) ==
  LET number(x) == IF x[1] = "ref" THEN Id(Names(m), x[3]) ELSE first + Id(consts, x)
      numbers(cs) == [k \in DOMAIN cs |-> number(cs[k])]
  IN  CASE c[1] = "int" -> Record("CST_INTEGER", <<SignRotated(c[3])>>)
        [] c[1] = "wide" -> Record("CST_WIDE_INTEGER", [k \in DOMAIN c[3] |-> SignRotated(c[3][k])])
        [] c[1] = "float" -> Record("CST_FLOAT", <<c[3]>>)
        [] c[1] \in {"null", "zeroinitializer"} -> Record("CST_NULL", <<>>)
        [] c[1] = "undef" -> Record("CST_UNDEF", <<>>)
        [] c[1] = "poison" -> Record("CST_POISON", <<>>)
        [] c[1] \in Aggregates -> Record("CST_AGGREGATE", numbers(c[3]))
        [] c[1] = "expr" /\ c[3].op = "getelementptr" ->
             Record(IF c[3].inbounds THEN "CST_INBOUNDS_GEP" ELSE "CST_GEP",
                    FlattenSeq([k \in DOMAIN c[3].operands |-> <<0, number(c[3].operands[k])>>]))
        [] c[1] = "expr" /\ c[3].op # "getelementptr" ->
             Record("CST_CAST", <<ConstCastNumbers[c[3].op], Id(ctx.types, c[2]), number(c[3].operands[1])>>)
ConstItems(ctx, m, first, consts) ==
  <<Enter("constants")>>
  \o FlattenSeq([k \in DOMAIN consts |-> <<Record("CST_SETTYPE", <<Id(ctx.types, consts[k][2])>>),
                                           ConstItem(ctx, m, first, consts, consts[k])>>])
  \o <<End>>

-----------------------------------------------------------------------------
BinopNumbers == ("add" :> 0 @@ "sub" :> 1 @@ "mul" :> 2 @@ "udiv" :> 4 @@ "sdiv" :> 5 @@ "urem" :> 6 @@ "srem" :> 7
  @@ "shl" :> 10 @@ "lshr" :> 11 @@ "ashr" :> 12 @@ "and" :> 13 @@ "or" :> 14 @@ "xor" :> 15
  @@ "fadd" :> 17 @@ "fsub" :> 18 @@ "fmul" :> 19 @@ "fdiv" :> 20 @@ "frem" :> 21)
CastNumbers == ("trunc" :> 0 @@ "zext" :> 1 @@ "sext" :> 2 @@ "fptrunc" :> 3 @@ "fpext" :> 4 @@ "uitofp" :> 5
  @@ "sitofp" :> 6 @@ "fptoui" :> 7 @@ "ptrtoint" :> 8 @@ "inttoptr" :> 9 @@ "fptosi" :> 10 @@ "bitcast" :> 11
  @@ "addrspacecast" :> 12)
FlagBits(words) == (IF {"nuw", "exact"} \cap words # {} THEN 1 ELSE 0) + (IF "nsw" \in words THEN 2 ELSE 0)
AlignCode(nums) == IF nums = <<>> THEN 0 ELSE 1 + CHOOSE k \in 0..30 : 2 ^ k = nums[1]
TailNumbers == <<"", "tail", "musttail", "notail">>

(* The record of instruction n of f.                                       *)
InstrItem(ctx, m, f, consts, n) ==
  LET i == f.instrs[n]
      rel(k) == Relative(Back(m, f, consts, n, i.vals[k]))
      signed(k) == Signed(Back(m, f, consts, n, i.vals[k]))
      rels(from) == [k \in 1..(Len(i.vals) - from + 1) |-> rel(from + k - 1)]
      ty(t) == Id(ctx.types, t)
      blk(k) == i.blks[k] - 1
      volatile == IF "volatile" \in i.words THEN 1 ELSE 0
  IN  CASE i.op \in DOMAIN BinopNumbers -> Record("BINOP", <<rel(1), rel(2), BinopNumbers[i.op], FlagBits(i.words)>>)
        [] i.op \in Casts -> Record("CAST", <<rel(1), ty(i.ty), CastNumbers[i.op]>>)
        [] i.op = "ret" -> Record("RET", rels(1))
        [] i.op = "br" -> Record("BR", <<blk(1)>>)
        [] i.op = "condbr" -> Record("BR", <<blk(1), blk(2), rel(1)>>)
        [] i.op = "unreachable" -> Record("UNREACHABLE", <<>>)
        [] i.op = "switch" -> Record("SWITCH", <<0, rel(1), blk(1)>>
                                             \o FlattenSeq([k \in 1..(Len(i.vals) - 1) |-> <<rel(k + 1), blk(k + 1)>>]))
        [] i.op = "phi" -> Record("PHI", <<ty(i.ty)>> \o FlattenSeq([k \in DOMAIN i.vals |-> <<signed(k), blk(k)>>]))
        [] i.op = "alloca" -> Record("ALLOCA", <<ty(i.types[1]), ty(I32), 0, AlignCode(i.nums)>>)
        [] i.op = "load" -> Record("LOAD", <<rel(1), ty(i.ty), AlignCode(i.nums), volatile>>)
        [] i.op = "store" -> Record("STORE", <<rel(2), rel(1), AlignCode(i.nums), volatile>>)
        [] i.op = "getelementptr" ->
             Record("GEP", <<IF "inbounds" \in i.words THEN 1 ELSE 0, ty(i.types[1]), rel(1)>>
                             \o FlattenSeq([k \in 1..(Len(i.vals) - 1) |-> <<0, rel(k + 1)>>]))
        [] i.op = "icmp" -> Record("CMP2", <<rel(1), rel(2), Id(IntPredCodes, i.choice[1])>>)
        [] i.op = "fcmp" -> Record("CMP2", <<rel(1), rel(2), 32 + Id(FloatPredCodes, i.choice[1])>>)
        [] i.op = "select" -> Record("VSELECT", rels(1))
        [] i.op = "call" -> Record("CALL", <<0, Id(TailNumbers, IF i.words = {} THEN "" ELSE CHOOSE w \in i.words : TRUE),
                                             ty(i.types[1])>> \o rels(1))
        [] i.op = "fneg" -> Record("UNOP", <<rel(1), 12>>)
        [] i.op = "freeze" -> Record("FREEZE", rels(1))
        [] i.op = "extractvalue" -> Record("EXTRACTVAL", rels(1) \o i.nums)
        [] i.op = "insertvalue" -> Record("INSERTVAL", rels(1) \o i.nums)
        [] i.op = "fence" -> Record("FENCE", <<>>)
        [] i.op = "resume" -> Record("RESUME", rels(1))

FunctionItems(ctx, m, f, layout) ==
  LET consts == LocalConsts(f)
      items == [n \in DOMAIN f.instrs |-> InstrItem(ctx, m, f, consts, n)]
      short(item) == IF layout.abbreviations # "none" /\ item[4] \in {"BINOP", "RET"}
                     THEN Abbreviated(IF item[4] = "BINOP" THEN 1 ELSE 2, item[4], item[4], item[5]) ELSE item
      defined == IF layout.abbreviations \in {"none", "for all"} THEN <<>> ELSE <<Define("BINOP"), Define("RET")>>
      constants == IF consts = <<>> THEN <<>> ELSE ConstItems(ctx, m, FirstConst(m, f), consts)
  IN  <<Enter("function"), Record("DECLAREBLOCKS", <<Len(f.blocks)>>)>>
      \o (IF layout.abbreviations = "before" THEN defined \o constants ELSE constants \o defined)
      \o [n \in DOMAIN items |-> short(items[n])]
      \o <<Enter("metadata attachment"), Record("MD", <<0>>), End, End>>

LinkageNumbers == ("external" :> 0 @@ "weak" :> 1 @@ "internal" :> 2 @@ "linkonce" :> 3 @@ "common" :> 5
  @@ "weak_odr" :> 7 @@ "linkonce_odr" :> 8 @@ "available_externally" :> 9 @@ "private" :> 10)
Symbols(m) ==
  <<Enter("vst")>> \o [k \in DOMAIN Names(m) |-> Record("VST_ENTRY", <<k - 1, Names(m)[k]>>)] \o <<End>>
(* The whole of a file.                                                    *)
LlvmFile(ctx, m, layout) ==
  <<Enter("identification"), Record("STRING", <<>>), End, Enter("blockinfo"), Define("BINOP"), End,
    Enter("module"), Record("VERSION", <<1>>), Enter("type"), Record("NUMENTRY", <<Len(ctx.types)>>)>>
  \o FlattenSeq([k \in DOMAIN ctx.types |-> TypeItems(ctx, ctx.types[k])])
  \o <<End, Record("TRIPLE", <<>>)>>
  \o [k \in DOMAIN m.globals |-> Record("GLOBALVAR", <<Id(ctx.types, m.globals[k].ty), IF m.globals[k].constant THEN 1 ELSE 0,
                                                       IF m.globals[k].init = <<>> THEN 0 ELSE Len(Names(m)) + 1,
                                                       LinkageNumbers[m.globals[k].linkage], 0, 0>>)]
  \o [k \in DOMAIN m.functions |-> Record("MODULE_FUNCTION", <<Id(ctx.types, m.functions[k].ty), 0,
                                     IF m.functions[k].declaration THEN 1 ELSE 0,
                                                            LinkageNumbers[m.functions[k].linkage]>>)]
  \o (IF layout.names = "first" THEN Symbols(m) ELSE <<>>)
  \o FlattenSeq([k \in DOMAIN m.functions |->
       IF m.functions[k].declaration THEN <<>> ELSE FunctionItems(ctx, m, m.functions[k], layout)])
  \o (IF layout.names = "last" THEN Symbols(m) ELSE <<>>)
  \o <<End, Enter("strtab"), Record("BLOB", <<>>), End>>

-----------------------------------------------------------------------------
(* The reader.                                                             *)

VARIABLES
  stream,   \* the items of the file, whether it stops in the middle of one, and what it was written from
  bc        \* struct LlvmReader, and the locals of the parsers that are open

bcVars == <<stream, bc>>

NoFunction == Function("", Void, <<>>, TRUE, "external", FALSE)
Bc0 == [at |-> 1, err |-> "", done |-> FALSE, open |-> <<>>, abbrevs |-> <<>>,
        types |-> <<>>, pending |-> <<>>, slots |-> <<>>, bodies |-> <<>>,
        values |-> <<>>, current |-> I32, globals |-> <<>>, decls |-> <<>>, next |-> 0,
        functions |-> <<>>, fn |-> NoFunction, block |-> 0, base |-> 0]
NoStream == [of |-> EmptyModule, layout |-> [names |-> "first", abbreviations |-> "none"], cut |-> 0,
             items |-> <<>>, torn |-> FALSE]
BitcodeInit == stream = NoStream /\ bc = Bc0

Broken(q, why) == [q EXCEPT !.err = why]
(* fields.get(k).copied().unwrap_or(d)                                     *)
Get(fs, k, d) == IF k \in DOMAIN fs THEN fs[k] ELSE d
Rest(fs, k) == SubSeq(fs, k, Len(fs))
(* get_type and decode_relative_vref, and whether they find something.     *)
TypeAt(q, n) == q.types[n + 1]
HasTypes(q, ns) == \A k \in DOMAIN ns : ns[k] + 1 \in DOMAIN q.types
ValueAt(q, back) == q.values[Len(q.values) + 1 - back]
HasValues(q, backs) == \A k \in DOMAIN backs : backs[k] \in 1..Len(q.values)
(* A global by its number: its name is not known here.                     *)
Unnamed(n) == OfConst(Const("ref", Ptr, <<n>>))

-----------------------------------------------------------------------------
(* parse_type_block.  A struct that has been named gets the next body; the *)
(* name already takes a place in the table.                                *)
PlainCodes == [c \in {"VOID", "FLOAT", "DOUBLE", "HALF", "BFLOAT", "X86_FP80", "FP128", "LABEL", "METADATA"} |->
  CASE c = "VOID" -> "void" [] c = "FLOAT" -> "float" [] c = "DOUBLE" -> "double" [] c = "HALF" -> "half"
    [] c = "BFLOAT" -> "bfloat" [] c = "X86_FP80" -> "x86_fp80" [] c = "FP128" -> "fp128"
    [] c = "LABEL" -> "label" [] c = "METADATA" -> "metadata"]
TypeRefs(code, fs) ==
  CASE code \in {"ARRAY", "VECTOR", "STRUCT_ANON", "STRUCT_BODY", "FUNCTION", "FUNCTION_OLD"} -> Tail(fs)
    [] OTHER -> <<>>
TypesAt(q, ns) == [k \in DOMAIN ns |-> TypeAt(q, ns[k])]
NewType(q, code, fs) ==
  CASE code \in DOMAIN PlainCodes -> Plain(PlainCodes[code])
    [] code \in {"TOKEN", "TARGET_TYPE", "POINTER", "OPAQUE_POINTER"} -> Ptr
    [] code = "INTEGER" -> IntTy(Get(fs, 1, 32))
    [] code = "ARRAY" -> Array(fs[1], TypeAt(q, fs[2]))
    [] code = "VECTOR" -> Vector(fs[1], TypeAt(q, fs[2]), FALSE)
    [] code \in {"FUNCTION", "FUNCTION_OLD"} -> FnType(TypeAt(q, fs[2]), TypesAt(q, Rest(fs, 3)), fs[1] # 0)
    [] code = "STRUCT_ANON" -> Struct(TypesAt(q, Tail(fs)), fs[1] # 0)
    [] code = "STRUCT_NAMED" -> Named(fs[1])
    [] code = "OPAQUE" -> IF q.pending = <<>> THEN Struct(<<>>, FALSE) ELSE Named(q.pending[1])
(* Wrong: labels are not known.                                            *)
IsTypeCode_Missing(code) ==
  code \in (DOMAIN PlainCodes \ {"LABEL"}) \cup {"TOKEN", "TARGET_TYPE", "POINTER", "OPAQUE_POINTER", "INTEGER", "ARRAY",
            "VECTOR", "FUNCTION", "FUNCTION_OLD", "STRUCT_ANON", "STRUCT_NAMED", "OPAQUE"}
IsTypeCode(code) ==
  code \in DOMAIN PlainCodes \cup {"TOKEN", "TARGET_TYPE", "POINTER", "OPAQUE_POINTER", "INTEGER", "ARRAY", "VECTOR",
                                   "FUNCTION", "FUNCTION_OLD", "STRUCT_ANON", "STRUCT_NAMED", "OPAQUE"}
StructBody(q, fs) ==
  LET t == IF q.pending # <<>> THEN <<Last(q.types)>>
           ELSE IF q.slots # <<>> THEN <<q.types[Last(q.slots)]>> ELSE <<>>
      body == Struct(TypesAt(q, Tail(fs)), fs[1] # 0)
  IN  IF t = <<>> THEN q
      ELSE [q EXCEPT !.pending = <<>>,
                     !.bodies = [n \in DOMAIN @ \cup {t[1][2]} |-> IF n = t[1][2] THEN body ELSE @[n]]]
TypeEntry(q, code, fs) ==
  CASE ~HasTypes(q, TypeRefs(code, fs)) -> Broken(q, "type")
    [] HasTypes(q, TypeRefs(code, fs)) /\ code = "STRUCT_BODY" -> StructBody(q, fs)
    [] HasTypes(q, TypeRefs(code, fs)) /\ IsTypeCode(code) ->
         [q EXCEPT !.types = Append(@, NewType(q, code, fs)),
                   !.pending = CASE code = "STRUCT_NAMED" -> <<fs[1]>> [] code = "OPAQUE" -> <<>> [] OTHER -> @,
                   !.slots = IF code = "OPAQUE" /\ q.pending # <<>> THEN Append(@, Len(q.types) + 1) ELSE @]
    [] OTHER -> q

-----------------------------------------------------------------------------
(* parse_constants_block.  The value of an aggregate's element, of the     *)
(* operand of a cast or of an address goes by its number.                  *)
Unrotated(n) == IF n % 2 = 1 THEN Modulus - 1 - (n \div 2) ELSE n \div 2
CastOf(n) ==
  CASE n = 1 -> "zext" [] n = 2 -> "sext" [] n = 3 -> "trunc" [] n = 8 -> "ptrtoint"
    [] n = 9 -> "inttoptr" [] n = 12 -> "addrspacecast" [] OTHER -> "bitcast"
Known(q, n) == n + 1 \in DOMAIN q.values /\ q.values[n + 1][1] = "const"
Numbers(q, ns) == [k \in DOMAIN ns |-> q.values[ns[k] + 1][2]]
KindOf(t) == CASE t[1] \in {"struct", "named"} -> "fields" [] t[1] = "vector" -> "lanes" [] OTHER -> "elements"
Expr(ty, op, inbounds, base, operands) ==
  Const("expr", ty, [op |-> op, inbounds |-> inbounds, base |-> base, operands |-> operands])
(* An address: an odd number of fields begins with a type and a flag; what *)
(* is left are pairs of a type and a value.                                *)
AddressFields(fs) == IF Len(fs) % 2 = 1 THEN Rest(fs, 3) ELSE fs
AddressValues(fs) == [k \in 1..(Len(AddressFields(fs)) \div 2) |-> AddressFields(fs)[2 * k]]
Address(q, code, fs) ==
  LET constants == SelectSeq(AddressValues(fs), LAMBDA n : Known(q, n))
      base == IF Len(fs) % 2 = 1 THEN TypeAt(q, fs[1]) ELSE q.current
  IN  Expr(q.current, "getelementptr", code # "CST_GEP", base, Numbers(q, constants))
Addresses == {"CST_GEP", "CST_INBOUNDS_GEP", "CST_GEP_WITH_INRANGE"}
ConstRefs(code, fs) ==
  CASE code = "CST_AGGREGATE" -> fs
    [] code = "CST_CAST" -> <<fs[3]>>
    [] OTHER -> <<>>
ConstTypeRefs(code, fs) ==
  CASE code = "CST_SETTYPE" -> <<Get(fs, 1, 0)>>
    [] code = "CST_CAST" -> <<fs[2]>>
    [] code \in Addresses -> IF Len(fs) % 2 = 1 THEN <<fs[1]>> ELSE <<>>
    [] OTHER -> <<>>
(* Wide integers of one word are plain ones.                               *)
NewConst(q, code, fs) ==
  LET ty == q.current
      words == [k \in DOMAIN fs |-> Unrotated(fs[k])]
  IN  CASE code = "CST_NULL" -> Const("null", ty, <<>>)
        [] code = "CST_POISON" -> Const("poison", ty, <<>>)
        [] code = "CST_INTEGER" -> ConstInt(ty, Unrotated(Get(fs, 1, 0)))
        [] code = "CST_WIDE_INTEGER" -> IF Len(fs) = 1 THEN ConstInt(ty, words[1]) ELSE Const("wide", ty, words)
        [] code = "CST_FLOAT" -> Const("float", ty, Get(fs, 1, 0))
        [] code = "CST_AGGREGATE" -> Const(KindOf(ty), ty, Numbers(q, fs))
        [] code \in {"CST_STRING", "CST_CSTRING"} -> Const("elements", Array(Len(fs), IntTy(8)), [k \in DOMAIN fs |-> ConstInt(IntTy(8), fs[k])])
        [] code = "CST_CAST" -> Expr(TypeAt(q, fs[2]), CastOf(fs[1]), FALSE, TypeAt(q, fs[2]), Numbers(q, <<fs[3]>>))
        [] code \in Addresses -> Address(q, code, fs)
        [] code = "CST_BLOCKADDRESS" -> Const("null", Ptr, <<>>)
        [] code = "CST_DATA" -> Const("zeroinitializer", ty, <<>>)
        [] OTHER -> Const("undef", ty, <<>>)
ConstEntry(q, code, fs) ==
  CASE ~HasTypes(q, ConstTypeRefs(code, fs)) -> Broken(q, "type")
    [] \E k \in DOMAIN ConstRefs(code, fs) : ~Known(q, ConstRefs(code, fs)[k]) -> Broken(q, "value")
    [] code \in Addresses /\ (\E k \in DOMAIN AddressValues(fs) : AddressValues(fs)[k] + 1 \notin DOMAIN q.values) ->
         Broken(q, "value")
    [] code = "CST_SETTYPE" -> [q EXCEPT !.current = TypeAt(q, Get(fs, 1, 0))]
    [] OTHER -> [q EXCEPT !.values = Append(@, OfConst(NewConst(q, code, fs)))]

-----------------------------------------------------------------------------
(* parse_globalvar_record, parse_function_decl_record, parse_vst_block.    *)
LinkageOf(n) ==
  CASE n = 1 -> "weak" [] n = 2 -> "internal" [] n = 3 -> "linkonce" [] n = 5 -> "common" [] n = 7 -> "weak_odr"
    [] n = 8 -> "linkonce_odr" [] n = 9 -> "available_externally" [] n = 10 -> "private" [] OTHER -> "external"
GlobalEntry(q, fs) ==
  LET init == IF fs[3] = 0 THEN <<>> ELSE SelectSeq(<<fs[3] - 1>>, LAMBDA n : Known(q, n))
      g == [name |-> "", ty |-> TypeAt(q, fs[1]), constant |-> fs[2] % 2 = 1, linkage |-> LinkageOf(fs[4]),
            init |-> Numbers(q, init)]
  IN  CASE Len(fs) < 6 -> q
        [] Len(fs) >= 6 /\ ~HasTypes(q, <<fs[1]>>) -> Broken(q, "type")
        [] Len(fs) >= 6 /\ HasTypes(q, <<fs[1]>>) /\ fs[3] # 0 /\ fs[3] \notin DOMAIN q.values -> Broken(q, "value")
        [] OTHER -> [q EXCEPT !.globals = Append(@, g), !.values = Append(@, Unnamed(Len(q.globals)))]
FunctionEntry(q, fs) ==
  IF Len(fs) < 3 THEN q
  ELSE IF ~HasTypes(q, <<fs[1]>>) THEN Broken(q, "type")
  ELSE [q EXCEPT !.decls = Append(@, [name |-> "", ty |-> TypeAt(q, fs[1]), declaration |-> fs[3] # 0,
                                      linkage |-> LinkageOf(Get(fs, 4, 0))]),
                 !.values = Append(@, Unnamed(Len(q.decls)))]
NameEntry(q, fs) ==
  LET n == fs[1] + 1
      g == Len(q.globals)
  IN  CASE n <= g -> [q EXCEPT !.globals[n].name = fs[2]]
        [] n > g /\ n - g \in DOMAIN q.decls -> [q EXCEPT !.decls[n - g].name = fs[2]]
        [] OTHER -> q
ModuleEntry(q, code, fs) ==
  CASE code = "GLOBALVAR" -> GlobalEntry(q, fs)
    [] code = "MODULE_FUNCTION" -> FunctionEntry(q, fs)
    [] OTHER -> q

-----------------------------------------------------------------------------
(* parse_function_block: the bodies go to the functions in the order in    *)
(* which these were declared.                                              *)
Decl(q) == IF q.next + 1 \in DOMAIN q.decls THEN q.decls[q.next + 1]
           ELSE [name |-> "f" \o ToString(q.next), ty |-> Void, declaration |-> FALSE, linkage |-> "external"]
Params(ty) == IF ty[1] = "fn" THEN ty[3] ELSE <<>>
ArgsOf(ty) == [k \in DOMAIN Params(ty) |-> [name |-> "arg" \o ToString(k - 1), ty |-> Params(ty)[k]]]
BeginFunction(q) ==
  LET d == Decl(q)
  IN  [q EXCEPT !.next = @ + 1, !.block = 1, !.base = Len(q.values),
                !.fn = Function(d.name, d.ty, ArgsOf(d.ty), d.declaration, d.linkage, FALSE),
                !.values = @ \o [k \in DOMAIN Params(d.ty) |-> OfArg(k)]]
FinishFunction(q) ==
  [q EXCEPT !.functions = Append(@, q.fn), !.fn = NoFunction, !.values = SubSeq(@, 1, q.base)]
FinishModule(q) ==
  LET left == [k \in 1..(IF Len(q.decls) > q.next THEN Len(q.decls) - q.next ELSE 0) |-> q.decls[q.next + k]]
  IN  [q EXCEPT !.functions = @ \o [k \in DOMAIN left |->
         Function(left[k].name, left[k].ty, ArgsOf(left[k].ty), TRUE, left[k].linkage, FALSE)]]

(* emit_instr, and what comes after it: a result is a value, a terminator  *)
(* ends the block.                                                         *)
Emit(q, i, yields) ==
  LET id == Len(q.fn.instrs) + 1
      here == q.block \in DOMAIN q.fn.blocks
      one == [q EXCEPT !.fn.instrs = Append(@, i), !.values = IF yields THEN Append(@, OfInstr(id)) ELSE @]
  IN  CASE i.op \in Terminators ->
             [one EXCEPT !.block = @ + 1,
                         !.fn.blocks = IF here THEN [@ EXCEPT ![q.block].term = id] ELSE @]
        [] i.op \notin Terminators /\ here -> [one EXCEPT !.fn.blocks[q.block].body = Append(@, id)]
        [] OTHER -> one

(* binop_kind, cast_kind, cmp_kind: by number, from 0.                     *)
BinopKinds == <<"add", "sub", "mul", "add", "udiv", "sdiv", "urem", "srem", "add", "add", "shl", "lshr", "ashr",
                "and", "or", "xor", "add", "fadd", "fsub", "fmul", "fdiv", "frem">>
CastKinds == <<"trunc", "zext", "sext", "fptrunc", "fpext", "uitofp", "sitofp", "fptoui", "ptrtoint", "inttoptr",
               "fptosi", "bitcast", "addrspacecast">>
BinopWords(op, bits) ==
  (IF bits % 2 = 1 THEN {"nuw", "exact"} ELSE {}) \cup (IF (bits \div 2) % 2 = 1 THEN {"nsw"} ELSE {})
BinopInstr(q, fs) ==
  LET op == Get(BinopKinds, Get(fs, 3, 0) + 1, "add")
      lhs == ValueAt(q, fs[1])
  IN  [Instr(op) EXCEPT !.ty = TypeOf(q.fn, lhs), !.vals = <<lhs, ValueAt(q, fs[2])>>,
                        !.words = BinopWords(op, Get(fs, 4, 0)) \cap (WordsOf(op) \cap (IntFlags \cup {"exact"}))]
CastInstr(q, fs) ==
  [Instr(Get(CastKinds, Get(fs, 3, 0) + 1, "bitcast")) EXCEPT
     !.ty = TypeAt(q, fs[2]), !.types = <<TypeAt(q, fs[2])>>, !.vals = <<ValueAt(q, fs[1])>>]
CmpInstr(q, fs) ==
  LET pred == Get(fs, 3, 0)
      kind == IF pred >= 32 THEN Get(FloatPredCodes, pred - 31, "false") ELSE Get(IntPredCodes, pred + 1, "eq")
  IN  [Instr(IF pred >= 32 THEN "fcmp" ELSE "icmp") EXCEPT
         !.ty = I1, !.choice = <<kind>>, !.vals = <<ValueAt(q, fs[1]), ValueAt(q, fs[2])>>]
Values(q, backs) == [k \in DOMAIN backs |-> ValueAt(q, backs[k])]
Branch(q, fs) ==
  IF Len(fs) >= 3 THEN [Instr("condbr") EXCEPT !.vals = <<ValueAt(q, fs[3])>>, !.blks = <<fs[1] + 1, fs[2] + 1>>]
  ELSE [Instr("br") EXCEPT !.blks = <<Get(fs, 1, 0) + 1>>]
(* The values of a phi are found or they are undef.                        *)
Incoming(q, ty, back) ==
  CASE back \in 1..Len(q.values) -> ValueAt(q, back)
    [] back > Len(q.values) /\ q.values # <<>> -> q.values[1]
    [] OTHER -> OfConst(Const("undef", ty, <<>>))
PhiInstr(q, fs) ==
  LET ty == TypeAt(q, fs[1])
      n == (Len(fs) - 1) \div 2
  IN  [Instr("phi") EXCEPT !.ty = ty, !.types = <<ty>>, !.vals = [k \in 1..n |-> Incoming(q, ty, fs[2 * k])],
                           !.blks = [k \in 1..n |-> fs[2 * k + 1] + 1]]
Aligned(code) == IF code > 0 THEN <<2 ^ (code - 1)>> ELSE <<>>
Volatile(fs) == IF Get(fs, 4, 0) # 0 THEN {"volatile"} ELSE {}
AllocaInstr(q, fs) ==
  [Instr("alloca") EXCEPT !.ty = Ptr, !.types = <<TypeAt(q, fs[1])>>, !.nums = Aligned(Get(fs, 4, 0) % 128)]
LoadInstr(q, fs) ==
  [Instr("load") EXCEPT !.ty = TypeAt(q, fs[2]), !.types = <<TypeAt(q, fs[2])>>, !.vals = <<ValueAt(q, fs[1])>>,
                        !.nums = Aligned(Get(fs, 3, 0)), !.words = Volatile(fs)]
StoreInstr(q, code, fs) ==
  LET found == Values(q, <<fs[1], fs[2]>>)
  IN  [Instr("store") EXCEPT !.vals = IF code = "STORE" THEN Reverse(found) ELSE found,
                             !.nums = Aligned(Get(fs, 3, 0)), !.words = Volatile(fs)]
(* [inbounds, type, pointer, (type, index)...]; before, only the values.   *)
IndexBacks(code, fs) ==
  IF code = "GEP" THEN [k \in 1..((Len(fs) - 3) \div 2) |-> fs[3 + 2 * k]] ELSE Tail(fs)
PtrBack(code, fs) == IF code = "GEP" THEN fs[3] ELSE fs[1]
GepInstr(q, code, fs) ==
  LET ptr == ValueAt(q, PtrBack(code, fs))
  IN  [Instr("getelementptr") EXCEPT
         !.ty = Ptr, !.types = <<IF code = "GEP" THEN TypeAt(q, fs[2]) ELSE TypeOf(q.fn, ptr)>>,
         !.words = IF (code = "GEP" /\ fs[1] # 0) \/ code = "INBOUNDS_GEP_OLD" THEN {"inbounds"} ELSE {},
         !.vals = <<ptr>> \o Values(q, IndexBacks(code, fs))]
CallInstr(q, fs) ==
  LET ty == TypeAt(q, fs[3])
  IN  [Instr("call") EXCEPT !.ty = IF ty[1] = "fn" THEN ty[2] ELSE Void, !.types = <<ty>>,
         !.words = {<<"", "tail", "musttail", "notail">>[(fs[2] % 4) + 1]} \ {""}, !.vals = Values(q, Rest(fs, 4))]
SwitchInstr(q, fs) ==
  LET n == (Len(fs) - 3) \div 2
  IN  [Instr("switch") EXCEPT !.vals = <<ValueAt(q, fs[2])>> \o [k \in 1..n |-> ValueAt(q, fs[2 + 2 * k])],
                              !.blks = <<fs[3] + 1>> \o [k \in 1..n |-> fs[3 + 2 * k] + 1]]
(* extractvalue_type                                                       *)
PartType(q, ty, n) ==
  LET body == IF ty[1] = "named" /\ ty[2] \in DOMAIN q.bodies THEN q.bodies[ty[2]] ELSE ty
  IN  CASE body[1] = "struct" -> Get(body[2], n + 1, ty)
        [] body[1] = "array" -> body[3]
        [] OTHER -> ty
AggregateInstr(q, code, fs) ==
  LET agg == ValueAt(q, fs[1])
      indices == Rest(fs, IF code = "EXTRACTVAL" THEN 2 ELSE 3)
      ty == TypeOf(q.fn, agg)
  IN  IF code = "EXTRACTVAL"
      THEN [Instr("extractvalue") EXCEPT !.vals = <<agg>>, !.nums = indices,
                                         !.ty = FoldLeft(LAMBDA t, n : PartType(q, t, n), ty, indices)]
      ELSE [Instr("insertvalue") EXCEPT !.vals = <<agg, ValueAt(q, fs[2])>>, !.nums = indices, !.ty = ty]
(* An operator that leaves the type of an operand as it is.                *)
SameInstr(q, op, vals, like) == [Instr(op) EXCEPT !.ty = TypeOf(q.fn, like), !.vals = vals]

(* Which fields of a record are values, which are types.                   *)
ValueRefs(code, fs) ==
  CASE code \in {"BINOP", "CMP2", "CMP", "STORE", "STORE_OLD", "INSERTVAL"} -> <<Get(fs, 1, 0), Get(fs, 2, 0)>>
    [] code \in {"CAST", "LOAD", "UNOP", "FREEZE", "EXTRACTVAL"} -> <<Get(fs, 1, 0)>>
    [] code \in {"SELECT", "VSELECT"} -> <<Get(fs, 1, 0), Get(fs, 2, 0), Get(fs, 3, 0)>>
    [] code = "RET" -> IF fs = <<>> THEN <<>> ELSE <<fs[1]>>
    [] code = "BR" -> IF Len(fs) >= 3 THEN <<fs[3]>> ELSE <<>>
    [] code \in {"GEP", "GEP_OLD", "INBOUNDS_GEP_OLD"} -> <<PtrBack(code, fs)>> \o IndexBacks(code, fs)
    [] code = "CALL" -> Rest(fs, 4)
    [] code = "SWITCH" -> <<fs[2]>> \o [k \in 1..((Len(fs) - 3) \div 2) |-> fs[2 + 2 * k]]
    [] OTHER -> <<>>
InstrTypeRefs(code, fs) ==
  CASE code \in {"CAST", "LOAD", "GEP"} -> <<fs[2]>>
    [] code \in {"PHI", "ALLOCA", "SWITCH"} -> <<fs[1]>>
    [] code = "CALL" -> <<fs[3]>>
    [] OTHER -> <<>>
Atomics == {"FENCE", "ATOMICRMW_OLD", "ATOMICRMW", "CMPXCHG_OLD", "CMPXCHG", "LOADATOMIC", "STOREATOMIC",
            "STOREATOMIC_OLD"}
(* The instructions that are made, none for a record that is not known.    *)
Made(q, code, fs) ==
  CASE code = "BINOP" -> <<BinopInstr(q, fs)>>
    [] code = "CAST" -> <<CastInstr(q, fs)>>
    [] code = "RET" -> <<[Instr("ret") EXCEPT !.vals = Values(q, ValueRefs(code, fs))]>>
    [] code = "BR" -> <<Branch(q, fs)>>
    [] code = "UNREACHABLE" -> <<Instr("unreachable")>>
    [] code = "PHI" -> <<PhiInstr(q, fs)>>
    [] code = "ALLOCA" -> <<AllocaInstr(q, fs)>>
    [] code = "LOAD" -> <<LoadInstr(q, fs)>>
    [] code \in {"STORE", "STORE_OLD"} -> <<StoreInstr(q, code, fs)>>
    [] code \in {"GEP", "GEP_OLD", "INBOUNDS_GEP_OLD"} -> <<GepInstr(q, code, fs)>>
    [] code \in {"CMP2", "CMP"} -> <<CmpInstr(q, fs)>>
    [] code \in {"SELECT", "VSELECT"} -> <<SameInstr(q, "select", Values(q, fs), ValueAt(q, fs[2]))>>
    [] code = "CALL" -> <<CallInstr(q, fs)>>
    [] code = "SWITCH" -> <<SwitchInstr(q, fs)>>
    [] code = "UNOP" -> <<SameInstr(q, "fneg", Values(q, <<fs[1]>>), ValueAt(q, fs[1]))>>
    [] code = "FREEZE" -> <<SameInstr(q, "freeze", Values(q, <<fs[1]>>), ValueAt(q, fs[1]))>>
    [] code \in {"EXTRACTVAL", "INSERTVAL"} -> <<AggregateInstr(q, code, fs)>>
    [] code \in Atomics -> <<[Instr("fence") EXCEPT !.choice = <<"seq_cst">>]>>
    [] OTHER -> <<>>
(* Wrong: a call always has a result.                                      *)
HasResult_Call(i) == i.op \notin Terminators \cup {"store", "fence"}
HasResult(i) == i.op \notin Terminators \cup {"store", "fence"} /\ (i.op = "call" => i.ty # Void)
BodyEntry(q, code, fs) ==
  CASE code = "DECLAREBLOCKS" ->
         [q EXCEPT !.fn.blocks = @ \o [k \in 1..Get(fs, 1, 1) |-> Block(ToString(k - 1))]]
    [] ~HasValues(q, ValueRefs(code, fs)) -> Broken(q, "value")
    [] ~HasTypes(q, InstrTypeRefs(code, fs)) -> Broken(q, "type")
    [] OTHER -> FoldLeft(LAMBDA r, i : Emit(r, i, HasResult(i)), q, Made(q, code, fs))

-----------------------------------------------------------------------------
(* The parsers of the blocks.                                              *)
Within(q) == IF q.open = <<>> THEN "file" ELSE Last(q.open)
(* enter_block: which parser takes the block on.                           *)
ParserOf(q, block) ==
  CASE Within(q) = "file" /\ block \in {"module", "strtab"} -> block
    [] Within(q) = "module" /\ block \in {"type", "constants", "function", "vst"} -> block
    [] Within(q) = "function" /\ block = "constants" -> block
    [] OTHER -> "skip"
EnterBlock(q, block) ==
  LET parser == ParserOf(q, block)
      in == [q EXCEPT !.open = Append(@, parser), !.abbrevs = <<>>]
  IN  CASE parser = "constants" -> [in EXCEPT !.current = I32]
        [] parser = "type" -> [in EXCEPT !.pending = <<>>]
        [] parser = "function" -> BeginFunction(in)
        [] OTHER -> in
(* end_block: the abbreviations of the block around it are gone as well.   *)
Close(q) ==
  LET out == [q EXCEPT !.open = Front(@), !.abbrevs = <<>>]
  IN  CASE Within(q) = "function" -> FinishFunction(out)
        [] Within(q) = "module" -> FinishModule(out)
        [] OTHER -> out
EndBlock_(q) == IF q.open = <<>> THEN [q EXCEPT !.done = TRUE] ELSE Close(q)
(* read_record_fields: by an abbreviation that is not known, or by another *)
(* one than the writer's.                                                  *)
Legible(q, number, ops) ==
  CASE number = Unabbreviated -> ""
    [] number # Unabbreviated /\ number - 3 \notin DOMAIN q.abbrevs -> "abbreviation"
    [] OTHER -> IF q.abbrevs[number - 3] = ops THEN "" ELSE "garbled"
RecordIn(q, code, fs) ==
  CASE Within(q) = "module" -> ModuleEntry(q, code, fs)
    [] Within(q) = "type" -> TypeEntry(q, code, fs)
    [] Within(q) = "constants" -> ConstEntry(q, code, fs)
    [] Within(q) = "vst" -> IF code \in {"VST_ENTRY", "VST_FNENTRY"} THEN NameEntry(q, fs) ELSE q
    [] Within(q) = "function" -> BodyEntry(q, code, fs)
    [] OTHER -> q

Item == stream.items[bc.at]
AtItem(kind) == bc.err = "" /\ ~bc.done /\ bc.at <= Len(stream.items) /\ Item[1] = kind
Advance(q) == bc' = [q EXCEPT !.at = @ + 1] /\ UNCHANGED stream
ReadEnter == AtItem("enter") /\ Advance(EnterBlock(bc, Item[2]))
ReadEnd == AtItem("end") /\ Advance(EndBlock_(bc))
ReadDefine == AtItem("define") /\ Advance([bc EXCEPT !.abbrevs = Append(@, Item[2])])
ReadRecord ==
  /\ AtItem("record")
  /\ LET why == Legible(bc, Item[2], Item[3])
     IN  Advance(IF why # "" THEN Broken(bc, why) ELSE RecordIn(bc, Item[4], Item[5]))
(* The data end: the loops of all parsers do, unless there is a part of an *)
(* item.                                                                   *)
AtEndOfData ==
  /\ bc.err = "" /\ ~bc.done /\ bc.at > Len(stream.items) /\ stream.items # <<>>
  /\ bc' = CASE stream.torn -> Broken(bc, "truncated")
             [] ~stream.torn /\ bc.open = <<>> -> [bc EXCEPT !.done = TRUE]
             [] OTHER -> Close(bc)
  /\ UNCHANGED stream
OpenBitcode(m, layout, cut) ==
  \E ctx \in {LlvmContext(m)} : \E all \in {LlvmFile(ctx, m, layout)} :
    LET kept == SubSeq(all, 1, Len(all) - cut)
    IN  /\ stream' = [of |-> m, layout |-> layout, cut |-> cut, items |-> kept,
                       torn |-> cut > 0 /\ Last(kept)[1] \notin {"enter", "end"}]
        /\ bc' = Bc0
ReadBitcode == ReadEnter \/ ReadEnd \/ ReadDefine \/ ReadRecord \/ AtEndOfData
Opened == stream.items # <<>>
BitcodeDone == bc.done \/ bc.err # ""

-----------------------------------------------------------------------------
(* What comes back of a body: not the names, the metadata, the flags on    *)
(* floating point and the sizes of allocas; globals by their number, zeros *)
(* of an aggregate as null, addresses without the type they step through,  *)
(* and phis without their values.                                          *)
RECURSIVE CameBack(_, _)
CameBack(m, c) ==
  LET parts(cs) == [k \in DOMAIN cs |-> CameBack(m, cs[k])]
      n == Id(Names(m), c[3])
  IN  CASE c[1] = "ref" -> Const("ref", Ptr, <<IF n < Len(m.globals) THEN n ELSE n - Len(m.globals)>>)
        [] c[1] = "zeroinitializer" -> Const("null", c[2], <<>>)
        [] c[1] \in Aggregates -> Const(c[1], c[2], parts(c[3]))
        [] c[1] = "expr" -> Const("expr", c[2], [c[3] EXCEPT !.base = c[2], !.operands = parts(@)])
        [] OTHER -> c
BodyInstr(m, i) ==
  [i EXCEPT !.name = "", !.md = <<>>, !.words = IF i.op \in Floating THEN {} ELSE @,
            !.vals = IF i.op \in {"phi", "alloca"} THEN <<>>
                     ELSE [k \in DOMAIN @ |-> IF @[k][1] = "const" THEN OfConst(CameBack(m, @[k][2])) ELSE @[k]]]
WithoutIncoming(i) == [i EXCEPT !.vals = IF i.op = "phi" THEN <<>> ELSE @]
Shape(blocks) == [k \in DOMAIN blocks |-> <<blocks[k].body, blocks[k].term>>]
Definitions(m) == SelectSeq(m.functions, LAMBDA f : ~f.declaration)
DefinitionsFirst(m) == \A j, k \in DOMAIN m.functions : j < k /\ m.functions[j].declaration => m.functions[k].declaration

(* BodiesComeBack: when a whole file of LLVM's has been read, every        *)
(* function that is defined before all declarations has its type and its   *)
(* linkage, the instructions with the operands they had, and the blocks    *)
(* these were in; and its name, if the names came first (read_llvm_bc).    *)
BodiesComeBack ==
  bc.done /\ stream.cut = 0 /\ DefinitionsFirst(stream.of) =>
    LET m == stream.of
    IN  /\ Len(bc.functions) = Len(m.functions)
        /\ bc.globals = m.globals
        /\ \A k \in DOMAIN m.functions :
             LET f == m.functions[k]
                 g == bc.functions[k]
             IN  /\ <<g.ty, g.linkage, g.declaration>> = <<f.ty, f.linkage, f.declaration>>
                 /\ [j \in DOMAIN g.instrs |-> WithoutIncoming(g.instrs[j])] = [j \in DOMAIN f.instrs |-> BodyInstr(m, f.instrs[j])]
                 /\ Shape(g.blocks) = Shape(f.blocks)
                 /\ stream.layout.names = "first" => g.name = f.name

(* RefusedBitcode: a file of LLVM's is refused only when it ends inside an *)
(* item, for an abbreviation that is defined for all blocks of a kind or   *)
(* that a nested block made the reader forget, for a global with a value   *)
(* of its own, for a value that is used before its definition, or when a   *)
(* body goes to the declaration before it; no field is ever taken for      *)
(* another one.                                                            *)
Forward(f) ==
  \E n \in DOMAIN f.instrs : f.instrs[n].op # "phi" /\
    \E k \in DOMAIN f.instrs[n].vals : f.instrs[n].vals[k][1] = "instr" /\ f.instrs[n].vals[k][2] >= n
RefusedBitcode ==
  CASE bc.err = "" -> TRUE
    [] bc.err = "truncated" -> stream.cut > 0
    [] bc.err = "abbreviation" ->
         \/ stream.layout.abbreviations = "for all"
         \/ stream.layout.abbreviations = "before" /\ \E k \in DOMAIN stream.of.functions : LocalConsts(stream.of.functions[k]) # <<>>
    [] bc.err = "value" ->
         \/ \E k \in DOMAIN stream.of.globals : stream.of.globals[k].init # <<>>
         \/ \E k \in DOMAIN stream.of.functions : Forward(stream.of.functions[k])
         \/ ~DefinitionsFirst(stream.of)
    [] OTHER -> FALSE
=============================================================================
