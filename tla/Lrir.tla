-------------------------------- MODULE Lrir --------------------------------
(***************************************************************************)
(* The binary format LRIR (llvm-bitcode: writer.rs, reader.rs): a module   *)
(* and its context as a sequence of tokens, and the reader that takes one  *)
(* record of it in a step.  Types and constants go by their place in the   *)
(* context; every record, of whatever it is, is an instruction record of   *)
(* Syntax, written and read slot by slot.                                  *)
(***************************************************************************)
EXTENDS Syntax

VARIABLES
  file,    \* the tokens of the file, as far as it has not been cut off
  reader   \* what has been read of it

-----------------------------------------------------------------------------
(* Context: types and constants in the order in which they got their ids,  *)
(* components first; but a named struct gets its id before its body is     *)
(* known.  bodies are the fields and packing of the named structs.         *)
Basic == <<Void, I1, IntTy(8), IntTy(16), I32, I64, Plain("float"), Plain("double"), Ptr, Plain("label")>>

Components(t) ==
  CASE t[1] \in {"array", "vector"} -> <<t[3]>>
    [] t[1] = "struct" -> t[2]
    [] t[1] = "fn" -> <<t[2]>> \o t[3]
    [] OTHER -> <<>>
Parts(c) ==
  CASE c[1] \in Aggregates -> c[3]
    [] c[1] = "expr" -> c[3].operands
    [] OTHER -> <<>>
RECURSIVE Intern(_, _), Push(_, _)
Intern(types, t) ==
  IF Contains(types, t) THEN types
  ELSE Append(FoldLeft(LAMBDA ts, x : Intern(ts, x), types, Components(t)), t)
Push(consts, c) ==
  IF Contains(consts, c) THEN consts
  ELSE Append(FoldLeft(LAMBDA cs, x : Push(cs, x), consts, Parts(c)), c)

Pool(m) == FlattenSeq([k \in DOMAIN m.functions |-> m.functions[k].instrs])
Operands(pool) == FlattenSeq([k \in DOMAIN pool |-> pool[k].vals])
ConstantsOf(m) ==
  LET used == SelectSeq(Operands(Pool(m)), LAMBDA v : v[1] = "const")
  IN  FoldLeft(LAMBDA cs, c : Push(cs, c), <<>>,
               FlattenSeq([k \in DOMAIN m.globals |-> m.globals[k].init]) \o [k \in DOMAIN used |-> used[k][2]])
ConstTypes(c) == <<c[2]>> \o (IF c[1] = "expr" THEN <<c[3].base>> ELSE <<>>)
TypesUsed(pool) == FlattenSeq([k \in DOMAIN pool |-> pool[k].types \o <<pool[k].ty>>])
TypesOf(m, consts) ==
  FlattenSeq([k \in DOMAIN m.types |-> <<Named(m.types[k][1])>> \o m.types[k][2][2]])
    \o [k \in DOMAIN m.globals |-> m.globals[k].ty]
    \o [k \in DOMAIN m.functions |-> m.functions[k].ty]
    \o TypesUsed(Pool(m))
    \o FlattenSeq([k \in DOMAIN consts |-> ConstTypes(consts[k])])
Context(m) ==
  LET consts == ConstantsOf(m)
  IN  [types |-> FoldLeft(LAMBDA ts, t : Intern(ts, t), Basic, TypesOf(m, consts)),
       bodies |-> [n \in {m.types[k][1] : k \in DOMAIN m.types} |->
                     m.types[CHOOSE k \in DOMAIN m.types : m.types[k][1] = n][2]],
       consts |-> consts]

(* Where x is in a table; 0 for its first entry.                           *)
Id(table, x) == SelectInSeq(table, LAMBDA y : y = x) - 1

-----------------------------------------------------------------------------
(* Tokens: numbers by the width they are written in, strings, and the tags *)
(* that say what a record is.                                              *)
U8(n) == <<"u8", n>>
U32(n) == <<"u32", n>>
U64(n) == <<"u64", n>>
Text(s) == <<"string", s>>
Tag(t) == <<"tag", t>>
Magic == <<"magic", "LRIR">>
NoTerminator == 1000   \* 0xFFFFFFFF
NoGlobal == 1000       \* GlobalId(u32::MAX)

(* The slots of a record.  Opt: one byte, and the slots if it is set; Many:*)
(* how many, and the slots for each.  A writer knows whether and how many, *)
(* a reader what it means that there is none.                              *)
Bit(w) == <<"bit", w>>
Code(codes) == <<"code", codes>>
Const32 == <<"constant">>
Num64 == <<"wide number">>
Int32 == <<"signed number">>
Opt(present, g) == <<"opt", present, g>>
OptElse(word, g) == <<"opt else", word, g>>
Many(n, g) == <<"many", n, g>>
Some(g) == <<"some", g>>

(* encode_mem_ordering, encode_rmw_op, encode_int_pred, encode_float_pred, *)
(* and the tags of linkages, kinds of tail calls and clauses: the code of  *)
(* a word is its place, from 0.                                            *)
OrderingCodes == <<"unordered", "monotonic", "acquire", "release", "acq_rel", "seq_cst">>
RmwCodes == <<"xchg", "add", "sub", "and", "nand", "or", "xor", "max", "min", "umax", "umin", "fadd", "fsub">>
IntPredCodes == <<"eq", "ne", "ugt", "uge", "ult", "ule", "sgt", "sge", "slt", "sle">>
FloatPredCodes == <<"false", "oeq", "ogt", "oge", "olt", "ole", "one", "ord", "uno", "ueq", "ugt", "uge",
                    "ult", "ule", "une", "true">>
LinkageCodes == <<"private", "internal", "external", "weak", "weak_odr", "linkonce", "linkonce_odr",
                  "common", "available_externally">>
FloatCodes == <<"half", "bfloat", "float", "double", "fp128", "x86_fp80">>
TailCodes == <<"", "tail", "musttail", "notail">>
ClauseCodes == <<"catch", "filter">>

-----------------------------------------------------------------------------
(* encode_instr: what is written after the name, the type and the tag.     *)
Two == <<Val, Val>>
EncodeInteger(i) ==
  CASE i.op \in {"add", "sub", "mul", "shl"} -> <<Bit("nuw"), Bit("nsw")>> \o Two
    [] i.op \in {"udiv", "sdiv", "lshr", "ashr"} -> <<Bit("exact")>> \o Two
    [] i.op \in {"urem", "srem", "and", "or", "xor"} -> Two
EncodeFloating(i) ==
  CASE i.op \in {"fadd", "fsub", "fmul", "fdiv", "frem"} -> Two
    [] i.op = "fneg" -> <<Val>>
    [] i.op = "icmp" -> <<Code(IntPredCodes)>> \o Two
    [] i.op = "fcmp" -> <<Code(FloatPredCodes)>> \o Two
EncodeMemory(i) ==
  LET align == Opt(i.nums # <<>>, <<Num>>)
  IN  CASE i.op = "alloca" -> <<Ty, Opt(i.vals # <<>>, <<Val>>), align>>
        [] i.op = "load" -> <<Ty, Val, align, Bit("volatile")>>
        [] i.op = "store" -> Two \o <<align, Bit("volatile")>>
        [] i.op = "getelementptr" -> <<Bit("inbounds"), Ty, Val, Many(Len(i.vals) - 1, <<Val>>)>>
EncodeCast(i) == IF i.op = "freeze" THEN <<Val>> ELSE <<Val, Ty>>
EncodeData(i) ==
  CASE i.op \in {"select", "insertelement"} -> <<Val, Val, Val>>
    [] i.op = "phi" -> <<Ty, Many(Len(i.vals), <<Val, Blk>>)>>
    [] i.op = "extractvalue" -> <<Val, Many(Len(i.nums), <<Num>>)>>
    [] i.op = "insertvalue" -> <<Val, Val, Many(Len(i.nums), <<Num>>)>>
    [] i.op = "extractelement" -> Two
    [] i.op = "shufflevector" -> Two \o <<Many(Len(i.nums), <<Int32>>)>>
EncodeCall(i) ==
  LET args(n) == Many(Len(i.vals) - n, <<Val>>)
  IN  CASE i.op = "call" -> <<<<"tail">>, Ty, Val, args(1)>>
        [] i.op = "invoke" -> <<Ty, Val, args(1), Blk, Blk>>
        [] i.op = "landingpad" -> <<Ty, Bit("cleanup"), Opt(FALSE, <<Val>>),
                                    Many(Len(i.vals), <<Code(ClauseCodes), Ty, Val>>)>>
        [] i.op = "asm" -> <<Str, Str, Bit("sideeffect"), Bit("alignstack"), args(0)>>
EncodeAtomic(i) ==
  CASE i.op = "fence" -> <<Code(OrderingCodes)>>
    [] i.op = "cmpxchg" -> <<Val, Val, Val, Code(OrderingCodes), Code(OrderingCodes), Bit("weak"), Bit("volatile")>>
    [] i.op = "atomicrmw" -> <<Code(RmwCodes)>> \o Two \o <<Code(OrderingCodes), Bit("volatile")>>
EncodeTerminator(i) ==
  CASE i.op = "ret" -> <<Opt(i.vals # <<>>, <<Val>>)>>
    [] i.op = "br" -> <<Blk>>
    [] i.op = "condbr" -> <<Val, Blk, Blk>>
    [] i.op = "switch" -> <<Val, Blk, Many(Len(i.vals) - 1, <<Val, Blk>>)>>
    [] i.op = "unreachable" -> <<>>
    [] i.op = "resume" -> <<Val>>
EncodePad(i) ==
  LET parent == Opt("none" \notin i.words, <<Val>>)
      unwind == Opt("caller" \notin i.words, <<Blk>>)
      rest(n) == Many(Len(i.vals) - n, <<Val>>)
  IN  CASE i.op = "catchpad" -> <<Val, rest(1)>>
        [] i.op = "cleanuppad" -> <<parent, rest(IF "none" \in i.words THEN 0 ELSE 1)>>
        [] i.op = "catchswitch" -> <<parent, Many(Len(i.blks) - (IF "caller" \in i.words THEN 0 ELSE 1), <<Blk>>), unwind>>
        [] i.op = "catchret" -> <<Val, Blk>>
        [] i.op = "cleanupret" -> <<Val, unwind>>
(* encode_type and encode_const, of the records below.                     *)
EncodeType(i) ==
  CASE i.op = "int" -> <<Num>>
    [] i.op = "float" -> <<Code(FloatCodes)>>
    [] i.op = "array" -> <<Ty, Num64>>
    [] i.op = "vector" -> <<Ty, Num, Bit("scalable")>>
    [] i.op = "struct" -> <<Str, Bit("packed"), Many(Len(i.types), <<Ty>>)>>
    [] i.op = "fn" -> <<Ty, Bit("variadic"), Many(Len(i.types) - 1, <<Ty>>)>>
    [] OTHER -> <<>>
(* The id in a reference to a global is written and read, and nothing in   *)
(* the compiler looks at it: which one it is is left out.                  *)
EncodeConst(i) ==
  CASE i.op \in {"int", "float"} -> <<Ty, Num64>>
    [] i.op = "wide" -> <<Ty, Many(Len(i.nums), <<Num64>>)>>
    [] i.op \in Scalars -> <<Ty>>
    [] i.op \in Aggregates -> <<Ty, Many(Len(i.vals), <<Const32>>)>>
    [] i.op = "ref" -> <<Ty, Num, Str>>
    [] i.op = "expr" -> <<Ty, <<"const op">>>> \o (IF Len(i.types) = 2 THEN <<Ty>> ELSE <<>>)
                          \o <<Many(Len(i.vals), <<Const32>>)>>
EncodeKind(i) ==
  CASE i.op \in Integer -> EncodeInteger(i)
    [] i.op \in Floating -> EncodeFloating(i)
    [] i.op \in Memory \ Atomic -> EncodeMemory(i)
    [] i.op \in Casts \cup {"freeze"} -> EncodeCast(i)
    [] i.op \in {"call", "invoke", "landingpad", "asm"} -> EncodeCall(i)
    [] i.op \in Atomic -> EncodeAtomic(i)
    [] i.op \in Pads -> EncodePad(i)
    [] i.op \in Terminators \ (Pads \cup {"invoke"}) -> EncodeTerminator(i)
    [] OTHER -> EncodeData(i)

-----------------------------------------------------------------------------
(* Types, constants and globals as records.                                *)
TypeRecord(ctx, t) ==
  LET body == ctx.bodies[t[2]]
      r == Instr(t[1])
  IN  CASE t[1] = "int" -> [r EXCEPT !.nums = <<t[2]>>]
        [] t[1] \in FloatKinds -> [Instr("float") EXCEPT !.choice = <<t[1]>>]
        [] t[1] = "array" -> [r EXCEPT !.nums = <<t[2]>>, !.types = <<t[3]>>]
        [] t[1] = "vector" -> [r EXCEPT !.nums = <<t[2]>>, !.types = <<t[3]>>,
                                        !.words = IF t[4] THEN {"scalable"} ELSE {}]
        [] t[1] = "struct" -> [r EXCEPT !.strs = <<"">>, !.types = t[2], !.words = IF t[3] THEN {"packed"} ELSE {}]
        [] t[1] = "named" -> IF t[2] \in DOMAIN ctx.bodies
                             THEN [Instr("struct") EXCEPT !.strs = <<t[2]>>, !.types = body[2],
                                                          !.words = IF body[3] THEN {"packed"} ELSE {}]
                             ELSE [Instr("struct") EXCEPT !.strs = <<t[2]>>]
        [] t[1] = "fn" -> [r EXCEPT !.types = <<t[2]>> \o t[3], !.words = IF t[4] THEN {"variadic"} ELSE {}]
        [] OTHER -> r
ConstRecord(c) ==
  LET r == [Instr(c[1]) EXCEPT !.types = <<c[2]>>]
      all(cs) == [k \in DOMAIN cs |-> OfConst(cs[k])]
  IN  CASE c[1] \in {"int", "float"} -> [r EXCEPT !.nums = <<c[3]>>]
        [] c[1] \in Scalars -> r
        [] c[1] \in Aggregates -> [r EXCEPT !.vals = all(c[3])]
        [] c[1] = "wide" -> [r EXCEPT !.nums = c[3]]
        [] c[1] = "ref" -> [r EXCEPT !.nums = <<NoGlobal>>, !.strs = <<c[3]>>]
        [] c[1] = "expr" -> [r EXCEPT !.choice = <<c[3].op>>, !.vals = all(c[3].operands),
                               !.words = IF c[3].inbounds THEN {"inbounds"} ELSE {},
                               !.types = IF c[3].op = "getelementptr" THEN <<c[2], c[3].base>> ELSE <<c[2]>>]

(* A writer: what has been written, and what is left of the record.        *)
Put(w, tokens) == [w EXCEPT !.out = @ \o tokens]
Take(w, field) == [w EXCEPT !.i[field] = Tail(@)]
Flag(b) == U8(IF b THEN 1 ELSE 0)
ConstId(ctx, v) == U32(Id(ctx.consts, v[2]))
(* encode_vref: the kind of the value, and its id.                         *)
ValueTokens(ctx, v) ==
  CASE v[1] = "instr" -> <<U8(0), U32(v[2] - 1)>>
    [] v[1] = "arg" -> <<U8(1), U32(v[2] - 1)>>
    [] v[1] = "const" -> <<U8(2), ConstId(ctx, v)>>
    [] v[1] = "global" -> <<U8(3), U32(v[2] - 1)>>
ConstOp(i) == Tag(IF i.words = {} THEN i.choice[1] ELSE "getelementptr inbounds")

RECURSIVE WriteSlots(_, _, _)
WriteSlot(ctx, w, slot) ==
  LET i == w.i
  IN  CASE slot[1] = "type" -> Take(Put(w, <<U32(Id(ctx.types, i.types[1]))>>), "types")
        [] slot[1] = "value" -> Take(Put(w, ValueTokens(ctx, i.vals[1])), "vals")
        [] slot[1] = "constant" -> Take(Put(w, <<ConstId(ctx, i.vals[1])>>), "vals")
        [] slot[1] = "block" -> Take(Put(w, <<U32(i.blks[1] - 1)>>), "blks")
        [] slot[1] \in {"number", "signed number"} -> Take(Put(w, <<U32(i.nums[1])>>), "nums")
        [] slot[1] = "wide number" -> Take(Put(w, <<U64(i.nums[1])>>), "nums")
        [] slot[1] = "string" -> Take(Put(w, <<Text(i.strs[1])>>), "strs")
        [] slot[1] = "bit" -> Put(w, <<Flag(slot[2] \in i.words)>>)
        [] slot[1] = "code" -> Take(Put(w, <<U8(Id(slot[2], i.choice[1]))>>), "choice")
        [] slot[1] = "tail" -> Put(w, <<U8(Id(TailCodes, IF i.words = {} THEN "" ELSE CHOOSE x \in i.words : TRUE))>>)
        [] slot[1] = "const op" -> Take(Put(w, <<ConstOp(i)>>), "choice")
        [] slot[1] = "opt" -> WriteSlots(ctx, Put(w, <<Flag(slot[2])>>), IF slot[2] THEN slot[3] ELSE <<>>)
        [] slot[1] = "many" -> WriteSlots(ctx, Put(w, <<U32(slot[2])>>), FlattenSeq([k \in 1..slot[2] |-> slot[3]]))
WriteSlots(ctx, w, g) == FoldLeft(LAMBDA x, slot : WriteSlot(ctx, x, slot), w, g)
Written(ctx, i, g) == WriteSlots(ctx, [out |-> <<>>, i |-> i], g).out

TypeTokens(ctx, t) ==
  LET r == TypeRecord(ctx, t)
  IN  <<Tag(r.op)>> \o Written(ctx, r, EncodeType(r))
ConstTokens(ctx, c) == <<Tag(c[1])>> \o Written(ctx, ConstRecord(c), EncodeConst(ConstRecord(c)))
InstrTokens(ctx, i) ==
  <<Text(i.name), U32(Id(ctx.types, i.ty)), Tag(i.op)>> \o Written(ctx, i, EncodeKind(i))

(* encode_global, encode_function, encode_block.                           *)
GlobalTokens(ctx, g) ==
  <<U32(Id(ctx.types, g.ty)), U8(Id(LinkageCodes, g.linkage)), Flag(g.constant), Flag(g.init # <<>>)>>
    \o [k \in DOMAIN g.init |-> U32(Id(ctx.consts, g.init[k]))] \o <<Text(g.name)>>
BlockTokens(b) ==
  <<Text(b.name), U32(Len(b.body))>> \o [k \in DOMAIN b.body |-> U32(b.body[k] - 1)]
    \o <<U32(IF b.term = 0 THEN NoTerminator ELSE b.term - 1)>>
FunctionTokens(ctx, f) ==
  <<Text(f.name), U32(Id(ctx.types, f.ty)), U8(Id(LinkageCodes, f.linkage)), Flag(f.declaration), Flag(f.strictfp),
    U32(Len(f.args))>>
    \o FlattenSeq([k \in DOMAIN f.args |-> <<Text(f.args[k].name), U32(Id(ctx.types, f.args[k].ty)), U32(k - 1)>>])
    \o <<U32(Len(f.blocks))>> \o FlattenSeq([b \in DOMAIN f.blocks |-> BlockTokens(f.blocks[b])])
    \o <<U32(Len(f.instrs))>> \o FlattenSeq([k \in DOMAIN f.instrs |-> InstrTokens(ctx, f.instrs[k])])

(* write_bitcode.                                                          *)
Bitcode(ctx, m) ==
  LET table(records) == <<U32(Len(records))>> \o FlattenSeq(records)
  IN  <<Magic, U32(1)>>
        \o table([k \in DOMAIN ctx.types |-> TypeTokens(ctx, ctx.types[k])])
        \o table([k \in DOMAIN ctx.consts |-> ConstTokens(ctx, ctx.consts[k])])
        \o table([k \in DOMAIN m.globals |-> GlobalTokens(ctx, m.globals[k])])
        \o <<Text("module")>>
        \o table([k \in DOMAIN m.functions |-> FunctionTokens(ctx, m.functions[k])])

-----------------------------------------------------------------------------
(* decode_instr: what is read after the name, the type and the tag.        *)
DecodeInteger(op) ==
  CASE op \in {"add", "sub", "mul", "shl"} -> <<Bit("nuw"), Bit("nsw")>> \o Two
    [] op \in {"udiv", "sdiv", "lshr", "ashr"} -> <<Bit("exact")>> \o Two
    [] op \in {"urem", "srem", "and", "or", "xor"} -> Two
DecodeFloating(op) ==
  CASE op = "fneg" -> <<Val>>
    [] op = "icmp" -> <<Code(IntPredCodes)>> \o Two
    [] op = "fcmp" -> <<Code(FloatPredCodes)>> \o Two
    [] OTHER -> Two
DecodeMemory(op) ==
  CASE op = "alloca" -> <<Ty, OptElse("", <<Val>>), OptElse("", <<Num>>)>>
    [] op = "load" -> <<Ty, Val, OptElse("", <<Num>>), Bit("volatile")>>
    [] op = "store" -> Two \o <<OptElse("", <<Num>>), Bit("volatile")>>
    [] op = "getelementptr" -> <<Bit("inbounds"), Ty, Val, Some(<<Val>>)>>
DecodeCast(op) == IF op = "freeze" THEN <<Val>> ELSE <<Val, Ty>>
DecodeData(op) ==
  CASE op \in {"select", "insertelement"} -> <<Val, Val, Val>>
    [] op = "phi" -> <<Ty, Some(<<Val, Blk>>)>>
    [] op = "extractvalue" -> <<Val, Some(<<Num>>)>>
    [] op = "insertvalue" -> <<Val, Val, Some(<<Num>>)>>
    [] op = "extractelement" -> Two
    [] op = "shufflevector" -> Two \o <<Some(<<Int32>>)>>
DecodeCall(op) ==
  CASE op = "call" -> <<<<"tail">>, Ty, Val, Some(<<Val>>)>>
    [] op = "invoke" -> <<Ty, Val, Some(<<Val>>), Blk, Blk>>
    [] op = "landingpad" -> <<Ty, Bit("cleanup"), OptElse("", <<Val>>), Some(<<Code(ClauseCodes), Ty, Val>>)>>
    [] op = "asm" -> <<Str, Str, Bit("sideeffect"), Bit("alignstack"), Some(<<Val>>)>>
DecodeAtomic(op) ==
  CASE op = "fence" -> <<Code(OrderingCodes)>>
    [] op = "cmpxchg" -> <<Val, Val, Val, Code(OrderingCodes), Code(OrderingCodes), Bit("weak"), Bit("volatile")>>
    [] op = "atomicrmw" -> <<Code(RmwCodes)>> \o Two \o <<Code(OrderingCodes), Bit("volatile")>>
DecodeTerminator(op) ==
  CASE op = "ret" -> <<OptElse("", <<Val>>)>>
    [] op = "br" -> <<Blk>>
    [] op = "condbr" -> <<Val, Blk, Blk>>
    [] op = "switch" -> <<Val, Blk, Some(<<Val, Blk>>)>>
    [] op = "unreachable" -> <<>>
    [] op = "resume" -> <<Val>>
DecodePad(op) ==
  CASE op = "catchpad" -> <<Val, Some(<<Val>>)>>
    [] op = "cleanuppad" -> <<OptElse("none", <<Val>>), Some(<<Val>>)>>
    [] op = "catchswitch" -> <<OptElse("none", <<Val>>), Some(<<Blk>>), OptElse("caller", <<Blk>>)>>
    [] op = "catchret" -> <<Val, Blk>>
    [] op = "cleanupret" -> <<Val, OptElse("caller", <<Blk>>)>>
DecodeKind(op) ==
  CASE op \in Integer -> DecodeInteger(op)
    [] op \in Floating -> DecodeFloating(op)
    [] op \in Memory \ Atomic -> DecodeMemory(op)
    [] op \in Casts \cup {"freeze"} -> DecodeCast(op)
    [] op \in {"call", "invoke", "landingpad", "asm"} -> DecodeCall(op)
    [] op \in Atomic -> DecodeAtomic(op)
    [] op \in Pads -> DecodePad(op)
    [] op \in Terminators \ (Pads \cup {"invoke"}) -> DecodeTerminator(op)
    [] OTHER -> DecodeData(op)
(* decode_type, decode_const; an expression says by its operator whether   *)
(* a base type follows.                                                    *)
DecodeType(op) ==
  CASE op = "int" -> <<Num>>
    [] op = "float" -> <<Code(FloatCodes)>>
    [] op = "array" -> <<Ty, Num64>>
    [] op = "vector" -> <<Ty, Num, Bit("scalable")>>
    [] op = "struct" -> <<Str, Bit("packed"), Some(<<Ty>>)>>
    [] op = "fn" -> <<Ty, Bit("variadic"), Some(<<Ty>>)>>
    [] OTHER -> <<>>
DecodeConst(op) ==
  CASE op \in {"int", "float"} -> <<Ty, Num64>>
    [] op = "wide" -> <<Ty, Some(<<Num64>>)>>
    [] op \in Scalars -> <<Ty>>
    [] op \in Aggregates -> <<Ty, Some(<<Const32>>)>>
    [] op = "ref" -> <<Ty, Num, Str>>
    [] op = "expr" -> <<Ty, <<"const op">>, Some(<<Const32>>)>>

-----------------------------------------------------------------------------
(* The reader: section is the table that is being read, left how many      *)
(* records of it are left, i the record, val the last token.               *)
Reader0 ==
  [at |-> 1, err |-> "", section |-> "header", left |-> 0, types |-> <<>>, bodies |-> <<>>,
   consts |-> <<>>, globals |-> <<>>, functions |-> <<>>, i |-> Instr(""), val |-> 0]
Fail(q, why) == [q EXCEPT !.err = why]
(* What is done after an error is not done (the ? of Rust).                *)
Then(q, F(_)) == IF q.err # "" THEN q ELSE F(q)
(* Reader::u8, u32, ..., string: the file may end, and if it does not the  *)
(* writer must have written a token of the same kind here.                 *)
Want(q, kind) ==
  IF q.at > Len(file) THEN Fail(q, "truncated")
  ELSE IF file[q.at][1] # kind THEN Fail(q, "misread")
  ELSE [q EXCEPT !.at = @ + 1, !.val = file[q.at][2]]
Field(q, name, v) == [q EXCEPT !.i[name] = Append(@, v)]
Word(q, w) == [q EXCEPT !.i.words = @ \cup ({w} \ {""})]

(* map_type_id, map_const_id; decode_vref takes any id.                    *)
MapTypeId(q) ==
  IF q.val + 1 \in DOMAIN q.types THEN Field(q, "types", q.types[q.val + 1]) ELSE Fail(q, "type id")
MapConstId(q) ==
  IF q.val + 1 \in DOMAIN q.consts THEN Field(q, "vals", OfConst(q.consts[q.val + 1])) ELSE Fail(q, "const id")
ValueOf(q, kind) ==
  CASE kind = 0 -> OfInstr(q.val + 1)
    [] kind = 1 -> OfArg(q.val + 1)
    [] kind = 2 -> OfConst(q.consts[q.val + 1])
    [] kind = 3 -> OfGlobal(q.val + 1)
ReadValue(q) ==
  Then(Want(q, "u8"), LAMBDA k : Then(Want(k, "u32"), LAMBDA r :
    IF k.val > 3 THEN Fail(r, "record") ELSE Field(r, "vals", ValueOf(r, k.val))))
(* decode_mem_ordering and the like: the word that has this code.          *)
ReadCode(q, codes) ==
  Then(Want(q, "u8"), LAMBDA r :
    IF r.val + 1 \in DOMAIN codes THEN Field(r, "choice", codes[r.val + 1]) ELSE Fail(r, "record"))
ReadNumber(q, kind) == Then(Want(q, kind), LAMBDA r : Field(r, "nums", r.val))
(* The operator of an expression, and the base type of getelementptr.      *)
ReadConstOp(q) ==
  Then(Want(q, "tag"), LAMBDA r :
    CASE r.val = "getelementptr inbounds" ->
           Then(Want(Word(Field(r, "choice", "getelementptr"), "inbounds"), "u32"), MapTypeId)
      [] r.val = "getelementptr" -> Then(Want(Field(r, "choice", r.val), "u32"), MapTypeId)
      [] OTHER -> Field(r, "choice", r.val))

RECURSIVE ReadSlot(_, _), ReadSlots(_, _)
ReadSlots(q, g) == FoldLeft(LAMBDA r, slot : Then(r, LAMBDA x : ReadSlot(x, slot)), q, g)
ReadSlot(q, slot) ==
  CASE slot[1] = "type" -> Then(Want(q, "u32"), MapTypeId)
    [] slot[1] = "value" -> ReadValue(q)
    [] slot[1] = "constant" -> Then(Want(q, "u32"), MapConstId)
    [] slot[1] = "block" -> Then(Want(q, "u32"), LAMBDA r : Field(r, "blks", r.val + 1))
    [] slot[1] \in {"number", "signed number"} -> ReadNumber(q, "u32")
    [] slot[1] = "wide number" -> ReadNumber(q, "u64")
    [] slot[1] = "string" -> Then(Want(q, "string"), LAMBDA r : Field(r, "strs", r.val))
    [] slot[1] = "bit" -> Then(Want(q, "u8"), LAMBDA r : Word(r, IF r.val # 0 THEN slot[2] ELSE ""))
    [] slot[1] = "code" -> ReadCode(q, slot[2])
    [] slot[1] = "tail" -> Then(Want(q, "u8"), LAMBDA r : Word(r, TailCodes[r.val + 1]))
    [] slot[1] = "const op" -> ReadConstOp(q)
    [] slot[1] = "opt else" -> Then(Want(q, "u8"), LAMBDA r :
                                 IF r.val # 0 THEN ReadSlots(r, slot[3]) ELSE Word(r, slot[2]))
    [] slot[1] = "some" -> Then(Want(q, "u32"), LAMBDA r : ReadSlots(r, FlattenSeq([k \in 1..r.val |-> slot[2]])))
Fresh(q, op) == [q EXCEPT !.i = Instr(op)]

(* decode_type with intern_type, decode_const with push_const.             *)
(* Wrong: every struct is taken for an anonymous one.                      *)
TypeOfRecord_Anonymous(i) ==
  CASE i.op = "int" -> IntTy(i.nums[1])
    [] i.op = "float" -> Plain(i.choice[1])
    [] i.op = "array" -> Array(i.nums[1], i.types[1])
    [] i.op = "vector" -> Vector(i.nums[1], i.types[1], i.words # {})
    [] i.op = "struct" -> Struct(i.types, i.words # {})
    [] i.op = "fn" -> FnType(i.types[1], Tail(i.types), i.words # {})
    [] OTHER -> Plain(i.op)
TypeOfRecord(i) ==
  CASE i.op = "int" -> IntTy(i.nums[1])
    [] i.op = "float" -> Plain(i.choice[1])
    [] i.op = "array" -> Array(i.nums[1], i.types[1])
    [] i.op = "vector" -> Vector(i.nums[1], i.types[1], i.words # {})
    [] i.op = "struct" -> IF i.strs[1] = "" THEN Struct(i.types, i.words # {}) ELSE Named(i.strs[1])
    [] i.op = "fn" -> FnType(i.types[1], Tail(i.types), i.words # {})
    [] OTHER -> Plain(i.op)
Bodies(bodies, i) ==
  IF i.op # "struct" \/ i.strs[1] = "" THEN bodies
  ELSE [n \in DOMAIN bodies \cup {i.strs[1]} |->
          IF n = i.strs[1] THEN Struct(i.types, i.words # {}) ELSE bodies[n]]
ReadType(q) ==
  Then(Want(q, "tag"), LAMBDA t : Then(ReadSlots(Fresh(t, t.val), DecodeType(t.val)), LAMBDA r :
    [r EXCEPT !.types = Append(@, TypeOfRecord(r.i)), !.bodies = Bodies(@, r.i)]))
ConstOfRecord(i) ==
  LET parts == [k \in DOMAIN i.vals |-> i.vals[k][2]]
  IN  CASE i.op \in {"int", "float"} -> Const(i.op, i.types[1], i.nums[1])
        [] i.op = "wide" -> Const(i.op, i.types[1], i.nums)
        [] i.op \in Scalars -> Const(i.op, i.types[1], <<>>)
        [] i.op \in Aggregates -> Const(i.op, i.types[1], parts)
        [] i.op = "ref" -> Const(i.op, i.types[1], i.strs[1])
        [] i.op = "expr" -> Const(i.op, i.types[1], [op |-> i.choice[1], inbounds |-> i.words # {},
                                                     base |-> Last(i.types), operands |-> parts])
ReadConst(q) ==
  Then(Want(q, "tag"), LAMBDA t : Then(ReadSlots(Fresh(t, t.val), DecodeConst(t.val)), LAMBDA r :
    [r EXCEPT !.consts = Append(@, ConstOfRecord(r.i))]))

(* decode_global.                                                          *)
ReadGlobal(q) ==
  Then(ReadSlots(Fresh(q, "global"), <<Ty, Code(LinkageCodes), Bit("constant"), OptElse("", <<Const32>>), Str>>),
    LAMBDA r : [r EXCEPT !.globals = Append(@,
      [name |-> r.i.strs[1], ty |-> r.i.types[1], constant |-> r.i.words # {}, linkage |-> r.i.choice[1],
       init |-> [k \in DOMAIN r.i.vals |-> r.i.vals[k][2]]])])

(* decode_function.  A file that ends before the byte for strictfp may be  *)
(* an old one.  Blocks and instructions come to the function in val.       *)
ReadStrictfp_Unknown(q) == q   \* wrong: the byte is not read at all
ReadStrictfp(q) == IF q.at > Len(file) THEN q ELSE ReadSlot(q, Bit("strictfp"))
RECURSIVE ReadBlocks(_, _, _), ReadInstrs(_, _, _)
ReadInstr(q) ==
  Then(Want(q, "string"), LAMBDA n : Then(Then(Want(Fresh(n, ""), "u32"), MapTypeId), LAMBDA t :
    Then(Want(t, "tag"), LAMBDA o :
      ReadSlots([o EXCEPT !.i = [Instr(o.val) EXCEPT !.name = n.val, !.ty = t.i.types[1]]], DecodeKind(o.val)))))
ReadBlocks(q, n, blocks) ==
  IF n = 0 THEN [q EXCEPT !.val = blocks]
  ELSE Then(ReadSlots(Fresh(q, "block"), <<Str, Some(<<Num>>), Num>>), LAMBDA r :
         ReadBlocks(r, n - 1, Append(blocks,
           [name |-> r.i.strs[1], body |-> [k \in 1..(Len(r.i.nums) - 1) |-> r.i.nums[k] + 1],
            term |-> IF Last(r.i.nums) = NoTerminator THEN 0 ELSE Last(r.i.nums) + 1])))
ReadInstrs(q, n, instrs) ==
  IF n = 0 THEN [q EXCEPT !.val = instrs]
  ELSE Then(ReadInstr(q), LAMBDA r : ReadInstrs(r, n - 1, Append(instrs, r.i)))
ReadFunctionHead(q) ==
  Then(Then(ReadSlots(Fresh(q, "function"), <<Str, Ty, Code(LinkageCodes), Bit("declaration")>>), ReadStrictfp),
    LAMBDA h : ReadSlot(h, Some(<<Str, Ty, Num>>)))
ReadFunction(q) ==
  LET made(i, blocks, instrs) ==
        [Function(i.strs[1], i.types[1],
                  [k \in 1..(Len(i.strs) - 1) |-> [name |-> i.strs[k + 1], ty |-> i.types[k + 1]]],
                  "declaration" \in i.words, i.choice[1], "strictfp" \in i.words)
           EXCEPT !.blocks = blocks, !.instrs = instrs]
  IN  Then(ReadFunctionHead(q), LAMBDA h :
        Then(Then(Want(h, "u32"), LAMBDA n : ReadBlocks(n, n.val, <<>>)), LAMBDA b :
          Then(Then(Want(b, "u32"), LAMBDA n : ReadInstrs(n, n.val, <<>>)), LAMBDA r :
            WithFunction(r, made(h.i, b.val, r.val)))))

-----------------------------------------------------------------------------
(* read_bitcode, one record at a time.                                     *)
Clean(q) == [q EXCEPT !.i = Instr(""), !.val = 0]
Open(section, q) == Then(Want(q, "u32"), LAMBDA r : [r EXCEPT !.section = section, !.left = r.val])
Entry(section, R(_)) ==
  /\ reader.section = section /\ reader.left > 0 /\ reader.err = ""
  /\ reader' = Clean(R([reader EXCEPT !.left = @ - 1]))
  /\ UNCHANGED file
EndOf(section) == reader.section = section /\ reader.left = 0 /\ reader.err = ""

Start(tokens) == file' = tokens /\ reader' = Reader0
ReadHeader ==
  /\ EndOf("header")
  /\ reader' = Clean(Then(Want(reader, "magic"), LAMBDA m : Then(Want(m, "u32"), LAMBDA v :
                       IF v.val # 1 THEN Fail(v, "version") ELSE Open("types", v))))
  /\ UNCHANGED file
ReadTypeEntry == Entry("types", ReadType)
ReadConstEntry == Entry("consts", ReadConst)
ReadGlobalEntry == Entry("globals", ReadGlobal)
ReadFunctionEntry == Entry("functions", ReadFunction)
ReadCounts ==
  /\ \/ EndOf("types") /\ reader' = Clean(Open("consts", reader))
     \/ EndOf("consts") /\ reader' = Clean(Open("globals", reader))
     \/ EndOf("globals") /\ reader' = Clean(Then(Want(reader, "string"), LAMBDA r : Open("functions", r)))
     \/ EndOf("functions") /\ reader' = [reader EXCEPT !.section = "done"]
  /\ UNCHANGED file
Read == ReadHeader \/ ReadTypeEntry \/ ReadConstEntry \/ ReadGlobalEntry \/ ReadFunctionEntry \/ ReadCounts
=============================================================================
