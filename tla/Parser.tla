------------------------------- MODULE Parser -------------------------------
(***************************************************************************)
(* The text parser (llvm-ir-parser: lexer.rs, parser.rs) on the text of a  *)
(* module.  One step parses a top-level entity, a block label, an          *)
(* instruction or the end of a function.  Inside a step the reader p,      *)
(* struct Parser, goes through the slots of a grammar; p.err ends it.      *)
(***************************************************************************)
EXTENDS Printer

CONSTANTS
  Modules,       \* the modules that are printed and parsed
  Texts,         \* other texts that are parsed
  MaxFunctions, MaxBlocks, MaxInstrs, MaxDepth   \* ParseLimits

ASSUME LimitAssumption == {MaxFunctions, MaxBlocks, MaxInstrs, MaxDepth} \subseteq Nat

VARIABLES
  source,  \* the module whose text is parsed, or EmptyModule for another text
  text,    \* its tokens
  p,       \* the parser
  level,   \* where it is: "module", "body" between the blocks of a function, "block"
  reread   \* whether what was parsed has been printed and is parsed again

vars == <<source, text, p, level, reread>>

-----------------------------------------------------------------------------
(* classify_word: a word that is no keyword is a local identifier, as if   *)
(* it had its %.  Words of digits are numbers.                             *)
Keywords ==
  {"source_filename", "target", "triple", "datalayout", "define", "declare", "type",
   "private", "internal", "external", "weak", "weak_odr", "linkonce", "linkonce_odr",
   "common", "available_externally", "void", "label", "metadata", "ptr", "global",
   "constant", "inbounds", "exact", "nuw", "nsw", "volatile", "tail", "musttail",
   "notail", "fast", "call", "invoke", "landingpad", "catch", "filter", "cleanup",
   "personality", "within", "caller", "none", "from", "zeroinitializer", "undef",
   "poison", "null", "align", "to", "unwind", "x", "vscale", "select", "phi",
   "extractvalue", "insertvalue", "extractelement", "insertelement", "shufflevector",
   "switch", "catchpad", "cleanuppad", "ret", "br", "unreachable", "resume",
   "catchswitch", "catchret", "cleanupret"}
  \cup FloatKinds \cup FastFlags \cup Arithmetic \cup Memory \cup IntPredicates \cup FloatPredicates
Punctuation == {"=", ",", ":", "*", "(", ")", "[", "]", "{", "}", "<", ">", "!", "#", "..."}
Numerals == [w \in {ToString(n) : n \in 0..9} |-> CHOOSE n \in 0..9 : ToString(n) = w]

(* next_token and lex_number: what does not fit a word is an error, what   *)
(* fits it only without a sign is a UIntLit; a hexadecimal number is the   *)
(* bits of a double.                                                       *)
Number(n) == CASE n < -(Modulus \div 2) \/ n >= Modulus -> <<"error", "number">>
               [] n >= Modulus \div 2 /\ n < Modulus -> <<"uint", n>>
               [] OTHER -> <<"int", n>>
Token(lexeme) ==
  CASE lexeme[1] = "word" ->
         IF lexeme[2] \in Keywords \cup Punctuation THEN lexeme
         ELSE IF lexeme[2] \in DOMAIN Numerals THEN <<"int", Numerals[lexeme[2]]>>
         ELSE Local(lexeme[2])
    [] lexeme[1] = "num" -> Number(lexeme[2])
    [] lexeme[1] = "hex" -> <<"float", lexeme[2]>>
    [] OTHER -> lexeme
Tokens(lexemes) == [k \in DOMAIN lexemes |-> Token(lexemes[k])]

-----------------------------------------------------------------------------
(* Parser::new_with_limits.  block is current_block, where constant        *)
(* expressions go, open the block that is being parsed.                    *)
None == <<>>
Eof == <<"eof", "">>
Parser0 ==
  [at |-> 1, err |-> "", mod |-> EmptyModule, func |-> 0, block |-> 0, open |-> 0, blocks |-> None,
   locals |-> None, slots |-> None, patches |-> <<>>, staged |-> <<>>, i |-> Instr(""),
   tys |-> <<>>, ty |-> Void, val |-> None, depth |-> 0, constDepth |-> 0]

Peek(q) == IF q.at > Len(text) THEN Eof ELSE text[q.at]
At(q, w) == Peek(q) = Token(Word(w))
AtSome(q, ws) == Peek(q) \in {Token(Word(w)) : w \in ws}
Next1(q) == [q EXCEPT !.at = @ + 1]
Fail(q, why) == [q EXCEPT !.err = IF @ = "" THEN why ELSE @]
Expect(q, w) == IF At(q, w) THEN Next1(q) ELSE Fail(q, w)
(* What is done after an error is not done (the ? of Rust).                *)
Then(q, F(_)) == IF q.err # "" THEN q ELSE F(q)
ThenExpect(q, w) == Then(q, LAMBDA r : Expect(r, w))
Eat(q, w) == IF At(q, w) THEN Next1(q) ELSE q
Bind(fun, key, v) == [k \in DOMAIN fun \cup {key} |-> IF k = key THEN v ELSE fun[k]]
Func(q) == q.mod.functions[q.func]
IsLength(t) == t[1] \in {"int", "uint"} /\ t[2] >= 0   \* expect_nonnegative_uint_lit

(* alloc_block_limited, get_or_create_block: a block is made when its name *)
(* is first read, as a label or in a branch.                               *)
BlockOf(q, name) ==
  IF name \in DOMAIN q.blocks THEN q
  ELSE IF Len(Func(q).blocks) + 1 > MaxBlocks THEN Fail(q, "blocks")
  ELSE [q EXCEPT !.mod.functions[q.func].blocks = Append(@, Block(name)),
                 !.blocks = Bind(@, name, Len(Func(q).blocks) + 1)]

Place(q, i, id) ==
  LET r == [q EXCEPT !.mod.functions[q.func].instrs = Append(@, i)]
  IN  IF i.op \in Terminators THEN [r EXCEPT !.mod.functions[q.func].blocks[q.block].term = id]
      ELSE [r EXCEPT !.mod.functions[q.func].blocks[q.block].body = Append(@, id)]

(* alloc_instr_limited with append_instr or set_terminator.                *)
AddInstr(q, i) ==
  IF Len(Func(q).instrs) + 1 > MaxInstrs THEN Fail(q, "instructions") ELSE Place(q, i, Len(Func(q).instrs) + 1)

(* resolve_local: by name, then by the number of an unnamed slot.          *)
Known(q, name) ==
  name \in DOMAIN q.locals \/ (name \in DOMAIN Numerals /\ Numerals[name] \in DOMAIN q.slots)
Resolve(q, name) ==
  IF name \in DOMAIN q.locals THEN q.locals[name] ELSE q.slots[Numerals[name]]

-----------------------------------------------------------------------------
(* parse_type: leaves the type in ty.                                      *)
RECURSIVE ReadType(_), ReadFields(_, _)
ReadFields(q, fields) ==
  Then(ReadType(q), LAMBDA r :
    IF At(r, ",") THEN ReadFields(Next1(r), Append(fields, r.ty))
    ELSE [r EXCEPT !.ty = Struct(Append(fields, r.ty), FALSE)])

(* parse_struct_body: "{ ... }" or "<{ ... }>".                            *)
ReadStruct(q) ==
  LET packed == At(q, "<")
      body(o) == IF At(o, "}") THEN [o EXCEPT !.ty = Struct(<<>>, FALSE)] ELSE ReadFields(o, <<>>)
      close(c) == IF packed THEN Expect(c, ">") ELSE c
  IN  Then(ThenExpect(Then(Expect(Eat(q, "<"), "{"), body), "}"), LAMBDA c :
        Then(close(c), LAMBDA e : [e EXCEPT !.ty = Struct(e.ty[2], packed)]))

(* parse_array_type, parse_vector_type: [n x T], <n x T>, <vscale x n x T>.*)
ReadSequential(q) ==
  LET array == At(q, "[")
      scalable == ~array /\ At(Next1(q), "vscale")
  IN  Then(IF scalable THEN Expect(Next1(Next1(q)), "x") ELSE Next1(q), LAMBDA s :
        IF ~IsLength(Peek(s)) THEN Fail(s, "length")
        ELSE Then(ThenExpect(Then(Expect(Next1(s), "x"), ReadType), IF array THEN "]" ELSE ">"), LAMBDA c :
               [c EXCEPT !.ty = IF array THEN Array(Peek(s)[2], c.ty) ELSE Vector(Peek(s)[2], c.ty, scalable)]))

ReadTypeInner(q) ==
  LET t == Peek(q)
      base == CASE t[1] = "word" /\ t[2] \in PlainTypes \ {"metadata"} ->
                     [Next1(q) EXCEPT !.ty = Plain(t[2])]
                [] t[1] = "i" -> [Next1(q) EXCEPT !.ty = IntTy(t[2])]
                [] t[1] = "%" -> [Next1(q) EXCEPT !.ty = Named(t[2])]
                [] At(q, "{") -> ReadStruct(q)
                [] At(q, "[") \/ At(q, "<") -> ReadSequential(q)
                [] OTHER -> Fail(q, "type")
  IN  Then(base, LAMBDA b : IF At(b, "*") THEN [Next1(b) EXCEPT !.ty = Ptr] ELSE b)
ReadType(q) ==
  Then(q, LAMBDA r :
    IF r.depth + 1 > MaxDepth THEN Fail(r, "depth")
    ELSE [ReadTypeInner([r EXCEPT !.depth = @ + 1]) EXCEPT !.depth = @ - 1])

-----------------------------------------------------------------------------
(* parse_value: leaves the value in val.  Constant expressions become      *)
(* instructions at the end of the current block, which stays the current   *)
(* one after its function; before the first block they are constants.      *)
Yield(q, c) == [q EXCEPT !.val = OfConst(c)]
IsConstant(v) == v[1] = "const"

Hoist(q, i) ==
  IF q.block > Len(Func(q).blocks) THEN Fail(q, "block")
  ELSE [AddInstr(q, i) EXCEPT !.val = OfInstr(Len(Func(q).instrs) + 1)]
ConstExpr(q, i, vals) ==
  IF q.func # 0 /\ q.block # 0 THEN Hoist(q, [i EXCEPT !.vals = vals])
  ELSE IF \E k \in DOMAIN vals : ~IsConstant(vals[k]) THEN Fail(q, "constant")
  ELSE Yield(q, Const("expr", i.ty, [op |-> i.op, inbounds |-> i.words # {}, base |-> i.types[1],
                                     operands |-> [k \in DOMAIN vals |-> vals[k][2]]]))

RECURSIVE ReadValue(_, _), ReadTyped(_), ReadList(_, _)
(* Typed values with commas between: leaves them in val.                   *)
ReadList(q, vals) ==
  Then(ReadTyped(q), LAMBDA r :
    IF At(r, ",") THEN ReadList(Next1(r), Append(vals, r.val))
    ELSE [r EXCEPT !.val = Append(vals, r.val)])

(* parse_array_constant, parse_struct_constant, the vector literal.        *)
ReadAggregate(q, kind, ty, close) ==
  Then(ThenExpect(IF At(Next1(q), close) THEN [Next1(q) EXCEPT !.val = <<>>] ELSE ReadList(Next1(q), <<>>), close),
    LAMBDA c : IF \E k \in DOMAIN c.val : ~IsConstant(c.val[k]) THEN Fail(q, "constant")
               ELSE Yield(c, Const(kind, ty, [k \in DOMAIN c.val |-> c.val[k][2]])))

(* parse_constexpr_gep_as_instr, parse_constexpr_cast_as_instr.            *)
ReadConstGep(q) ==
  LET words == IF At(Next1(q), "inbounds") THEN {"inbounds"} ELSE {}
  IN  Then(Then(Expect(Eat(Next1(q), "inbounds"), "("), ReadType), LAMBDA b :
        Then(ThenExpect(Then(Expect(b, ","), LAMBDA l : ReadList(l, <<>>)), ")"), LAMBDA c :
          ConstExpr(c, [Instr("getelementptr") EXCEPT !.ty = Ptr, !.types = <<b.ty>>, !.words = words], c.val)))
ReadConstCast(q, op) ==
  Then(Then(Expect(Next1(q), "("), ReadTyped), LAMBDA r :
    Then(ThenExpect(Then(Expect(r, "to"), ReadType), ")"), LAMBDA c :
      ConstExpr(c, [Instr(op) EXCEPT !.ty = c.ty, !.types = <<c.ty>>], <<r.val>>)))

ReadValueInner(q, ty) ==
  LET t == Peek(q)
      n == Next1(q)
      is(ws) == t[1] = "word" /\ t[2] \in ws
      kind == IF is({"["}) THEN "elements" ELSE IF is({"<"}) /\ ~At(n, "{") THEN "lanes" ELSE "fields"
      close == IF is({"["}) THEN "]" ELSE IF is({"<"}) /\ ~At(n, "{") THEN ">" ELSE "}"
      packed == is({"<"}) /\ At(n, "{")
  IN  CASE t[1] = "%" -> IF Known(q, t[2]) THEN [n EXCEPT !.val = Resolve(q, t[2])] ELSE Fail(q, "undefined")
        [] t[1] = "@" -> Yield(n, GlobalRef(t[2]))
        [] t[1] \in {"int", "uint"} -> Yield(n, ConstInt(ty, t[2]))
        [] t[1] = "float" -> Yield(n, Const("float", ty, t[2]))
        [] is(Scalars) -> Yield(n, Const(t[2], ty, None))
        [] is({"true", "false"}) -> Yield(n, ConstInt(I1, IF t[2] = "true" THEN 1 ELSE 0))
        [] is({"[", "{", "<"}) -> Then(ReadAggregate(IF packed THEN n ELSE q, kind, ty, close),
                                       LAMBDA r : IF packed THEN Expect(r, ">") ELSE r)
        [] is({"getelementptr"}) -> ReadConstGep(q)
        [] is(ConstCasts) -> ReadConstCast(q, t[2])
        [] OTHER -> Fail(q, "value")
ReadValue(q, ty) ==
  Then(q, LAMBDA r :
    IF r.constDepth + 1 > MaxDepth THEN Fail(r, "depth")
    ELSE [ReadValueInner([r EXCEPT !.constDepth = @ + 1], ty) EXCEPT !.constDepth = @ - 1])
(* parse_typed_value: also leaves the type in ty.                          *)
ReadTyped(q) ==
  Then(ReadType(q), LAMBDA t : [ReadValue(t, t.ty) EXCEPT !.ty = t.ty])

-----------------------------------------------------------------------------
(* The attributes that are skipped.  skip_param_attrs also skips what it   *)
(* does not know, up to a token that can start a value or end a parameter. *)
ParamAttrs == {"noundef", "nonnull", "noalias", "signext", "zeroext", "range", "returned",
               "dereferenceable", "byval", "sret", "inreg", "nest"}
FnAttrs == {"nounwind", "noinline", "alwaysinline", "dso_local", "strictfp", "cold", "hot", "memory"}
AfterAttrs == {",", ")", "[", "{", "<", "!", "define", "declare", "source_filename", "target",
               "true", "false", "getelementptr"} \cup Scalars \cup ConstCasts

RECURSIVE SkipNested(_, _, _, _), SkipParamAttrs(_), SkipFnAttrs(_, _)
(* skip_balanced_parens, skip_balanced_braces.                             *)
SkipNested(q, open, close, n) ==
  CASE Peek(q) = Eof -> Fail(q, "unterminated")
    [] At(q, close) /\ n = 1 -> Next1(q)
    [] OTHER -> SkipNested(Next1(q), open, close,
                           n + (IF At(q, open) THEN 1 ELSE IF At(q, close) THEN -1 ELSE 0))
SkipPayload(q) == IF At(q, "(") THEN SkipNested(Next1(q), "(", ")", 1) ELSE q
SkipParamAttrs(q) ==
  LET t == Peek(q)
  IN  CASE q.err # "" -> q
        [] t[1] = "%" /\ t[2] \in ParamAttrs -> SkipParamAttrs(SkipPayload(Next1(q)))
        [] t[1] \in {"%", "@", "int", "uint", "float", "eof"} -> q
        [] t[1] = "word" /\ t[2] \in AfterAttrs -> q
        [] t[1] = "word" /\ t[2] \in {"align", "#"} -> SkipParamAttrs(Next1(Next1(q)))
        [] OTHER -> SkipParamAttrs(Next1(q))
SkipFnAttrs(q, names) ==
  LET t == Peek(q)
  IN  CASE q.err # "" -> q
        [] t[1] = "%" /\ t[2] \in names -> SkipFnAttrs(SkipPayload(Next1(q)), names)
        [] At(q, "#") -> SkipFnAttrs(Next1(Next1(q)), names)
        [] OTHER -> q

-----------------------------------------------------------------------------
(* The metadata value that starts here (parse_metadata_value_text): tokens *)
(* up to one that ends it outside all brackets.                            *)
Open == {Word("("), Word("{"), Word("["), Word("<")}
Close == {Word(")"), Word("}"), Word("]"), Word(">")}
EndsMetadata(prev, t) ==
  \/ t = Eof \/ t \in Close
  \/ t[1] = "word" /\ t[2] \in {",", "define", "declare", "source_filename", "target"}
  \/ t = Word("!") /\ prev # Word("!")
  \/ /\ t[1] \in {"%", "@"}
     /\ prev \in Close \/ prev[1] \in {"int", "uint", "str", "%", "@"}
                       \/ (prev[1] = "word" /\ prev[2] \in Keywords)
Lexeme(t) == CASE t[1] = "%" -> Word(t[2])
               [] t[1] \in {"int", "uint"} -> <<"num", t[2]>>
               [] OTHER -> t
RECURSIVE ReadMetadata(_, _, _)
ReadMetadata(q, nesting, out) ==
  LET t == Peek(q)
      n == nesting + (IF t \in Open THEN 1 ELSE IF t \in Close THEN -1 ELSE 0)
      next == [Next1(q) EXCEPT !.val = Append(out, Lexeme(t))]
  IN  CASE t = Eof -> [q EXCEPT !.val = out]
        [] n < 0 -> Fail(q, "metadata")
        [] n = 0 /\ t # Local("distinct") /\ EndsMetadata(t, Peek(Next1(q))) -> next
        [] OTHER -> ReadMetadata(next, n, Append(out, Lexeme(t)))

(* parse_optional_metadata_attachments.                                    *)
RECURSIVE ReadAttachments(_)
ReadAttachments(q) ==
  LET key == Peek(Next1(Next1(q)))
  IN  CASE q.err # "" \/ ~At(q, ",") -> q
        [] ~At(Next1(q), "!") -> Next1(q)
        [] key[1] # "%" -> Fail(q, "key")
        [] OTHER -> Then(ReadMetadata(Next1(Next1(Next1(q))), 0, <<>>), LAMBDA r :
                      ReadAttachments([r EXCEPT !.i.md = Append(@, <<key[2], r.val>>)]))

-----------------------------------------------------------------------------
(* The slots of the parser.  Slots of Syntax read what they write; each    *)
(* type is also noted in tys, and an operand without a type takes the last.*)
Arg == <<"argument">>                     \* parse_typed_arg_value
SkipTy == <<"some type">>                 \* a type that is not kept
Untyped == <<"untyped">>                  \* parse_value_untyped, a callee
TyOfVal == <<"kept typed value">>         \* a typed value whose type is kept
Index == <<"index">>                      \* an integer, maybe negative
PhiVal == <<"incoming">>
SetWord(w) == <<"set", w>>                \* reads nothing
Skip(w) == <<"skip", w>>                  \* w, if it is there
Either(ws, g, h) == <<"either", ws, g, h>> \* g before a word of ws, else h
While(ws, g) == <<"while", ws, g>>        \* g as long as it is before a word of ws
Until(w, g) == <<"until", w, g>>          \* g until before w
OptAlign == <<"optional align">>
AnyOf(words) == <<"discard", words>>      \* any of the words, not kept

Field(q, name, v) == [q EXCEPT !.i[name] = Append(@, v)]
Typed(q) == [q EXCEPT !.tys = Append(@, q.ty)]
Operand(q) == IF q.err # "" THEN q ELSE Field(q, "vals", q.val)

RECURSIVE ReadFlags(_, _, _)
ReadFlags(q, words, keep) ==
  LET w == Peek(q)[2]
      read == IF keep THEN [Next1(q) EXCEPT !.i.words = @ \cup {w}] ELSE Next1(q)
  IN  IF ~AtSome(q, words) THEN q
      ELSE IF w \in {"fast"} \cup TailKinds THEN read ELSE ReadFlags(read, words, keep)

ReadUntyped(q) ==
  LET t == Peek(q)
  IN  CASE t[1] = "%" /\ Known(q, t[2]) -> Field(Next1(q), "vals", Resolve(q, t[2]))
        [] t[1] = "@" -> Field(Next1(q), "vals", OfConst(GlobalRef(t[2])))
        [] OTHER -> Fail(q, "undefined")

ReadBlock(q) ==
  IF Peek(q)[1] # "%" THEN Fail(q, "block name")
  ELSE Then(BlockOf(Next1(q), Peek(q)[2]), LAMBDA r : Field(r, "blks", r.blocks[Peek(q)[2]]))

(* Only here may a name be unknown: it is noted, and undef for now.        *)
ReadIncoming(q) ==
  IF Peek(q)[1] = "%" /\ ~Known(q, Peek(q)[2])
  THEN Field([Next1(q) EXCEPT !.staged = Append(@, <<Len(q.i.vals) + 1, Peek(q)[2]>>)],
             "vals", OfConst(Const("undef", Last(q.tys), None)))
  ELSE Operand(ReadValue(q, Last(q.tys)))

RECURSIVE Read(_, _), ReadAll(_, _)
ReadAll(q, g) == IF g = <<>> \/ q.err # "" THEN q ELSE ReadAll(Read(q, Head(g)), Tail(g))
Read(q, slot) ==
  LET typed(r) == Operand(ReadValue(CASE slot[1] = "kept typed value" -> Field(r, "types", r.ty)
                                      [] slot[1] = "argument" -> SkipParamAttrs(r)
                                      [] OTHER -> r, r.ty))
  IN
  CASE slot[1] = "word"    -> Expect(q, slot[2])
    [] slot[1] \in {"flags", "discard"} -> ReadFlags(q, slot[2], slot[1] = "flags")
    [] slot[1] = "skip"    -> IF AtSome(q, {slot[2]}) THEN Next1(q) ELSE q
    [] slot[1] = "set"     -> [q EXCEPT !.i.words = @ \cup {slot[2]}]
    [] slot[1] = "one"     -> IF AtSome(q, slot[2]) THEN Field(Next1(q), "choice", Peek(q)[2]) ELSE Fail(q, "word")
    [] slot[1] \in {"type", "some type", "typed value", "kept typed value", "argument"} ->
         Then(ReadType(q), LAMBDA t : CASE slot[1] = "type" -> Field(Typed(t), "types", t.ty)
                                        [] slot[1] = "some type" -> Typed(t)
                                        [] OTHER -> typed(Typed(t)))
    [] slot[1] = "value"   -> Operand(ReadValue(q, Last(q.tys)))
    [] slot[1] = "untyped" -> ReadUntyped(q)
    [] slot[1] = "incoming" -> ReadIncoming(q)
    [] slot[1] = "block"   -> ReadBlock(q)
    [] slot[1] = "number"  -> IF IsLength(Peek(q)) THEN Field(Next1(q), "nums", Peek(q)[2]) ELSE Fail(q, "number")
    [] slot[1] = "index"   -> IF Peek(q)[1] \in {"int", "uint"} THEN Field(Next1(q), "nums", Peek(q)[2]) ELSE Fail(q, "number")
    [] slot[1] = "string"  -> IF Peek(q)[1] = "str" THEN Field(Next1(q), "strs", Peek(q)[2]) ELSE Fail(q, "string")
    [] slot[1] = "optional align" -> IF At(q, ",") THEN ReadAll(Next1(q), <<K("align"), Num>>) ELSE q
    [] slot[1] = "either"  -> ReadAll(q, IF AtSome(q, slot[2]) THEN slot[3] ELSE slot[4])
    [] slot[1] = "while"   -> IF AtSome(q, slot[2]) THEN ReadAll(q, Append(slot[3], slot)) ELSE q
    [] slot[1] = "until"   -> IF At(q, slot[2]) THEN q ELSE ReadAll(q, Append(slot[3], slot))

More(slot) == While({","}, <<K(","), slot>>)
Args == <<K("("), Either({")"}, <<>>, <<Arg, While({","}, <<K(","), Skip("..."), Either({")"}, <<>>, <<Arg>>)>>)>>), K(")")>>
AsmArgs == <<K("("), Either({")"}, <<>>, <<Arg, More(Arg)>>), K(")")>>
(* parse_pad_args: a comma may follow the last one.                        *)
PadArgs == <<K("["), Either({"]"}, <<>>, <<TyVal, While({","}, <<K(","), Either({"]"}, <<>>, <<TyVal>>)>>)>>), K("]")>>
Target == <<K("label"), Blk>>
AnyFast == FastFlags \cup {"fast"}
(* parse_shuffle_mask.                                                     *)
ShuffleMask ==
  <<Either({"undef"}, <<K("undef")>>,
      <<Either({"<"}, <<SkipTy>>, <<>>), K("<"), SkipTy, Index, While({","}, <<K(","), SkipTy, Index>>), K(">")>>)>>
(* parse_funclet_parent, parse_unwind_dest.                                *)
Parent == Either({"none"}, <<K("none"), SetWord("none")>>, <<Untyped>>)
UnwindDest == Either({"label"}, Target, <<Skip("to"), K("caller"), SetWord("caller")>>)

(* parse_instr_kind: what is read after the opcode.                        *)
ParseInteger(op) ==
  CASE op \in {"add", "sub", "mul", "shl"} -> <<Flags(IntFlags), TyVal, K(","), Val>>
    [] op \in {"udiv", "sdiv", "lshr", "ashr"} -> <<Flags({"exact"}), TyVal, K(","), Val>>
    [] op \in {"urem", "srem", "and", "or", "xor"} -> <<TyVal, K(","), Val>>
ParseFloating(op) ==
  CASE op \in {"fadd", "fsub", "fmul", "fdiv", "frem"} -> <<Flags(AnyFast), TyVal, K(","), Val>>
    [] op = "fneg" -> <<Flags(AnyFast), TyVal>>
    [] op = "icmp" -> <<One(IntPredicates), TyVal, K(","), Val>>
    [] op = "fcmp" -> <<Flags(AnyFast), One(FloatPredicates), TyVal, K(","), Val>>
ParseCast(op) ==
  CASE op = "freeze" -> <<TyVal>>
    [] op \in {"zext", "sext"} -> <<Skip("nneg"), TyVal, K("to"), Ty>>
    [] op \in Casts \ {"zext", "sext"} -> <<TyVal, K("to"), Ty>>

ParseMemory(op) ==
  CASE op = "alloca" -> <<Ty, Either({","}, <<K(","), Either({"align"}, <<K("align"), Num>>, <<TyVal, OptAlign>>)>>, <<>>)>>
    [] op = "load"   -> <<Flags({"volatile"}), Ty, K(","), TyVal, OptAlign>>
    [] op = "store"  -> <<Flags({"volatile"}), TyVal, K(","), TyVal, OptAlign>>
    [] op = "getelementptr" -> <<Flags({"inbounds"}), Ty, K(","), TyVal, More(TyVal)>>
ParseAtomic(op) ==
  CASE op = "fence"  -> <<One(Orderings)>>
    [] op = "cmpxchg" -> <<Flags({"weak"}), Flags({"volatile"}), TyVal, K(","), TyVal, K(","), TyVal,
                           One(Orderings), One(Orderings)>>
    [] op = "atomicrmw" -> <<Flags({"volatile"}), One(RmwOps), TyVal, K(","), TyVal, One(Orderings)>>

ParseData(op) ==
  CASE op \in {"select", "insertelement"} -> <<TyVal, K(","), TyVal, K(","), TyVal>>
    [] op = "phi"    -> LET entry == <<K("["), PhiVal, K(","), Blk, K("]")>>
                        IN  <<Ty>> \o entry \o <<While({","}, <<K(",")>> \o entry)>>
    [] op = "extractvalue" -> <<TyVal, More(Num)>>
    [] op = "insertvalue" -> <<TyVal, K(","), TyVal, More(Num)>>
    [] op = "extractelement" -> <<TyVal, K(","), TyVal>>
    [] op = "shufflevector" -> <<TyVal, K(","), TyVal, K(",")>> \o ShuffleMask

ParseCall(op) ==
  <<Flags(TailKinds), K("call"), AnyOf(AnyFast), SkipTy>>
    \o (IF op = "call" THEN <<Untyped>> \o Args
        ELSE <<K("asm"), Flags({"sideeffect", "alignstack"}), Str, K(","), Str>> \o AsmArgs)
ParseUnwinding(op) ==
  CASE op = "invoke" -> <<Ty, Untyped>> \o AsmArgs \o <<K("to")>> \o Target \o <<K("unwind")>> \o Target
    [] op = "landingpad" -> <<Ty, Flags({"cleanup"}), While({"catch", "filter"}, <<One({"catch", "filter"}), TyOfVal>>)>>

ParseTerminator(op) ==
  CASE op = "ret"    -> <<Either({"void"}, <<K("void")>>, <<TyVal>>)>>
    [] op = "br"     -> Target
    [] op = "condbr" -> <<TyVal, K(",")>> \o Target \o <<K(",")>> \o Target
    [] op = "switch" -> <<TyVal, K(",")>> \o Target \o <<K("["), Until("]", <<TyVal, K(",")>> \o Target), K("]")>>
    [] op = "unreachable" -> <<>>
    [] op = "resume" -> <<TyVal>>
ParsePad(op) ==
  CASE op = "catchpad" -> <<K("within"), Untyped>> \o PadArgs
    [] op = "cleanuppad" -> <<K("within"), Parent>> \o PadArgs
    [] op = "catchswitch" -> <<K("within"), Parent, K("["), Either({"]"}, <<>>, Target \o <<While({","}, <<K(",")>> \o Target)>>),
                               K("]"), K("unwind"), UnwindDest>>
    [] op = "catchret" -> <<Skip("from"), Untyped, K("to")>> \o Target
    [] op = "cleanupret" -> <<Skip("from"), Untyped, K("unwind"), UnwindDest>>

ParseKind(op) ==
  CASE op \in Integer -> ParseInteger(op)
    [] op \in Floating -> ParseFloating(op)
    [] op \in Casts \cup {"freeze"} -> ParseCast(op)
    [] op \in Atomic -> ParseAtomic(op)
    [] op \in Memory \ Atomic -> ParseMemory(op)
    [] op \in {"call", "asm"} -> ParseCall(op)
    [] op \in {"invoke", "landingpad"} -> ParseUnwinding(op)
    [] op \in Pads -> ParsePad(op)
    [] op \in Terminators \ (Pads \cup {"invoke"}) -> ParseTerminator(op)
    [] OTHER -> ParseData(op)

(* The kind is known by the first word, but for two of them.               *)
Opcodes == Arithmetic \cup Memory \cup (Terminators \ {"condbr"})
             \cup {"select", "insertelement", "phi", "extractvalue", "insertvalue",
                   "extractelement", "shufflevector", "landingpad", "catchpad", "cleanuppad"}
CallWords == TailKinds \cup {"call"}
OpcodeAt(q) ==
  LET callee == ReadAll(q, SubSeq(ParseCall("call"), 1, 4))
  IN  CASE AtSome(q, CallWords) -> IF At(callee, "asm") THEN "asm" ELSE "call"
        [] At(q, "br") -> IF At(Next1(q), "label") THEN "br" ELSE "condbr"
        [] OTHER -> Peek(q)[2]

(* The type of the result (the second component of parse_instr_kind).      *)
BodyOf(q, t) ==
  IF t[1] # "named" THEN t
  ELSE LET d == SelectSeq(q.mod.types, LAMBDA x : x[1] = t[2])
       IN  IF d = <<>> THEN t ELSE d[1][2]
ElementType(q, t, n) ==
  LET b == BodyOf(q, t)
  IN  CASE b[1] = "struct" -> IF n < Len(b[2]) THEN b[2][n + 1] ELSE t
        [] b[1] \in {"array", "vector"} -> b[3]
        [] OTHER -> t
ResultType(q, op) ==
  CASE op \in {"icmp", "fcmp"} -> I1
    [] op \in Casts \cup {"select"} -> q.tys[2]
    [] op \in {"alloca", "getelementptr", "catchpad", "cleanuppad", "catchswitch", "catchret", "cleanupret"} -> Ptr
    [] op \in {"store", "fence", "ret", "br", "condbr", "switch", "unreachable"} -> Void
    [] op = "cmpxchg" -> Struct(<<q.tys[2], I1>>, FALSE)
    [] op = "atomicrmw" -> q.tys[2]
    [] op = "extractvalue" -> FoldLeft(LAMBDA t, n : ElementType(q, t, n), q.tys[1], q.i.nums)
    [] op = "extractelement" -> IF q.tys[1][1] = "vector" THEN q.tys[1][3] ELSE q.tys[1]
    [] OTHER -> q.tys[1]
(* A call keeps the function type made from what it passes.                *)
CalleeType(q) ==
  LET args == Tail(q.i.vals)
  IN  FnType(q.tys[1], [k \in DOMAIN args |-> TypeOf(Func(q), args[k])], FALSE)

ReadKind(q, op) ==
  LET o == [q EXCEPT !.i = Instr(op), !.tys = <<>>, !.staged = <<>>]
  IN  Then(ReadAll(IF op \in {"call", "asm"} THEN o ELSE Next1(o), ParseKind(op)), LAMBDA r :
        IF op = "landingpad" /\ r.i.vals = <<>> /\ r.i.words = {} THEN Fail(r, "landingpad")
        ELSE [r EXCEPT !.i.ty = ResultType(r, op),
                       !.i.types = IF op \in {"call", "invoke"} THEN <<CalleeType(r)>> ELSE @])

(* parse_instruction: "%name = ..." binds the name, "n = ..." a slot.      *)
BindResult(q, t) ==
  LET v == OfInstr(Len(Func(q).instrs))
      n == [q EXCEPT !.patches = @ \o [k \in DOMAIN q.staged |-> <<v[2]>> \o q.staged[k]], !.staged = <<>>]
  IN  CASE t[1] = "%" -> [n EXCEPT !.locals = Bind(@, t[2], v)]
        [] t[1] = "int" -> [n EXCEPT !.slots = Bind(@, t[2], v)]
        [] OTHER -> n
ReadInstruction(q0) ==
  LET q == [q0 EXCEPT !.block = q0.open]
      t == Peek(q)
      named == t[1] = "%"
      kind(s, op) == IF op \in Opcodes \cup CallWords \cup {"asm", "condbr"} THEN ReadKind(s, op)
                     ELSE Fail(s, "opcode")
  IN  Then(IF t[1] \in {"%", "int"} THEN Expect(Next1(q), "=") ELSE q, LAMBDA s :
        Then(ReadAttachments(kind(s, OpcodeAt(s))), LAMBDA a :
          Then(AddInstr(a, [a.i EXCEPT !.name = IF named THEN t[2] ELSE ""]), LAMBDA b : BindResult(b, t))))

-----------------------------------------------------------------------------
(* parse_block: a label is a name or number before a colon; without one    *)
(* the block is called entry, which must not be complete already.          *)
IsComplete(q, b) == Func(q).blocks[b].term # 0
StartBlock_Unguarded(q) ==
  LET t == Peek(q)
      label == t[1] \in {"%", "int"} /\ At(Next1(q), ":")
      name == CASE ~label -> "entry"
                [] t[1] = "%" -> t[2]
                [] OTHER -> ToString(t[2])
  IN  Then(BlockOf(IF label THEN Next1(Next1(q)) ELSE q, name), LAMBDA r : [r EXCEPT !.open = r.blocks[name]])
StartBlock(q) ==
  LET t == Peek(q)
      label == t[1] \in {"%", "int"} /\ At(Next1(q), ":")
      name == CASE ~label -> "entry"
                [] t[1] = "%" -> t[2]
                [] OTHER -> ToString(t[2])
  IN  IF ~label /\ name \in DOMAIN q.blocks /\ IsComplete(q, q.blocks[name]) THEN Fail(q, "label")
      ELSE Then(BlockOf(IF label THEN Next1(Next1(q)) ELSE q, name), LAMBDA r : [r EXCEPT !.open = r.blocks[name]])
BlockEnds(q) == At(q, "}") \/ (Peek(q)[1] \in {"%", "int"} /\ IsComplete(q, q.open))

ResolvePatches_Forgotten(q) == [q EXCEPT !.patches = <<>>]
(* resolve_phi_patches.                                                    *)
ResolvePatches(q) ==
  FoldLeft(LAMBDA r, x :
             IF r.err # "" THEN r
             ELSE IF ~Known(r, x[3]) THEN Fail(r, "undefined")
             ELSE [r EXCEPT !.mod.functions[r.func].instrs[x[1]].vals[x[2]] = Resolve(r, x[3])],
           [q EXCEPT !.patches = <<>>], q.patches)

(* parse_optional_linkage, parse_param and the head of parse_function.     *)
LinkageAt(q) == IF AtSome(q, Linkages) THEN Peek(q)[2] ELSE "external"
SkipLinkage(q) == IF AtSome(q, Linkages \cup {"external"}) THEN Next1(q) ELSE q

RECURSIVE ReadParams(_, _), SkipTrailing(_)
ReadParams(q, args) ==
  LET param(r, named) ==
        LET all == Append(args, [name |-> IF named THEN Peek(r)[2] ELSE "", ty |-> r.ty])
            n == IF named THEN Next1(r) ELSE r
        IN  IF At(n, ",") THEN ReadParams(Next1(n), all)
            ELSE [n EXCEPT !.val = [args |-> all, variadic |-> FALSE]]
  IN  IF At(q, "...") THEN [Next1(q) EXCEPT !.val = [args |-> args, variadic |-> TRUE]]
      ELSE Then(Then(ReadType(q), SkipParamAttrs), LAMBDA r : param(r, Peek(r)[1] = "%"))
ReadMetadataDef(q) ==
  LET t == Peek(Next1(q))
      named == t[1] = "%"
      defines == (named \/ IsLength(t)) /\ At(Next1(Next1(q)), "=")
  IN  Then(ReadMetadata(CASE defines -> Next1(Next1(Next1(q)))
                          [] named \/ IsLength(t) -> Next1(Next1(q))
                          [] OTHER -> Next1(q), 0, <<>>), LAMBDA r :
        CASE ~defines -> r
          [] named -> [r EXCEPT !.mod = SetNamedMetadata(@, t[2], r.val)]
          [] OTHER -> [r EXCEPT !.mod = SetMetadataNode(@, t[2], r.val)])
(* skip_trailing_fn_attrs: up to a body or what may follow a declaration;  *)
(* a metadata definition in the way is read.                               *)
SkipTrailing(q) ==
  LET t == Peek(q)
  IN  CASE q.err # "" \/ t[1] \in {"eof", "@"} -> q
        [] AtSome(q, {"{", "define", "declare", "target", "source_filename", "attributes"}) -> q
        [] At(q, "personality") -> SkipTrailing(Next1(ReadType(Next1(q))))
        [] t[1] = "%" /\ t[2] \in FnAttrs ->
             SkipTrailing([SkipPayload(Next1(q)) EXCEPT !.val.strictfp = @ \/ t[2] = "strictfp"])
        [] t[1] = "%" /\ t[2] \notin FnAttrs -> q
        [] At(q, "#") -> SkipTrailing(Next1(Next1(q)))
        [] At(q, "!") -> [ReadMetadataDef(q) EXCEPT !.val = q.val]
        [] OTHER -> SkipTrailing(Next1(q))

(* Everything known of the function before is forgotten, but for           *)
(* current_block.                                                          *)
Begin(q, f) ==
  LET args == f.args
  IN  IF Len(q.mod.functions) + 1 > MaxFunctions THEN Fail(q, "functions")
      ELSE [q EXCEPT !.mod = WithFunction(@, f), !.func = Len(q.mod.functions) + 1,
                     !.blocks = None, !.slots = None, !.patches = <<>>, !.staged = <<>>,
                     !.locals = [n \in {args[k].name : k \in DOMAIN args} \ {""} |->
                                   OfArg(CHOOSE k \in DOMAIN args : args[k].name = n
                                           /\ \A j \in DOMAIN args : args[j].name = n => j <= k)]]
ReadHeader(q) ==
  LET declaration == At(q, "declare")
      params(o) == IF At(o, ")") THEN [o EXCEPT !.val = [args |-> <<>>, variadic |-> FALSE]] ELSE ReadParams(o, <<>>)
      made(e, name, ret) ==
        Begin(e, Function(name, FnType(ret, [k \in DOMAIN e.val.args |-> e.val.args[k].ty], e.val.variadic),
                          e.val.args, declaration, LinkageAt(Next1(q)), e.val.strictfp))
  IN  Then(ReadType(SkipFnAttrs(SkipLinkage(Next1(q)), FnAttrs)), LAMBDA t :
        IF Peek(t)[1] # "@" THEN Fail(t, "name")
        ELSE Then(ThenExpect(Then(Expect(Next1(t), "("), params), ")"), LAMBDA c :
               Then(SkipTrailing([c EXCEPT !.val = c.val @@ [strictfp |-> FALSE]]), LAMBDA e :
                 Then(made(e, Peek(t)[2], t.ty), LAMBDA r : IF declaration THEN r ELSE Expect(r, "{")))))

-----------------------------------------------------------------------------
(* parse_module.                                                           *)
SetTarget(q, field) ==
  Then(Expect(Next1(q), "="), LAMBDA r :
    IF Peek(r)[1] # "str" THEN Fail(q, "string") ELSE [Next1(r) EXCEPT !.mod[field] = <<Peek(r)[2]>>])
ReadTarget(q) ==
  CASE At(q, "source_filename") -> SetTarget(q, "file")
    [] At(Next1(q), "triple") -> SetTarget(Next1(q), "triple")
    [] At(Next1(q), "datalayout") -> SetTarget(Next1(q), "layout")
    [] OTHER -> Fail(q, "target")

ReadAttributeGroup(q) ==
  Then(ThenExpect(Then(Expect(Next1(q), "#"), LAMBDA r : Expect(Next1(r), "=")), "{"),
       LAMBDA b : SkipNested(b, "{", "}", 1))

ReadNamedType(q) ==
  LET name == Peek(q)[2]
      body(t) == IF At(t, "void") THEN [Next1(t) EXCEPT !.ty = Struct(<<>>, FALSE)] ELSE ReadStruct(t)
      d(r) == <<name, r.ty>>
  IN  Then(Then(ThenExpect(Expect(Next1(q), "="), "type"), body), LAMBDA r :
        [r EXCEPT !.mod.types =
             IF \E k \in DOMAIN @ : @[k][1] = name THEN [k \in DOMAIN @ |-> IF @[k][1] = name THEN d(r) ELSE @[k]]
             ELSE Append(@, d(r))])

RECURSIVE SkipGlobalAttrs(_)
SkipGlobalAttrs(q) ==
  CASE q.err # "" -> q
    [] At(q, ",") /\ AtSome(Next1(q), {"align", "section"}) -> SkipGlobalAttrs(Next1(Next1(Next1(q))))
    [] At(q, ",") /\ At(Next1(q), "comdat") -> SkipGlobalAttrs(SkipPayload(Next1(Next1(q))))
    [] At(q, ",") /\ At(Next1(q), "!") -> SkipGlobalAttrs(Next1(Expect(Next1(Next1(Next1(q))), "!")))
    [] At(q, "#") -> SkipGlobalAttrs(Next1(Next1(q)))
    [] At(q, "!") -> SkipGlobalAttrs(Next1(Expect(Next1(Next1(q)), "!")))
    [] OTHER -> q
AtStatementEnd(q) ==
  Peek(q)[1] \in {"eof", "@", "%"} \/ AtSome(q, {"define", "declare", "target", "source_filename", "!"})
GlobalAttrs == {"unnamed_addr", "local_unnamed_addr", "dso_local", "dso_preemptable",
                "externally_initialized", "thread_local", "addrspace"}
ReadGlobal(q) ==
  LET value(t) == IF AtStatementEnd(t) THEN [t EXCEPT !.val = None]
                  ELSE Then(ReadValue(t, t.ty), LAMBDA v :
                         IF IsConstant(v.val) THEN [v EXCEPT !.val = <<v.val[2]>>, !.ty = t.ty] ELSE Fail(v, "constant"))
      made(r, k, l) == [name |-> Peek(q)[2], ty |-> r.ty, constant |-> At(k, "constant"),
                        linkage |-> LinkageAt(l), init |-> r.val]
  IN  Then(Expect(Next1(q), "="), LAMBDA l :
        Then(SkipFnAttrs(SkipLinkage(l), GlobalAttrs), LAMBDA k :
          IF ~AtSome(k, {"global", "constant"}) THEN Fail(k, "global")
          ELSE Then(SkipGlobalAttrs(Then(ReadType(Next1(k)), value)), LAMBDA r :
                 [r EXCEPT !.mod = WithGlobal(@, made(r, k, l))])))

-----------------------------------------------------------------------------
(* What a step leaves of the reader; an error is the end.                  *)
Clean(q) == [q EXCEPT !.i = Instr(""), !.tys = <<>>, !.ty = Void, !.val = None]
Goes(q, l) ==
  /\ p' = Clean(q)
  /\ level' = IF q.err = "" THEN l ELSE "error"
  /\ UNCHANGED <<source, text, reread>>

Init ==
  /\ \/ \E m \in Modules : source = m /\ text = Tokens(ModuleText(m))
     \/ \E t \in Texts : source = EmptyModule /\ text = Tokens(t)
  /\ p = Parser0
  /\ level = "module"
  /\ reread = FALSE

ParseTarget == level = "module" /\ AtSome(p, {"source_filename", "target"}) /\ Goes(ReadTarget(p), "module")
ParseAttributeGroup == level = "module" /\ At(p, "attributes") /\ Goes(ReadAttributeGroup(p), "module")
ParseNamedType ==
  level = "module" /\ Peek(p)[1] = "%" /\ ~At(p, "attributes") /\ Goes(ReadNamedType(p), "module")
ParseGlobal == level = "module" /\ Peek(p)[1] = "@" /\ Goes(ReadGlobal(p), "module")
ParseMetadata == level = "module" /\ At(p, "!") /\ Goes(ReadMetadataDef(p), "module")
ParseHeader ==
  /\ level = "module" /\ AtSome(p, {"define", "declare"})
  /\ Goes(ReadHeader(p), IF At(p, "declare") THEN "module" ELSE "body")
ParseOther ==
  /\ level = "module"
  /\ Peek(p)[1] \notin {"%", "@", "eof"}
  /\ ~AtSome(p, {"source_filename", "target", "!", "define", "declare"})
  /\ Goes(Fail(p, "top level"), "module")

ParseLabel == level = "body" /\ ~At(p, "}") /\ Goes(StartBlock(p), "block")
ParseInstruction == level = "block" /\ ~BlockEnds(p) /\ Goes(ReadInstruction(p), "block")
EndBlock == level = "block" /\ BlockEnds(p) /\ Goes(p, "body")
EndFunction == level = "body" /\ At(p, "}") /\ Goes(ResolvePatches(Next1(p)), "module")

(* What was parsed is printed and parsed again.                            *)
Reprint ==
  /\ level = "module" /\ Peek(p) = Eof /\ ~reread
  /\ source' = p.mod
  /\ text' = Tokens(ModuleText(p.mod))
  /\ p' = Parser0
  /\ level' = "module"
  /\ reread' = TRUE

Done == level = "error" \/ (level = "module" /\ Peek(p) = Eof /\ reread)
Stop == Done /\ UNCHANGED vars

Next == \/ ParseTarget \/ ParseAttributeGroup \/ ParseNamedType \/ ParseGlobal \/ ParseMetadata
        \/ ParseHeader \/ ParseOther \/ ParseLabel \/ ParseInstruction \/ EndBlock \/ EndFunction
        \/ Reprint \/ Stop

Spec == Init /\ [][Next]_vars

-----------------------------------------------------------------------------
(* A module up to the numbers that instructions, arguments and blocks      *)
(* happen to have: what is named goes by its name.                         *)
Symbolic(f, v) == IF v[1] = "instr" THEN Local(NameOf(f, v[2])) ELSE v
CanonInstr(f, id) ==
  LET i == f.instrs[id]
  IN  [i EXCEPT !.name = IF ResultText(f, id) = <<>> THEN "" ELSE NameOf(f, id),
                !.vals = [k \in DOMAIN @ |-> Symbolic(f, @[k])],
                !.blks = [k \in DOMAIN @ |-> f.blocks[@[k]].name]]
CanonBlock(f, b) == [body |-> [k \in DOMAIN b.body |-> CanonInstr(f, b.body[k])],
                     term |-> IF b.term = 0 THEN <<>> ELSE <<CanonInstr(f, b.term)>>]
CanonFunction(f) ==
  [name |-> f.name, ty |-> f.ty, args |-> f.args, declaration |-> f.declaration,
   linkage |-> f.linkage, strictfp |-> f.strictfp,
   entry |-> IF f.blocks = <<>> THEN "" ELSE f.blocks[1].name,
   blocks |-> {<<f.blocks[b].name, CanonBlock(f, f.blocks[b])>> : b \in DOMAIN f.blocks}]
Canon(m) == [m EXCEPT !.functions = [k \in DOMAIN @ |-> CanonFunction(@[k])]]

(* How deep types are nested.                                              *)
RECURSIVE TypeDepth(_)
TypeDepth(t) ==
  CASE t[1] \in {"array", "vector"} -> 1 + TypeDepth(t[3])
    [] t[1] = "struct" -> 1 + FoldLeft(LAMBDA d, x : LET e == TypeDepth(x)
                                                     IN  IF e > d THEN e ELSE d, 0, t[2])
    [] OTHER -> 1

(* Parsing never makes more functions, blocks or                           *)
(* instructions than ParseLimits allows, also when blocks are made by      *)
(* branches to them and instructions by constant expressions.              *)
WithinLimits ==
  /\ Len(p.mod.functions) <= MaxFunctions
  /\ \A k \in DOMAIN p.mod.functions :
       /\ Len(p.mod.functions[k].blocks) <= MaxBlocks
       /\ Len(p.mod.functions[k].instrs) <= MaxInstrs
  /\ \A g \in DOMAIN p.mod.globals : TypeDepth(p.mod.globals[g].ty) <= MaxDepth

(* RoundTrip: the text that a module is printed as is never refused, and   *)
(* what is read from it is that module again, up to the numbering of its   *)
(* instructions and blocks (print_module, then parse).  Whatever the text, *)
(* every instruction read has the operands, words and types that its       *)
(* variant of InstrKind has, and nothing exceeds ParseLimits.              *)
RoundTrip ==
  /\ level = "error" => source = EmptyModule
  /\ level = "module" /\ Peek(p) = Eof /\ source # EmptyModule => Canon(p.mod) = Canon(source)
  /\ WithinLimits
  /\ level # "error" => \A k \in DOMAIN p.mod.functions :
       \A i \in DOMAIN p.mod.functions[k].instrs : Fits(p.mod.functions[k].instrs[i])

(* Advances: every step either uses up tokens or comes nearer to a step    *)
(* that does, so that the parser ends on every text; in particular it does *)
(* not take up a complete block again for what follows it (the comment in  *)
(* parse_block, "Guard against a no-progress loop").                       *)
Rank == CASE level = "error" -> 0
          [] level = "block" /\ ~BlockEnds(p) -> 1
          [] level = "body" -> 2
          [] level = "block" /\ BlockEnds(p) -> 3
          [] OTHER -> 4
Advances == \/ p'.at > p.at
            \/ p'.at = p.at /\ Rank' < Rank
            \/ reread' # reread
=============================================================================
