------------------------------ MODULE Printer ------------------------------
(***************************************************************************)
(* The text that a module is printed as (llvm-ir, printer.rs), as a        *)
(* sequence of lexemes: <<"word", w>> a word or punctuation, <<"%", name>> *)
(* and <<"@", name>> names, <<"i", n>> the word iN, <<"num", n>> a decimal *)
(* number, <<"hex", bits>> a hexadecimal one and <<"str", s>> a string.    *)
(* What an instruction prints is a grammar: a sequence of slots, each of   *)
(* which writes the next type, operand, block or number of the record.     *)
(***************************************************************************)
EXTENDS Syntax, TLC

Word(w) == <<"word", w>>
Words(ws) == [k \in DOMAIN ws |-> Word(ws[k])]
Local(name) == <<"%", name>>

(* The pieces one after the other with a comma between two.                *)
Commas(pieces) ==
  FoldLeftDomain(LAMBDA out, k : out \o (IF k = 1 THEN <<>> ELSE Words(<<",">>)) \o pieces[k],
                 <<>>, pieces)

(* write_type, write_struct_body.                                          *)
RECURSIVE TypeText(_)
TypeText(t) ==
  LET all(ts) == Commas([k \in DOMAIN ts |-> TypeText(ts[k])])
  IN  CASE t[1] = "int"    -> <<<<"i", t[2]>>>>
        [] t[1] = "array"  -> Words(<<"[">>) \o <<<<"num", t[2]>>, Word("x")>> \o TypeText(t[3]) \o Words(<<"]">>)
        [] t[1] = "vector" -> Words(IF t[4] THEN <<"<", "vscale", "x">> ELSE <<"<">>)
                                \o <<<<"num", t[2]>>, Word("x")>> \o TypeText(t[3]) \o Words(<<">">>)
        [] t[1] = "struct" -> Words(IF t[3] THEN <<"<", "{">> ELSE <<"{">>) \o all(t[2])
                                \o Words(IF t[3] THEN <<"}", ">">> ELSE <<"}">>)
        [] t[1] = "named"  -> <<Local(t[2])>>
        [] t[1] = "fn"     -> TypeText(t[2]) \o Words(<<"(">>) \o all(t[3])
                                \o Words((IF ~t[4] THEN <<>> ELSE IF t[3] = <<>> THEN <<"...">> ELSE <<",", "...">>) \o <<")">>)
        [] OTHER           -> Words(t)

(* The bits of a float are <<"f32", x>> or <<"f64", x>>: the encoding of   *)
(* the number x in the low half of the word, or in all of it.  A double    *)
(* read as a single is what its low half encodes: 0, for the short numbers *)
(* used here.                                                              *)
AsSingle(bits) == IF bits[1] = "f32" THEN bits[2] ELSE 0
FloatText(ty, bits) == IF ty = Plain("float") THEN <<"hex", <<"f64", AsSingle(bits)>>>>
                       ELSE <<"hex", bits>>

(* "{}" as i64.                                                            *)
Signed(n) == IF n >= Modulus \div 2 THEN n - Modulus ELSE n

(* write_const_value, write_const_with_type and write_const_expr.  The     *)
(* data of an expression is its opcode, inbounds, base type and operands.  *)
RECURSIVE ConstText(_)
ConstText(c) ==
  LET typed(d) == TypeText(d[2]) \o ConstText(d)
      all(cs) == Commas([k \in DOMAIN cs |-> typed(cs[k])])
  IN  CASE c[1] = "int"      -> <<<<"num", Signed(c[3])>>>>
        [] c[1] = "wide"     -> <<<<"hex", c[3]>>>>
        [] c[1] = "float"    -> <<FloatText(c[2], c[3])>>
        [] c[1] \in Scalars  -> Words(<<c[1]>>)
        [] c[1] = "elements" -> Words(<<"[">>) \o all(c[3]) \o Words(<<"]">>)
        [] c[1] = "fields"   -> Words(<<"{">>) \o all(c[3]) \o Words(<<"}">>)
        [] c[1] = "lanes"    -> Words(<<"<">>) \o all(c[3]) \o Words(<<">">>)
        [] c[1] = "ref"      -> <<<<"@", c[3]>>>>
        [] c[1] = "expr" /\ c[3].op = "getelementptr" ->
             Words(<<"getelementptr">>) \o Words(IF c[3].inbounds THEN <<"inbounds">> ELSE <<>>)
               \o Words(<<"(">>) \o TypeText(c[3].base) \o Words(<<",">>) \o all(c[3].operands) \o Words(<<")">>)
        [] c[1] = "expr" /\ c[3].op # "getelementptr" ->
             Words(<<c[3].op, "(">>) \o all(c[3].operands) \o Words(<<"to">>) \o TypeText(c[2]) \o Words(<<")">>)

(* write_value: an instruction without a name goes by its id.              *)
NameOf(f, i) == IF f.instrs[i].name # "" THEN f.instrs[i].name ELSE "v" \o ToString(i - 1)
ValueText(f, v) ==
  CASE v[1] = "instr" -> <<Local(NameOf(f, v[2]))>>
    [] v[1] = "arg" -> <<Local(IF f.args[v[2]].name # "" THEN f.args[v[2]].name ELSE ToString(v[2] - 1))>>
    [] v[1] = "const" -> ConstText(v[2])

-----------------------------------------------------------------------------
(* A writer: the text so far, and what is left of the record.              *)
Writer(f, i) == [out |-> <<>>, f |-> f, i |-> i]
Put(w, lexemes) == [w EXCEPT !.out = @ \o lexemes]
Take(w, field) == [w EXCEPT !.i[field] = Tail(@)]

(* fmf_str writes "fast" alone; the other flags are written in the order   *)
(* of their fields.                                                        *)
FlagOrder == <<"nuw", "nsw", "exact", "nnan", "ninf", "nsz", "arcp", "contract", "afn",
               "reassoc", "tail", "musttail", "notail", "inbounds", "weak", "volatile", "cleanup", "sideeffect", "alignstack">>
FlagText(i, words) ==
  IF "fast" \in words \cap i.words THEN <<"fast">>
  ELSE SelectSeq(FlagOrder, LAMBDA w : w \in words \cap i.words)

(* Each(g) writes g once for every operand left, Listed(g) with commas     *)
(* between, AlsoIf(word, yes, no) by whether the word is set.              *)
Each(g) == <<"each", g>>
Listed(g) == <<"listed", g>>
AlsoIf(word, yes, no) == <<"also", word, yes, no>>
Numbers == <<"numbers">>           \* ", n" for every number
Align == <<"align">>               \* ", align n" when there is one
Returns == <<"ret">>               \* the return type of a function type
Own == <<"own">>                   \* the type of the result
Labels(n) == <<"labels", n>>       \* "label %b" for every block but the last n
Mask == <<"mask">>                 \* "<n x i32> <i32 a, ...>"

RECURSIVE Write(_, _)
WriteAll(w, g) == FoldLeft(LAMBDA x, slot : Write(x, slot), w, g)
Write(w, slot) ==
  LET i == w.i
  IN  CASE slot[1] = "word"    -> Put(w, <<slot>>)
        [] slot[1] = "flags"   -> Put(w, Words(FlagText(i, slot[2])))
        [] slot[1] = "one"     -> Take(Put(w, Words(<<i.choice[1]>>)), "choice")
        [] slot[1] = "type"    -> Take(Put(w, TypeText(i.types[1])), "types")
        [] slot[1] = "ret"     -> Take(Put(w, TypeText(i.types[1][2])), "types")
        [] slot[1] = "own"     -> Put(w, TypeText(i.ty))
        [] slot[1] = "value"   -> Take(Put(w, ValueText(w.f, i.vals[1])), "vals")
        [] slot[1] = "typed value" ->
             Take(Put(w, TypeText(TypeOf(w.f, i.vals[1])) \o ValueText(w.f, i.vals[1])), "vals")
        [] slot[1] = "block"   -> Take(Put(w, <<Local(w.f.blocks[i.blks[1]].name)>>), "blks")
        [] slot[1] = "string"  -> Take(Put(w, <<<<"str", i.strs[1]>>>>), "strs")
        [] slot[1] = "number"  -> Take(Put(w, <<<<"num", i.nums[1]>>>>), "nums")
        [] slot[1] = "numbers" -> Put(w, FlattenSeq([k \in DOMAIN i.nums |-> <<Word(","), <<"num", i.nums[k]>>>>]))
        [] slot[1] = "align"   -> IF i.nums = <<>> THEN w
                                  ELSE Put(w, <<Word(","), Word("align"), <<"num", i.nums[1]>>>>)
        [] slot[1] = "mask"    -> Put(w, <<Word("<"), <<"num", Len(i.nums)>>, Word("x"), <<"i", 32>>, Word(">"), Word("<")>>
                                    \o Commas([k \in DOMAIN i.nums |-> <<<<"i", 32>>, <<"num", i.nums[k]>>>>]) \o Words(<<">">>))
        [] slot[1] = "each"    -> IF i.vals = <<>> THEN w ELSE Write(WriteAll(w, slot[2]), slot)
        [] slot[1] = "labels"  ->
             LET n == Len(i.blks) - slot[2]
             IN  Put([w EXCEPT !.i.blks = SubSeq(@, n + 1, Len(@))],
                     Commas([k \in 1..n |-> <<Word("label"), Local(w.f.blocks[i.blks[k]].name)>>]))
        [] slot[1] = "listed"  -> IF i.vals = <<>> THEN w
                                  ELSE Write(WriteAll(w, slot[2]), Each(<<K(",")>> \o slot[2]))
        [] slot[1] = "also"    -> WriteAll(w, IF slot[2] \in i.words THEN slot[3] ELSE slot[4])

-----------------------------------------------------------------------------
(* write_instr: what each kind of instruction prints.                      *)
PrintInteger(op) == <<K(op), Flags(WordsOf(op)), TyVal, K(","), Val>>
PrintFloating(op) ==
  CASE op = "icmp" -> <<K(op), One(IntPredicates), TyVal, K(","), Val>>
    [] op = "fcmp" -> <<K(op), Flags(WordsOf(op)), One(FloatPredicates), TyVal, K(","), Val>>
    [] op = "fneg" -> <<K(op), Flags(WordsOf(op)), TyVal>>
    [] OTHER -> <<K(op), Flags(WordsOf(op)), TyVal, K(","), Val>>
PrintCast(op) == IF op = "freeze" THEN <<K(op), TyVal>> ELSE <<K(op), TyVal, K("to"), Ty>>

PrintMemory(op) ==
  CASE op = "alloca" -> <<K(op), Ty, Each(<<K(","), TyVal>>), Align>>
    [] op = "load"   -> <<K(op), Flags({"volatile"}), Ty, K(","), TyVal, Align>>
    [] op = "store"  -> <<K(op), Flags({"volatile"}), TyVal, K(","), TyVal, Align>>
    [] op = "getelementptr" -> <<K(op), Flags({"inbounds"}), Ty, K(","), TyVal, Each(<<K(","), TyVal>>)>>
PrintAtomic(op) ==
  CASE op = "fence"  -> <<K(op), One(Orderings)>>
    [] op = "cmpxchg" -> <<K(op), Flags({"weak", "volatile"}), TyVal, K(","), TyVal, K(","), TyVal,
                           One(Orderings), One(Orderings)>>
    [] op = "atomicrmw" -> <<K(op), Flags({"volatile"}), One(RmwOps), TyVal, K(","), TyVal, One(Orderings)>>

PrintData(op) ==
  CASE op \in {"select", "insertelement"} -> <<K(op), TyVal, K(","), TyVal, K(","), TyVal>>
    [] op = "phi"    -> <<K(op), Ty, Listed(<<K("["), Val, K(","), Blk, K("]")>>)>>
    [] op = "extractvalue" -> <<K(op), TyVal, Numbers>>
    [] op = "insertvalue" -> <<K(op), TyVal, K(","), TyVal, Numbers>>
    [] op = "extractelement" -> <<K(op), TyVal, K(","), TyVal>>
    [] op = "shufflevector" -> <<K(op), TyVal, K(","), TyVal, K(","), Mask>>

PrintCall(op) ==
  CASE op = "call"   -> <<Flags(TailKinds), K("call"), Returns, Val, K("("), Listed(<<TyVal>>), K(")")>>
    [] op = "asm"    -> <<K("call"), Own, K("asm"), Flags(WordsOf("asm")), Str, K(","), Str,
                          K("("), Listed(<<TyVal>>), K(")")>>
    [] op = "invoke" -> <<K("invoke"), Returns, Val, K("("), Listed(<<TyVal>>), K(")"),
                          K("to"), K("label"), Blk, K("unwind"), K("label"), Blk>>
    [] op = "landingpad" -> <<K(op), Ty, Flags({"cleanup"}), Each(<<One({"catch", "filter"}), Ty, Val>>)>>

PrintTerminator(i) ==
  CASE i.op = "ret"    -> IF i.vals = <<>> THEN <<K("ret"), K("void")>> ELSE <<K("ret"), TyVal>>
    [] i.op = "br"     -> <<K("br"), K("label"), Blk>>
    [] i.op = "condbr" -> <<K("br"), TyVal, K(","), K("label"), Blk, K(","), K("label"), Blk>>
    [] i.op = "switch" -> <<K("switch"), TyVal, K(","), K("label"), Blk, K("["),
                            Each(<<TyVal, K(","), K("label"), Blk>>), K("]")>>
    [] i.op = "unreachable" -> <<K("unreachable")>>
    [] i.op = "resume" -> <<K("resume"), TyVal>>

PrintPad(i) ==
  LET parent == AlsoIf("none", <<K("none")>>, <<Val>>)
      unwind == <<K("unwind"), AlsoIf("caller", <<K("to"), K("caller")>>, <<K("label"), Blk>>)>>
      args == <<K("["), Listed(<<TyVal>>), K("]")>>
  IN  CASE i.op = "catchpad"   -> <<K("catchpad"), K("within"), Val>> \o args
        [] i.op = "cleanuppad" -> <<K("cleanuppad"), K("within"), parent>> \o args
        [] i.op = "catchswitch" -> <<K("catchswitch"), K("within"), parent, K("["),
                                     Labels(IF "caller" \in i.words THEN 0 ELSE 1), K("]")>> \o unwind
        [] i.op = "catchret"   -> <<K("catchret"), K("from"), Val, K("to"), K("label"), Blk>>
        [] i.op = "cleanupret" -> <<K("cleanupret"), K("from"), Val>> \o unwind

PrintKind(i) ==
  CASE i.op \in Integer -> PrintInteger(i.op)
    [] i.op \in Floating -> PrintFloating(i.op)
    [] i.op \in Casts \cup {"freeze"} -> PrintCast(i.op)
    [] i.op \in Atomic -> PrintAtomic(i.op)
    [] i.op \in Memory \ Atomic -> PrintMemory(i.op)
    [] i.op \in {"call", "asm", "invoke", "landingpad"} -> PrintCall(i.op)
    [] i.op \in Pads -> PrintPad(i)
    [] i.op \in Terminators \ (Pads \cup {"invoke"}) -> PrintTerminator(i)
    [] OTHER -> PrintData(i.op)

(* The result has a name of its own, or one made from its id unless there  *)
(* is no result; a terminator without a name prints none.                  *)
ResultText(f, id) ==
  LET i == f.instrs[id]
  IN  IF i.name # "" \/ (i.op \notin Terminators /\ i.ty # Void)
      THEN <<Local(NameOf(f, id)), Word("=")>> ELSE <<>>
AttachmentText(md) == FlattenSeq([k \in DOMAIN md |-> Words(<<",", "!", md[k][1]>>) \o md[k][2]])
InstrText(f, id) ==
  ResultText(f, id) \o WriteAll(Writer(f, f.instrs[id]), PrintKind(f.instrs[id])).out
    \o AttachmentText(f.instrs[id].md)

(* write_block, write_function.                                            *)
BlockText(f, b) ==
  Words(<<b.name, ":">>)
    \o FlattenSeq([k \in DOMAIN b.body |-> InstrText(f, b.body[k])])
    \o (IF b.term = 0 THEN <<>> ELSE InstrText(f, b.term))
LinkageText(l) == IF l = "external" THEN <<>> ELSE Words(<<l>>)
ParamText(a) == TypeText(a.ty) \o (IF a.name = "" THEN <<>> ELSE <<Local(a.name)>>)
FunctionText(f) ==
  Words(<<IF f.declaration THEN "declare" ELSE "define">>) \o LinkageText(f.linkage)
    \o TypeText(f.ty[2]) \o <<<<"@", f.name>>, Word("(")>>
    \o Commas([k \in DOMAIN f.args |-> ParamText(f.args[k])]
              \o (IF f.ty[4] THEN <<Words(<<"...">>)>> ELSE <<>>))
    \o Words(<<")">>) \o (IF f.strictfp THEN Words(<<"strictfp">>) ELSE <<>>)
    \o (IF f.declaration THEN <<>>
        ELSE Words(<<"{">>) \o FlattenSeq([b \in DOMAIN f.blocks |-> BlockText(f, f.blocks[b])])
               \o Words(<<"}">>))

(* print_module.  A struct without a body prints as an empty one, a global *)
(* without a value as undef.                                               *)
TypeDefText(d) == <<Local(d[1])>> \o Words(<<"=", "type">>) \o TypeText(d[2])
GlobalText(g) ==
  <<<<"@", g.name>>, Word("=")>> \o LinkageText(g.linkage)
    \o Words(<<IF g.constant THEN "constant" ELSE "global">>) \o TypeText(g.ty)
    \o (IF g.init = <<>> THEN Words(<<"undef">>) ELSE ConstText(g.init[1]))
HeaderText(m) ==
  (IF m.file = <<>> THEN <<>> ELSE Words(<<"source_filename", "=">>) \o <<<<"str", m.file[1]>>>>)
  \o (IF m.layout = <<>> THEN <<>> ELSE Words(<<"target", "datalayout", "=">>) \o <<<<"str", m.layout[1]>>>>)
  \o (IF m.triple = <<>> THEN <<>> ELSE Words(<<"target", "triple", "=">>) \o <<<<"str", m.triple[1]>>>>)
MetadataText(m) ==
  FlattenSeq([k \in DOMAIN m.named |-> Words(<<"!", m.named[k][1], "=">>) \o m.named[k][2]])
  \o FlattenSeq([k \in DOMAIN m.nodes |->
       <<Word("!"), <<"num", m.nodes[k][1]>>, Word("=")>> \o m.nodes[k][2]])
ModuleText(m) ==
  HeaderText(m)
    \o FlattenSeq([k \in DOMAIN m.types |-> TypeDefText(m.types[k])])
    \o FlattenSeq([k \in DOMAIN m.globals |-> GlobalText(m.globals[k])])
    \o FlattenSeq([k \in DOMAIN m.functions |-> FunctionText(m.functions[k])])
    \o MetadataText(m)
=============================================================================
