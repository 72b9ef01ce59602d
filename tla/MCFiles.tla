------------------------------ MODULE MCFiles ------------------------------
(***************************************************************************)
(* Modules and texts for the parser: one module for every kind of          *)
(* computation, one for every kind of branch, texts in forms that the      *)
(* printer does not write, and modules to link with.                       *)
(***************************************************************************)
EXTENDS Files

I(op, ty, vals) == [Instr(op) EXCEPT !.ty = ty, !.vals = vals]
As(name, i) == [i EXCEPT !.name = name]
With(words, i) == [i EXCEPT !.words = words]
Choose(choice, i) == [i EXCEPT !.choice = choice]
Types(types, i) == [i EXCEPT !.types = types]
To(blks, i) == [i EXCEPT !.blks = blks]
Nums(nums, i) == [i EXCEPT !.nums = nums]
Md(md, i) == [i EXCEPT !.md = md]

(* The function whose blocks are <<name, instructions>>, the last of which *)
(* is the terminator.                                                      *)
Make(name, ret, args, linkage, blocks) ==
  LET f == Function(name, FnType(ret, [k \in DOMAIN args |-> args[k].ty], FALSE), args, FALSE, linkage, FALSE)
      before == [b \in DOMAIN blocks |-> FoldLeftDomain(LAMBDA n, k : IF k < b THEN n + Len(blocks[k][2]) ELSE n, 0, blocks)]
  IN  [f EXCEPT !.instrs = FlattenSeq([b \in DOMAIN blocks |-> blocks[b][2]]),
                !.blocks = [b \in DOMAIN blocks |->
                   LET n == Len(blocks[b][2])
                   IN  [name |-> blocks[b][1], body |-> [k \in 1..(n - 1) |-> before[b] + k],
                        term |-> before[b] + n]]]
Declare(name, ret, params, variadic) ==
  Function(name, FnType(ret, params, variadic), [k \in DOMAIN params |-> [name |-> "", ty |-> params[k]]],
           TRUE, "external", FALSE)

A(k) == OfArg(k)
V(k) == OfInstr(k)
C(n) == OfConst(ConstInt(I32, n))
Double == Plain("double")
Pair == Struct(<<I32, Array(2, I32)>>, FALSE)
Lanes == Vector(2, I32, FALSE)
Param(name, ty) == [name |-> name, ty |-> ty]

Compute ==
  Make("compute", I32,
       <<Param("a", I32), Param("d", Double), Param("q", Ptr), Param("s", Pair), Param("w", Lanes)>>, "internal",
  <<<<"entry",
   <<As("x", Md(<<<<"dbg", Words(<<"!">>) \o <<<<"num", 0>>>>>>>>, With({"nuw", "nsw"}, I("add", I32, <<A(1), C(1)>>)))),
     With({"exact"}, I("udiv", I32, <<V(1), C(3)>>)),
     I("and", I32, <<V(2), OfConst(Const("undef", I32, <<>>))>>),
     Choose(<<"slt">>, I("icmp", I1, <<V(3), C(-1)>>)),
     With({"fast"}, I("fadd", Double, <<A(2), OfConst(Const("float", Double, <<"f64", 1>>))>>)),
     As("c", Choose(<<"olt">>, With({"nnan", "arcp"}, I("fcmp", I1, <<V(5), A(2)>>)))),
     I("fneg", Double, <<V(5)>>),
     Types(<<I64>>, I("zext", I64, <<V(3)>>)),
     I("freeze", I64, <<V(8)>>),
     I("select", I32, <<V(4), V(1), V(2)>>),
     Types(<<I32>>, Nums(<<4>>, I("alloca", Ptr, <<>>))),
     Types(<<I32>>, I("alloca", Ptr, <<A(1)>>)),
     Types(<<I32>>, With({"volatile"}, Nums(<<4>>, I("load", I32, <<V(11)>>)))),
     I("store", Void, <<V(13), V(12)>>),
     Types(<<Named("T")>>, With({"inbounds"}, I("getelementptr", Ptr, <<A(3), C(0), C(1)>>))),
     Choose(<<"seq_cst">>, I("fence", Void, <<>>)),
     Choose(<<"acq_rel", "monotonic">>, With({"weak", "volatile"},
        I("cmpxchg", Struct(<<I32, I1>>, FALSE), <<V(15), V(1), V(2)>>))),
     Choose(<<"umax", "acquire">>, With({"volatile"}, I("atomicrmw", I32, <<V(15), V(1)>>))),
     Nums(<<1, 0>>, I("extractvalue", I32, <<A(4)>>)),
     Nums(<<0>>, I("insertvalue", Pair, <<A(4), V(19)>>)),
     I("extractelement", I32, <<A(5), C(0)>>),
     I("insertelement", Lanes, <<A(5), V(21), C(1)>>),
     Nums(<<0, 3>>, I("shufflevector", Lanes, <<V(22), OfConst(Const("poison", Lanes, <<>>))>>)),
     Types(<<FnType(I32, <<I32>>, FALSE)>>, With({"tail"},
        I("call", I32, <<OfConst(GlobalRef("callee")), V(10)>>))),
     [With({"sideeffect"}, I("asm", Void, <<V(24)>>)) EXCEPT !.strs = <<"nop", "r">>],
     As("y", I("add", I32, <<V(24), V(18)>>)),
     Md(<<<<"dbg", Words(<<"!">>) \o <<<<"num", 1>>>>>>>>, I("ret", Void, <<V(26)>>))>>>>>>)

Flow ==
  Make("flow", Void, <<Param("n", I32), Param("f", Ptr)>>, "external",
  <<<<"entry", <<I("add", I32, <<A(1), C(1)>>), To(<<2>>, I("br", Void, <<>>))>>>>,
    <<"loop", <<Types(<<I32>>, To(<<1, 3>>, As("i", I("phi", I32, <<V(1), V(5)>>)))),
                To(<<4, 3, 5>>, I("switch", Void, <<V(3), C(0), C(1)>>))>>>>,
    <<"next", <<I("sub", I32, <<V(3), C(1)>>),
                Choose(<<"eq">>, I("icmp", I1, <<V(5), C(0)>>)),
                To(<<2, 5>>, I("condbr", Void, <<V(6)>>))>>>>,
    <<"try", <<Types(<<FnType(I32, <<I32>>, FALSE)>>, To(<<5, 6>>, As("r", I("invoke", I32, <<A(2), V(3)>>))))>>>>,
    <<"done", <<I("ret", Void, <<>>)>>>>,
    <<"caught", <<Types(<<Struct(<<Ptr, I32>>, FALSE), Ptr>>, Choose(<<"catch">>, With({"cleanup"},
                    I("landingpad", Struct(<<Ptr, I32>>, FALSE), <<OfConst(Const("null", Ptr, <<>>))>>)))),
                  I("resume", Struct(<<Ptr, I32>>, FALSE), <<V(10)>>)>>>>>>)

(* The pads of a catch and of a cleanup.                                   *)
Funclets ==
  Make("pads", Void, <<>>, "weak_odr",
  <<<<"entry", <<To(<<2, 4>>, With({"none"}, As("cs", I("catchswitch", Ptr, <<>>))))>>>>,
    <<"handler", <<As("cp", I("catchpad", Ptr, <<V(1), C(0), C(1)>>)),
                   To(<<3>>, I("catchret", Ptr, <<V(2)>>))>>>>,
    <<"out", <<I("unreachable", Void, <<>>)>>>>,
    <<"clean", <<As("cl", With({"none"}, I("cleanuppad", Ptr, <<>>))),
                 With({"caller"}, I("cleanupret", Ptr, <<V(5)>>))>>>>>>)

Library ==
  [EmptyModule EXCEPT !.file = <<"a.ll">>, !.layout = <<"e-m:e">>, !.triple = <<"x86_64">>,
     !.types = <<<<"T", Struct(<<I32, Ptr>>, FALSE)>>>>,
     !.globals = <<[name |-> "g", ty |-> Array(2, I32), constant |-> TRUE, linkage |-> "private",
                    init |-> <<Const("elements", Array(2, I32), <<ConstInt(I32, 1), ConstInt(I32, 2)>>)>>]>>,
     !.functions = <<Declare("callee", I32, <<I32>>, TRUE), Compute, [Flow EXCEPT !.strictfp = TRUE]>>,
     !.named = <<<<"llvm.dbg.cu", Words(<<"!", "{", "!">>) \o <<<<"num", 0>>>> \o Words(<<"}">>)>>>>,
     !.nodes = <<<<0, <<Word("distinct"), Word("!"), Word("DIFile"), Word("("), Word(")")>>>>,
                 <<1, Words(<<"!", "{", "}">>)>>>>]
Handlers == [EmptyModule EXCEPT !.functions = <<Funclets>>,
     !.globals = <<[name |-> "s", ty |-> Struct(<<I32, Ptr>>, FALSE), constant |-> FALSE, linkage |-> "external",
                    init |-> <<Const("fields", Struct(<<I32, Ptr>>, FALSE),
                       <<ConstInt(I32, 7), Const("expr", Ptr, [op |-> "inttoptr", inbounds |-> FALSE, base |-> Ptr,
                                                               operands |-> <<ConstInt(I64, 1)>>])>>)>>]>>]

-----------------------------------------------------------------------------
L(name) == <<<<"%", name>>>>
G(name) == <<<<"@", name>>>>
N(n) == <<<<"num", n>>>>
B(n) == <<<<"i", n>>>>
W(ws) == Words(ws)

(* No label, slots by number, a phi before the value it merges, constant   *)
(* expressions, and attributes wherever they may be.                       *)
Old ==
  W(<<"attributes", "#">>) \o N(0) \o W(<<"=", "{", "nounwind", "}">>)
  \o G("h") \o W(<<"=", "internal", "unnamed_addr", "addrspace", "(">>) \o N(1) \o W(<<")", "global">>)
  \o B(32) \o N(5) \o W(<<",", "align">>) \o N(4) \o W(<<",", "section">>) \o <<<<"str", ".data">>>>
  \o W(<<",", "comdat", "(", "c", ")", "#">>) \o N(0)
  \o W(<<"define", "dso_local">>) \o B(32) \o G("old") \o W(<<"(">>)
  \o B(32) \o W(<<"noundef", "range", "(">>) \o B(32) \o N(0) \o W(<<")">>) \o L("n") \o W(<<",", "...", ")">>)
  \o W(<<"nounwind", "personality", "ptr">>) \o G("pf") \o W(<<"strictfp", "#">>) \o N(0) \o W(<<"{">>)
  \o N(0) \o W(<<"=", "load">>) \o B(32) \o W(<<",", "ptr", "getelementptr", "inbounds", "(">>) \o B(32)
  \o W(<<",", "ptr">>) \o G("h") \o W(<<",">>) \o B(32) \o N(1) \o W(<<")", "br", "label">>) \o L("1")
  \o N(1) \o W(<<":">>)
  \o L("p") \o W(<<"=", "phi">>) \o B(32) \o W(<<"[">>) \o L("0") \o W(<<",">>) \o L("entry") \o W(<<"]", ",", "[">>)
  \o L("m") \o W(<<",">>) \o L("1") \o W(<<"]">>)
  \o L("m") \o W(<<"=", "tail", "call", "fast">>) \o B(32) \o G("old") \o W(<<"(">>) \o B(32) \o W(<<"noundef">>) \o L("p")
  \o W(<<",", "...", ")", "br">>) \o B(1) \o W(<<"true", ",", "label">>) \o L("1") \o W(<<",", "label">>) \o L("z")
  \o W(<<"z", ":", "ret">>) \o B(32) \o L("m") \o W(<<"}">>)

(* A type deeper than the limit, and more blocks than the limit.           *)
Deep == W(<<"declare", "void">>) \o G("deep") \o W(<<"(">>)
        \o FlattenSeq([k \in 1..4 |-> W(<<"[">>) \o N(2) \o W(<<"x">>)]) \o B(8) \o W(<<"]", "]", "]", "]", ")">>)
Wide == W(<<"define", "void">>) \o G("wide") \o W(<<"(", ")", "{", "switch">>) \o B(32) \o N(0) \o W(<<",", "label">>)
        \o L("b0") \o W(<<"[">>)
        \o FlattenSeq([k \in 1..9 |-> B(32) \o N(k) \o W(<<",", "label">>) \o L("b" \o ToString(k))])
        \o W(<<"]", "}">>)
Many == FlattenSeq([k \in 1..4 |-> W(<<"declare", "void">>) \o G("d" \o ToString(k)) \o W(<<"(", ")">>)])
(* Instructions from constant expressions count as well.                   *)
Long == W(<<"define", "void">>) \o G("long") \o W(<<"(", ")", "{">>)
        \o FlattenSeq([k \in 1..15 |-> W(<<"store">>) \o B(8) \o W(<<"trunc", "(">>) \o B(32) \o N(k) \o W(<<"to">>) \o B(8)
                                         \o W(<<")", ",", "ptr">>) \o G("h")]) \o W(<<"}">>)
(* What is left after a block that is complete.                            *)
Stray == W(<<"define", "void">>) \o G("stray") \o W(<<"(", ")", "{", "ret", "void">>) \o L("x") \o W(<<"}">>)
(* A name that is never defined, and a text that stops.                    *)
Undefined == W(<<"define", "void">>) \o G("undefined") \o W(<<"(", ")", "{">>) \o L("p") \o W(<<"=", "phi">>) \o B(32)
             \o W(<<"[">>) \o L("q") \o W(<<",">>) \o L("entry") \o W(<<"]", "ret", "void", "}">>)
Open_ == W(<<"define", "void">>) \o G("open") \o W(<<"(", ")", "{", "ret", "void">>)
Top == W(<<"ret", "void">>)
Odd == {<<>>, Old, Deep, Wide, Many, Long, Stray, Undefined, Open_, Top}

(* Two functions with large frames, and two tables that point to them, to  *)
(* a function elsewhere and to elements of one another.                    *)
Frame(name, extra) ==
  Make(name, Void, <<>>, "external",
  <<<<"entry", <<Types(<<Array(100, Array(100, IntTy(8)))>>, I("alloca", Ptr, <<>>))>> \o extra
               \o <<Types(<<I32>>, I("alloca", Ptr, <<>>)), I("ret", Void, <<>>)>>>>>>)
Row == Struct(<<I32, Ptr>>, FALSE)
Table == Array(2, Row)
Leading == Struct(<<IntTy(16), Ptr, Array(2, IntTy(16)), Struct(<<IntTy(8), I64>>, FALSE)>>, FALSE)
RowConst(n, target) == Const("fields", Row, <<ConstInt(I32, n), target>>)
Element(base, name, path) ==
  Const("expr", Ptr, [op |-> "getelementptr", inbounds |-> TRUE, base |-> base,
                      operands |-> <<GlobalRef(name)>> \o [k \in 1..(Len(path) + 1) |-> ConstInt(I32, (<<0>> \o path)[k])]])
Short(n) == ConstInt(IntTy(16), n)
LeadingConst(target) ==
  Const("fields", Leading, <<Short(20), target, Const("elements", Array(2, IntTy(16)), <<Short(21), Short(22)>>),
                          Const("fields", Leading[2][4], <<ConstInt(IntTy(8), 5), ConstInt(I64, 6)>>)>>)
Variable(name, ty, constant, init) ==
  [name |-> name, ty |-> ty, constant |-> constant, linkage |-> IF constant THEN "private" ELSE "external", init |-> <<init>>]
Program ==
  [EmptyModule EXCEPT !.functions = <<Frame("large", <<>>), Declare("elsewhere", Void, <<>>, FALSE),
                                      Frame("larger", <<I("add", I32, <<C(1), C(2)>>)>>)>>,
     !.globals = <<Variable("head", Leading, TRUE, LeadingConst(Element(Table, "table", <<1, 0>>))),
                   Variable("flag", IntTy(8), FALSE, ConstInt(IntTy(8), 1)),
                   Variable("table", Table, FALSE,
                     Const("elements", Table, <<RowConst(7, GlobalRef("larger")), RowConst(8, Element(Leading, "head", <<2, 1>>))>>)),
                   Variable("last", Row, FALSE, RowConst(9, GlobalRef("elsewhere")))>>]

MCModules == {Library, Handlers, Program}

(* A module that defines what Library declares, with constants of its own, *)
(* and one that defines what Library defines.                              *)
Callee == [EmptyModule EXCEPT !.functions =
  <<Make("callee", I32, <<Param("a", I32)>>, "external",
         <<<<"entry", <<I("mul", I32, <<A(1), C(7)>>), I("ret", Void, <<V(1)>>)>>>>>>),
    Declare("flow", Void, <<I32, Ptr>>, FALSE)>>,
  !.globals = <<[name |-> "g", ty |-> I64, constant |-> FALSE, linkage |-> "external", init |-> <<>>]>>]
Again == [EmptyModule EXCEPT !.functions = <<Make("flow", Void, <<>>, "external", <<<<"entry", <<I("ret", Void, <<>>)>>>>>>)>>]
(* A struct that contains a type which nothing before it mentions.         *)
Late == [EmptyModule EXCEPT !.types = <<<<"L", Struct(<<I32, Array(2, Ptr)>>, FALSE)>>>>,
                            !.functions = <<Declare("l", Void, <<Named("L")>>, FALSE)>>]
(* Types that are rare, an integer of two words, and a global by its id.   *)
Wide_ == [EmptyModule EXCEPT
  !.globals = <<[name |-> "i", ty |-> IntTy(128), constant |-> TRUE, linkage |-> "internal",
                 init |-> <<Const("wide", IntTy(128), <<1, 2>>)>>]>>,
  !.functions = <<Declare("w", Void, <<Vector(4, I32, TRUE), Struct(<<I1, Ptr>>, TRUE), Plain("fp128")>>, TRUE),
                  Make("pointer", Ptr, <<>>, "external", <<<<"entry", <<I("ret", Void, <<OfGlobal(1)>>)>>>>>>)>>]
MCCompanions == {<<Callee>>, <<Callee, Again>>, <<Wide_, Callee>>, <<Late>>}

-----------------------------------------------------------------------------
(* What LLVM writes: every computation that is read, constants of every    *)
(* kind, and a loop.                                                       *)
DoubleConst == Const("float", Double, 3)
AddressOf == Const("expr", Ptr, [op |-> "getelementptr", inbounds |-> TRUE, base |-> I32,
                               operands |-> <<GlobalRef("g"), ConstInt(I32, 1)>>])
AddressNumber == Const("expr", I64, [op |-> "ptrtoint", inbounds |-> FALSE, base |-> I64, operands |-> <<AddressOf>>])
PairConst == Const("fields", Pair, <<ConstInt(I32, -2), Const("zeroinitializer", Array(2, I32), <<>>)>>)
Imported ==
  Make("imported", I32, <<Param("a", I32), Param("d", Double), Param("q", Ptr), Param("s", Pair)>>, "internal",
  <<<<"0",
   <<As("x", With({"nuw", "nsw"}, I("add", I32, <<A(1), C(1)>>))),
     With({"exact"}, I("udiv", I32, <<V(1), C(-3)>>)),
     I("xor", I32, <<V(2), OfConst(Const("undef", I32, <<>>))>>),
     Choose(<<"slt">>, I("icmp", I1, <<V(3), OfConst(Const("poison", I32, <<>>))>>)),
     With({"fast"}, I("fadd", Double, <<A(2), OfConst(DoubleConst)>>)),
     Choose(<<"une">>, I("fcmp", I1, <<V(5), A(2)>>)),
     I("fneg", Double, <<V(5)>>),
     Types(<<I64>>, I("zext", I64, <<V(3)>>)),
     I("freeze", I64, <<V(8)>>),
     I("select", I32, <<V(4), V(1), V(2)>>),
     Types(<<I32>>, Nums(<<4>>, I("alloca", Ptr, <<>>))),
     I("store", Void, <<V(10), V(11)>>),
     Types(<<I32>>, With({"volatile"}, Nums(<<4>>, I("load", I32, <<V(11)>>)))),
     Types(<<Named("T")>>, With({"inbounds"}, I("getelementptr", Ptr, <<A(3), C(0), C(1)>>))),
     Choose(<<"seq_cst">>, I("fence", Void, <<>>)),
     Nums(<<1, 0>>, I("extractvalue", I32, <<A(4)>>)),
     Nums(<<0>>, I("insertvalue", Pair, <<OfConst(PairConst), V(16)>>)),
     I("add", I64, <<V(9), OfConst(AddressNumber)>>),
     Types(<<FnType(Void, <<Ptr, Ptr>>, FALSE)>>, With({"tail"},
        I("call", Void, <<OfConst(GlobalRef("take")), V(14), OfConst(Const("null", Ptr, <<>>))>>))),
     I("store", Void, <<V(18), OfConst(AddressOf)>>),
     I("freeze", IntTy(128), <<OfConst(Const("wide", IntTy(128), <<1, 2>>))>>),
     I("ret", Void, <<V(13)>>)>>>>>>)
LoopingFn ==
  Make("looping", Void, <<Param("n", I32)>>, "external",
  <<<<"0", <<I("add", I32, <<A(1), C(1)>>), To(<<2>>, I("br", Void, <<>>))>>>>,
    <<"1", <<Types(<<I32>>, To(<<1, 3>>, I("phi", I32, <<V(1), V(5)>>))),
             To(<<4, 3>>, I("switch", Void, <<V(3), C(0)>>))>>>>,
    <<"2", <<I("sub", I32, <<V(3), C(1)>>),
             Choose(<<"eq">>, I("icmp", I1, <<V(5), C(0)>>)),
             To(<<2, 4>>, I("condbr", Void, <<V(6)>>))>>>>,
    <<"3", <<I("ret", Void, <<>>)>>>>>>)
(* A block that uses what a later one defines.                             *)
Backwards ==
  Make("backwards", I32, <<>>, "weak",
  <<<<"0", <<To(<<3>>, I("br", Void, <<>>))>>>>,
    <<"1", <<I("ret", Void, <<V(3)>>)>>>>,
    <<"2", <<I("add", I32, <<C(1), C(2)>>), To(<<2>>, I("br", Void, <<>>))>>>>>>)
TakeFn == Declare("take", Void, <<Ptr, Ptr>>, FALSE)
Clang == [EmptyModule EXCEPT !.types = Library.types, !.functions = <<Imported, LoopingFn, TakeFn>>,
            !.globals = <<[name |-> "g", ty |-> Array(2, I32), constant |-> TRUE, linkage |-> "private", init |-> <<>>]>>]
LlvmModules == {Clang, [Clang EXCEPT !.functions = <<LoopingFn, TakeFn, Imported>>], [Clang EXCEPT !.globals = Library.globals],
                [Clang EXCEPT !.functions = <<Backwards, TakeFn>>]}
Layout(names, abbreviations) == [names |-> names, abbreviations |-> abbreviations]
MCLlvmFiles ==
  {[mod |-> m, layout |-> Layout("first", "none"), cut |-> 0] : m \in LlvmModules}
  \cup {[mod |-> Clang, layout |-> l, cut |-> 0] :
         l \in {Layout("last", "none"), Layout("first", "before"), Layout("first", "after"), Layout("last", "for all")}}
  \cup {[mod |-> Clang, layout |-> Layout("first", "none"), cut |-> n] : n \in {3, 4, 8, 13, 60}}
-----------------------------------------------------------------------------
(* What is asked of the builder: every computation, branches whose blocks  *)
(* may be filled in several orders, and pads.  No catchpad: the builder    *)
(* gives its catchswitch no name, and what is printed cannot be parsed.    *)
Requests ==
  Make("built", I32,
       <<Param("a", I32), Param("d", Double), Param("q", Ptr), Param("s", Pair), Param("w", Lanes)>>, "external",
  <<<<"entry",
   <<As("x", With({"nsw"}, I("add", I32, <<A(1), C(1)>>))),
     I("udiv", I32, <<V(1), C(3)>>),
     I("xor", I32, <<V(2), OfConst(Const("undef", I32, <<>>))>>),
     Choose(<<"slt">>, I("icmp", I1, <<V(3), C(-1)>>)),
     I("fadd", Double, <<A(2), OfConst(Const("float", Double, <<"f64", 1>>))>>),
     Choose(<<"olt">>, I("fcmp", I1, <<V(5), A(2)>>)),
     I("fneg", Double, <<V(5)>>),
     Types(<<I64>>, I("zext", I64, <<V(3)>>)),
     I("freeze", I64, <<V(8)>>),
     I("select", I32, <<V(4), V(1), V(2)>>),
     Types(<<I32>>, Nums(<<4>>, I("alloca", Ptr, <<>>))),
     Types(<<I32>>, I("load", I32, <<V(11)>>)),
     I("store", Void, <<V(12), V(11)>>),
     Types(<<Named("T")>>, With({"inbounds"}, I("getelementptr", Ptr, <<A(3), C(0), C(1)>>))),
     Choose(<<"seq_cst">>, I("fence", Void, <<>>)),
     Choose(<<"acq_rel", "monotonic">>, With({"weak"}, I("cmpxchg", Struct(<<I32, I1>>, FALSE), <<V(14), V(1), V(2)>>))),
     Choose(<<"umax", "acquire">>, I("atomicrmw", I32, <<V(14), V(1)>>)),
     Nums(<<1, 0>>, I("extractvalue", I32, <<A(4)>>)),
     Nums(<<0>>, I("insertvalue", Pair, <<A(4), V(18)>>)),
     I("extractelement", I32, <<A(5), C(0)>>),
     I("insertelement", Lanes, <<A(5), V(20), C(1)>>),
     Nums(<<0, 3>>, I("shufflevector", Lanes, <<V(21), A(5)>>)),
     Types(<<FnType(I32, <<I32>>, FALSE)>>, I("call", I32, <<OfConst(GlobalRef("callee")), V(10)>>)),
     [With({"sideeffect"}, I("asm", Void, <<V(23)>>)) EXCEPT !.strs = <<"nop", "r">>],
     I("ret", Void, <<V(23)>>)>>>>>>)
Diamond ==
  Make("diamond", I32, <<Param("n", I32)>>, "internal",
  <<<<"entry", <<Choose(<<"eq">>, I("icmp", I1, <<A(1), C(0)>>)), To(<<2, 3>>, I("condbr", Void, <<V(1)>>))>>>>,
    <<"then", <<I("add", I32, <<A(1), C(1)>>), To(<<4>>, I("br", Void, <<>>))>>>>,
    <<"else", <<As("e", I("mul", I32, <<A(1), A(1)>>)), To(<<4, 5>>, I("switch", Void, <<A(1), C(7)>>))>>>>,
    <<"join", <<Types(<<I32>>, To(<<2, 3>>, I("phi", I32, <<V(3), V(5)>>))), I("ret", Void, <<V(7)>>)>>>>,
    <<"never", <<I("unreachable", Void, <<>>)>>>>>>)
Pads_ ==
  Make("pads", Void, <<>>, "external",
  <<<<"entry", <<To(<<3>>, With({"none", "caller"}, I("catchswitch", Ptr, <<>>)))>>>>,
    <<"clean", <<With({"none"}, I("cleanuppad", Ptr, <<>>)), I("ret", Void, <<>>)>>>>,
    <<"handler", <<I("unreachable", Void, <<>>)>>>>>>)
(* Two results that nothing needs, behind one another.                     *)
Spare ==
  Make("spare", Void, <<Param("a", I32), Param("q", Ptr)>>, "external",
  <<<<"entry", <<I("sub", I32, <<A(1), C(1)>>), I("xor", I32, <<V(1), A(1)>>), I("store", Void, <<V(2), A(2)>>),
                 To(<<2>>, I("br", Void, <<>>))>>>>,
    <<"exit", <<I("ret", Void, <<>>)>>>>>>)
MCScripts ==
  {[EmptyModule EXCEPT !.types = Library.types, !.functions = <<Requests, Declare("callee", I32, <<I32>>, FALSE)>>],
   [EmptyModule EXCEPT !.functions = <<Declare("d", Void, <<I32>>, FALSE), Diamond>>],
   [EmptyModule EXCEPT !.functions = <<Pads_>>], [EmptyModule EXCEPT !.functions = <<Spare>>]}
MCReducible == {"spare", "d", "built", "callee"}
MCCases == {"mul", "phi", "switch", "store", "call", "add", "landingpad", "fence"}
(* Modules for the JIT: the second defines a function of the first again.  *)
Brief(name, n) == Make(name, Void, <<>>, "external",
  <<<<"entry", [k \in 1..n |-> I("add", I32, <<C(k), C(n)>>)] \o <<I("ret", Void, <<>>)>>>>>>)
MCJitModules ==
  {[EmptyModule EXCEPT !.functions = <<Brief("one", 2), Declare("three", Void, <<>>, FALSE), Brief("two", 1)>>],
   [EmptyModule EXCEPT !.functions = <<Brief("three", 3), Brief("one", 0)>>],
   [EmptyModule EXCEPT !.functions = <<Declare("one", Void, <<>>, FALSE)>>]}
MCCompiled == {"large", "callee", "pads", "d1"}
MCNone == {}
MCNoLlvmFiles == {}
MCNoCuts == {0}
MCNoTexts == {}
MCCuts == {0, 1, 25, 200}
=============================================================================
