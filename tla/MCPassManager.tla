---------------------------- MODULE MCPassManager ----------------------------
(* Functions as a front end emits them: two variables, x and y, in slots   *)
(* or in the fields of a struct or the elements of an array, statements on *)
(* them in each block, and a condition on x at the end of a block that     *)
(* branches.                                                               *)
EXTENDS PassManager

(* The shapes: the operator and the targets of each terminator, and the    *)
(* two blocks, after the entry, that have a statement.                     *)
While == [terms |-> <<<<"br", 2>>, <<"condbr", 3, 4>>, <<"br", 2>>, <<"ret">>>>, at |-> <<2, 3>>]
Either == [terms |-> <<<<"condbr", 2, 3>>, <<"br", 4>>, <<"br", 4>>, <<"ret">>>>, at |-> <<2, 3>>]
When == [terms |-> <<<<"condbr", 2, 3>>, <<"br", 3>>, <<"ret">>>>, at |-> <<2, 3>>]
Straight == [terms |-> <<<<"br", 2>>, <<"br", 3>>, <<"ret">>>>, at |-> <<2, 3>>]
Shapes == {
  While, Either, When, Straight,
  [terms |-> <<<<"br", 2>>, <<"condbr", 2, 3>>, <<"ret">>>>, at |-> <<2, 3>>],
  [terms |-> <<<<"br", 3>>, <<"br", 3>>, <<"ret">>>>, at |-> <<2, 3>>],
  [terms |-> <<<<"switch", 3, 2, 3>>, <<"br", 3>>, <<"ret">>>>, at |-> <<2, 3>>],
  [terms |-> <<<<"br", 2>>, <<"condbr", 3, 6>>, <<"condbr", 4, 5>>, <<"br", 5>>, <<"br", 2>>,
               <<"ret">>>>, at |-> <<4, 5>>] }

Prologues == { <<<<"arg", "x">>, <<"set", "y">>>>, <<<<"set", "x">>>>,
               <<<<"arg", "x">>, <<"leak", "x">>>> }
Statements == { <<"skip">>, <<"set", "x">>, <<"inc", "x">>, <<"copy", "x", "y">>,
                <<"copy", "y", "x">>, <<"print", "x">> }

Emit(g, b, i) == [Alloc(g, i) EXCEPT !.blocks[b].body = Append(@, Len(g.pool) + 1)]
EmitTerm(g, b, i) == [Alloc(g, i) EXCEPT !.blocks[b].term = Len(g.pool) + 1]
Newest(g) == Res(Len(g.pool))

Empty(name, args, n) ==
  [name |-> <<name>>, args |-> args, strictfp |-> FALSE, pool |-> <<>>,
   blocks |-> [b \in 1..n |-> [body |-> <<>>, term |-> 0]]]

Field(layout) == IF layout = "struct" THEN "gep" ELSE "index"
Slots2(g, layout) ==
  FoldLeft(LAMBDA h, i : Emit(h, 1, i), g,
           IF layout = "scalars"
           THEN <<Instr("alloca", <<>>, <<>>), Instr("alloca", <<>>, <<>>)>>
           ELSE <<Instr("alloca2", <<>>, <<>>), Instr(Field(layout), <<Res(1), Const(0)>>, <<>>),
                  Instr(Field(layout), <<Res(1), Const(1)>>, <<>>)>>)

Slot(x, layout) == Res((IF x = "x" THEN 1 ELSE 2) + (IF layout = "scalars" THEN 0 ELSE 1))

Load(g, b, x, l) == Emit(g, b, Instr("load", <<Slot(x, l)>>, <<>>))
Store(g, b, v, x, l) == Emit(g, b, Instr("store", <<v, Slot(x, l)>>, <<>>))
Fast(i) == [i EXCEPT !.flags = {"fast"}]
Observe(i) == [i EXCEPT !.flags = {"volatile"}]

(* Both variables are doubled by operations on what was loaded before.     *)
Doubled(g, b, l) ==
  LET n == Len(g.pool)
      loads == Load(Load(g, b, "x", l), b, "y", l)
      sums == Emit(Emit(loads, b, Instr("fadd", <<Res(n + 1), Res(n + 1)>>, <<>>)),
                   b, Instr("fadd", <<Res(n + 2), Res(n + 2)>>, <<>>))
  IN  Store(Store(sums, b, Res(n + 3), "x", l), b, Res(n + 4), "y", l)

(* What a pointer leads to that is null unless x, just loaded, is small.    *)
Followed(g, b, l) ==
  LET n == Len(g.pool)
      add(h, i) == Emit(h, b, i)
  IN  FoldLeft(add, g, <<Instr("ult", <<Res(n), Const(3)>>, <<>>),
                         Instr("select", <<Res(n + 1), Slot("x", l), Null>>, <<>>),
                         Instr("load", <<Res(n + 2)>>, <<>>),
                         Instr("call", <<Fn(0), Res(n + 3)>>, <<>>)>>)

EmitStatement(g, b, s, l) ==
  LET x == Load(g, b, s[2], l)
      assign(h) == Store(h, b, Newest(h), s[2], l)
      with(op, v) == Emit(x, b, Instr(op, <<Newest(x), v>>, <<>>))
  IN  CASE s[1] = "skip" -> g
        [] s[1] = "arg"  -> Store(g, b, Arg(1), s[2], l)
        [] s[1] = "set"  -> Store(g, b, Const(1), s[2], l)
        [] s[1] = "clear" -> Store(g, b, Const(0), s[2], l)
        [] s[1] = "inc"  -> assign(with("add", Const(1)))
        [] s[1] = "copy" -> LET h == Load(g, b, s[3], l) IN Store(h, b, Newest(h), s[2], l)
        [] s[1] = "print" -> Emit(x, b, Instr("call", <<Fn(0), Newest(x)>>, <<>>))
        [] s[1] = "leak" -> Emit(g, b, Instr("call", <<Fn(0), Slot(s[2], l)>>, <<>>))
        [] s[1] = "fixed" -> assign(Emit(g, b, Instr(s[3], <<Arg(1), Const(2)>>, <<>>)))
        [] s[1] = "fast" -> assign(Emit(x, b, Fast(Instr(s[3], <<Newest(x), Const(s[4])>>, <<>>))))
        [] s[1] = "call" -> assign(Emit(x, b, Instr("call", <<Fn(s[3]), Newest(x), Const(1)>>, <<>>)))
        [] s[1] = "double" -> Doubled(g, b, l)
        [] s[1] = "under" -> assign(Emit(x, b, Instr(s[3], <<Const(2), Newest(x)>>, <<>>)))
        [] s[1] = "maybe" -> Followed(x, b, l)
        [] s[1] = "poll" -> Emit(g, b, Observe(Instr("load", <<Slot(s[2], l)>>, <<>>)))
        [] s[1] = "post" -> Emit(g, b, Observe(Instr("store", <<Const(1), Slot(s[2], l)>>, <<>>)))

EmitTerminator(g, b, t, l) ==
  LET h == Load(g, b, "x", l)
      test == CASE t[1] = "once" -> <<"ult", 1>>
                [] t[1] = "atmost" -> <<"ule", 0>>
                [] t[1] = "if" -> <<t[4], 2>>
                [] OTHER -> <<"ult", 3>>
      c == Emit(h, b, Instr(test[1], <<Newest(h), Const(test[2])>>, <<>>))
  IN  CASE t[1] = "br" -> EmitTerm(g, b, Instr("br", <<>>, Tail(t)))
        [] t[1] \in {"condbr", "once", "atmost", "if"} ->
             EmitTerm(c, b, Instr("condbr", <<Newest(c)>>, <<t[2], t[3]>>))
        [] t[1] = "flag" -> EmitTerm(h, b, Instr("condbr", <<Newest(h)>>, Tail(t)))
        [] t[1] = "switch" -> EmitTerm(h, b, Instr("switch", <<Newest(h), Const(1), Const(2)>>, Tail(t)))
        [] t[1] = "unreachable" -> EmitTerm(g, b, Instr("unreachable", <<>>, <<>>))
        [] t[1] = "give" -> EmitTerm(g, b, Instr("ret", <<Const(t[2])>>, <<>>))
        [] t[1] = "return" -> LET v == Load(g, b, t[2], l)
                              IN  EmitTerm(v, b, Instr("ret", <<Newest(v)>>, <<>>))
        [] t[1] = "ret" -> LET p == Emit(h, b, Instr("call", <<Fn(0), Newest(h)>>, <<>>))
                               y == Load(p, b, "y", l)
                           IN  EmitTerm(y, b, Instr("ret", <<Newest(y)>>, <<>>))

Program(shape, layout, prologue, s, t) ==
  LET n == Len(shape.terms)
      stmts(b) == CASE b = 1 -> prologue
                    [] b = shape.at[1] -> s
                    [] b = shape.at[2] -> t
                    [] OTHER -> <<>>
      blk(g, b) == EmitTerminator(FoldLeft(LAMBDA h, st : EmitStatement(h, b, st, layout),
                                           g, stmts(b)), b, shape.terms[b], layout)
  IN  FoldLeft(blk, Slots2(Empty("main", 1, n), layout), [b \in 1..n |-> b])

(* A loop whose header makes x a constant which the body then adds to: its *)
(* folding is the subject of a run of its own, where the header prints x   *)
(* first.                                                                  *)
FoldedInLoop(shape, s, t) ==
  shape = While /\ s \in {<<"set", "x">>, <<"copy", "x", "y">>} /\ t = <<"inc", "x">>

Sources == Shapes \X {"scalars", "struct"} \X Prologues \X Statements \X Statements

O1Jobs ==
  {[module |-> <<Program(c[1], c[2], c[3], <<c[4]>>, <<c[5]>>)>>, level |-> "O1"] :
     c \in {c \in Sources : ~FoldedInLoop(c[1], c[4], c[5])}}
MCLoopJobs ==
  {[module |-> <<Program(c[1], c[2], c[3], <<<<"print", "x">>, c[4]>>, <<c[5]>>)>>, level |-> "O1"] :
     c \in {c \in Sources : FoldedInLoop(c[1], c[4], c[5])}}

-----------------------------------------------------------------------------
(* Functions of two arguments that main calls as Fn(2), which may call      *)
(* itself.                                                                 *)
Callee(args, blocks) ==
  LET n == Len(blocks)
      blk(g, b) == EmitTerm(FoldLeft(LAMBDA h, i : Emit(h, b, i), g, blocks[b].body), b, blocks[b].term)
  IN  FoldLeft(blk, Empty("callee", args, n), [b \in 1..n |-> b])
Ret(v) == Instr("ret", <<v>>, <<>>)
If(v, b, c) == Instr("condbr", <<v>>, <<b, c>>)
Block(body, term) == [body |-> body, term |-> term]

Simple == {
  Callee(2, <<Block(<<Instr("add", <<Arg(1), Arg(2)>>, <<>>)>>, Ret(Res(1)))>>),
  Callee(2, <<Block(<<Instr("call", <<Fn(0), Arg(1)>>, <<>>)>>, Ret(Const(3)))>>),
  Callee(2, <<Block(<<Instr("call", <<Fn(0), Arg(1)>>, <<>>), Instr("ult", <<Const(3), Arg(1)>>, <<>>)>>,
                    If(Res(2), 3, 2)),
              Block(<<Instr("add", <<Arg(1), Arg(2)>>, <<>>),
                      Instr("call", <<Fn(2), Res(4), Arg(2)>>, <<>>)>>, Instr("br", <<>>, <<3>>)),
              Block(<<>>, Ret(Arg(2)))>>) }

(* One that returns in two places.                                         *)
TwoReturns ==
  Callee(2, <<Block(<<Instr("ult", <<Arg(1), Arg(2)>>, <<>>)>>, If(Res(1), 2, 3)),
              Block(<<Instr("call", <<Fn(0), Arg(1)>>, <<>>)>>, Instr("br", <<>>, <<4>>)),
              Block(<<Instr("call", <<Fn(0), Arg(2)>>, <<>>)>>, Instr("br", <<>>, <<4>>)),
              Block(<<Instr("ult", <<Const(3), Arg(1)>>, <<>>)>>, If(Res(7), 5, 6)),
              Block(<<Instr("mul", <<Arg(1), Const(3)>>, <<>>)>>, Ret(Res(9))),
              Block(<<>>, Ret(Arg(1)))>>)

High == {"O2", "O3"}
Argument == <<<<"arg", "x">>, <<"set", "y">>>>
(* Branches whose arms, and loops whose bodies, have something left to do   *)
(* once x and y are values: an arm that has not loses its value            *)
(* (JumpThreading).                                                        *)
Branching ==
  {Program(shape, l, Argument, <<<<"print", "x">>>>, <<t>>) :
     shape \in {While, Either, When}, l \in {"scalars", "struct"},
     t \in {<<"print", "x">>, <<"inc", "x">>}}

(* A loop that computes in every round what does not depend on it, with    *)
(* and without a block before it to compute it in.                         *)
Guarded == [terms |-> <<<<"condbr", 2, 4>>, <<"br", 3>>, <<"condbr", 3, 4>>, <<"ret">>>>, at |-> <<2, 3>>]
Bare == [terms |-> <<<<"condbr", 2, 3>>, <<"condbr", 2, 3>>, <<"ret">>>>, at |-> <<2, 3>>]
Loops ==
  {Program(shape, "scalars", Argument, <<<<"fixed", "y", op>>, <<"print", "y">>, <<"inc", "x">>>>,
           <<<<"print", "y">>, <<"inc", "x">>>>) :
     shape \in {While, Guarded, Bare}, op \in {"add", "xor", "lshr"}}

(* A loop over a variable in memory that calls a function in every round.  *)
Calling2 ==
  {<<Program(While, "scalars", <<<<"arg", "x">>, <<"set", "y">>, <<"leak", "x">>>>,
             <<<<"skip">>>>, <<<<"call", "x", 2>>>>), c>> : c \in Simple}

(* A loop that ends after its first round, which x tells.                  *)
Once ==
  {Program([terms |-> <<<<"br", 2>>, <<test, 2, 3>>, <<"ret">>>>, at |-> <<2, 3>>], "scalars",
           <<<<"arg", "y">>, <<"set", "x">>>>, <<<<"print", "y">>>>, <<t>>) :
     test \in {"once", "atmost"}, t \in Statements}

(* A branch on each of the comparisons, of an argument or of a constant.   *)
Compared ==
  {<<Program([Either EXCEPT !.terms[1] = <<"if", 2, 3, p>>], "scalars", prologue,
             <<<<"print", "x">>>>, <<<<"inc", "x">>>>)>> :
     p \in Predicates, prologue \in {Argument, <<<<"set", "x">>, <<"arg", "y">>>>}}
CompareJobs == [module : Compared, level : {"O1"}]

(* x tells which way control came, and is not used after that.             *)
Flagged ==
  {Program([terms |-> <<<<"condbr", 2, 3>>, <<"br", 4>>, <<"br", 4>>, <<"flag", 5, 6>>,
                        <<"return", "y">>, <<"give", 2>>>>, at |-> <<2, 3>>], "scalars",
           Argument, <<s, <<"set", "x">>>>, <<t, <<"clear", "x">>>>) :
     s \in {<<"skip">>, <<"print", "y">>}, t \in {<<"skip">>, <<"print", "y">>}}

(* Floating-point instructions that may be simplified, one after another.  *)
FastOps == {<<"fadd", 0>>, <<"fadd", 3>>, <<"fsub", 0>>, <<"fsub", 2>>, <<"fmul", 1>>,
            <<"fmul", 0>>, <<"fdiv", 1>>}
Numeric ==
  {Program([Straight EXCEPT !.terms[3] = <<"return", "x">>], "scalars", Argument,
           <<<<"fast", "x">> \o a, <<"fast", "x">> \o b>>, <<<<"skip">>>>) :
     a \in FastOps, b \in FastOps}

(* Both elements of an array are doubled.                                  *)
Packed ==
  {Program(Straight, "array", Argument, <<s>>, <<<<"double", "x">>, t>>) :
     s \in {<<"print", "x">>, <<"inc", "x">>}, t \in {<<"print", "x">>, <<"leak", "y">>}}

(* Volatile loads and stores of one of the variables.                      *)
Polling(shapes) ==
  {<<Program(shape, l, Argument, <<s>>, <<t>>)>> :
     shape \in shapes, l \in {"scalars", "struct"}, s \in {<<"poll", "x">>, <<"post", "y">>},
     t \in {<<"inc", "x">>, <<"copy", "y", "x">>, <<"poll", "x">>}}
PollJobs == [module : Polling({While, Either}), level : {"O1"}]
              \cup [module : Polling({Straight}), level : {"O2"}]

Calling(s, t) == Program([Straight EXCEPT !.terms[3] = t], "scalars", Argument, <<s>>, <<<<"call", "x", 2>>>>)
Ends == {<<"ret">>, <<"return", "x">>}
CallModules ==
  {<<Calling(s, t), c>> : s \in {<<"call", "y", 2>>, <<"call", "x", 2>>, <<"print", "x">>},
                          t \in Ends, c \in Simple}
    \cup {<<Calling(<<"print", "x">>, t), TwoReturns>> : t \in Ends}

HighModules ==
  {<<p>> : p \in Branching \cup Loops \cup Once \cup Flagged \cup Numeric \cup Packed}
    \cup CallModules \cup Calling2
HighJobs == [module : HighModules, level : High]

(* What is instrumented: y may be read before it is assigned; an operation *)
(* may divide by zero, a pointer be null, a block be unreachable.          *)
Never == [terms |-> <<<<"condbr", 2, 3>>, <<"br", 4>>, <<"unreachable">>, <<"ret">>>>, at |-> <<2, 4>>]
Watched(prologue) ==
  {<<Program(shape, l, prologue, <<s>>, <<t>>)>> :
     shape \in {While, Either, When, Never}, l \in {"scalars", "struct"},
     s \in {<<"inc", "x">>, <<"print", "y">>},
     t \in {<<"copy", "x", "y">>, <<"under", "x", "udiv">>, <<"under", "x", "srem">>, <<"maybe", "x">>}}
InstrJobs ==
  [module : Watched(Argument) \cup CallModules, level : Instruments]
    \cup [module : Watched(<<<<"arg", "x">>>>), level : Instruments \ {"ubsan"}]
MCJobs == O1Jobs \cup HighJobs \cup InstrJobs \cup PollJobs \cup CompareJobs
=============================================================================
