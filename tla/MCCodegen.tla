------------------------------ MODULE MCCodegen ------------------------------
(***************************************************************************)
(* Codegen on small IR functions and on straight lines over four virtual   *)
(* registers.  The functions have an entry block 1 that defines a and b, a *)
(* loop header 2 with phis p and q that defines c, a third block with a    *)
(* phi r, and a block 4 that returns.  Code goes on to the back end when   *)
(* only trampolines of back edges hold copies (MCCodegenTrampoline.cfg     *)
(* shows the others).                                                      *)
(***************************************************************************)
EXTENDS Codegen

(* Predecessors of block d under the successor lists succs.                *)
MCPreds(succs, d) == {b \in DOMAIN succs : d \in ToSet(succs[b])}

MCPhi(succs, d, dst, inc) ==
  [dst |-> dst, inc |-> [b \in MCPreds(succs, d) |-> inc[b]]]

(* The function with the given terminators and phi entries.  Values of the *)
(* header are in scope in block 3 unless the entry goes there directly.    *)
MCFunction(kind, succs, incP, incQ, incR) ==
  LET scope3 == {"a", "b"} \cup (IF 1 \in MCPreds(succs, 3) THEN {} ELSE {"p", "q", "c"})
      operand == [b \in 1..4 |->
                    CASE kind[b] \in {"condbr", "switch"} -> <<"a", "p", "r", NoValue>>[b]
                      [] kind[b] = "invoke" -> "w"
                      [] OTHER -> NoValue]
  IN  [phis    |-> << <<>>,
                      <<MCPhi(succs, 2, "p", incP), MCPhi(succs, 2, "q", incQ)>>,
                      <<MCPhi(succs, 3, "r", incR)>>,
                      <<>> >>,
       defs    |-> << <<"a", "b">>, <<"c">>, <<>>, <<>> >>,
       reads   |-> << <<>>, <<"a", "b", "p", "q">>, SetToSeq({"r"} \cup scope3), <<"a", "b">> >>,
       kind    |-> kind,
       succs   |-> succs,
       operand |-> operand]

(* Phi entries: from the entry, round the loop, and from block 3.          *)
MCHeaderInc(k) == {<<x, y, z>> : x \in {"a", k}, y \in {"p", "q", "c"}, z \in {"r", "q"}}
MCBodyInc(k) == {<<x, y, z>> : x \in {"a"}, y \in {"p", "c", k}, z \in {"r"}}

MCShapes ==
  { [kind |-> <<"br", "condbr", "br", "ret">>,      succs |-> << <<2>>, <<2, 3>>, <<2>>, <<>> >>],
    [kind |-> <<"br", "condbr", "condbr", "ret">>,  succs |-> << <<2>>, <<3, 4>>, <<3, 2>>, <<>> >>],
    [kind |-> <<"condbr", "condbr", "br", "ret">>,  succs |-> << <<3, 2>>, <<2, 3>>, <<4>>, <<>> >>],
    [kind |-> <<"invoke", "condbr", "br", "ret">>,  succs |-> << <<4, 2>>, <<3, 2>>, <<2>>, <<>> >>],
    [kind |-> <<"br", "condbr", "switch", "ret">>,  succs |-> << <<2>>, <<2, 3>>, <<4, 2>>, <<>> >>],
    [kind |-> <<"br", "condbr", "catchret", "ret">>, succs |-> << <<2>>, <<2, 3>>, <<4>>, <<>> >>],
    [kind |-> <<"br", "condbr", "catchswitch", "ret">>, succs |-> << <<2>>, <<3, 2>>, <<4, 2>>, <<>> >>] }

MCFunctions ==
  {MCFunction(s.kind, s.succs, ip, iq, ir) :
     s \in MCShapes, ip \in MCHeaderInc("k1"), iq \in MCHeaderInc("k2"), ir \in MCBodyInc("k1")}

(* A switch in the header, on the header's phi, with the header among its  *)
(* targets.                                                                *)
MCSwitchFunctions ==
  {MCFunction(<<"br", "switch", "br", "ret">>, << <<2>>, <<2, 3, 4>>, <<2>>, <<>> >>,
              <<"a", "q", "r">>, <<"b", "p", "q">>, <<"a", "p", "r">>)}

-----------------------------------------------------------------------------
(* Functions whose forward conditional edges carry no phi, so that only the*)
(* trampolines of back edges hold copies: a loop with one or two blocks,   *)
(* and a loop within a loop whose header has the phi r.                    *)
MCLoopShapes ==
  { [kind |-> <<"br", "condbr", "condbr", "ret">>, succs |-> << <<2>>, <<3, 4>>, <<2, 4>>, <<>> >>],
    [kind |-> <<"br", "condbr", "br", "ret">>,     succs |-> << <<2>>, <<3, 4>>, <<2>>, <<>> >>],
    [kind |-> <<"br", "br", "condbr", "ret">>,     succs |-> << <<2>>, <<3>>, <<2, 4>>, <<>> >>],
    [kind |-> <<"br", "condbr", "condbr", "ret">>, succs |-> << <<2>>, <<2, 3>>, <<2, 4>>, <<>> >>],
    [kind |-> <<"br", "br", "condbr", "ret">>,     succs |-> << <<2>>, <<3>>, <<3, 4>>, <<>> >>] }

MCLoop(s, ip, iq) ==
  LET g == MCFunction(s.kind, s.succs, ip, iq, <<"a", "c", "p">>)
      plain == s.kind[2] = "condbr"   \* block 3 is entered without copies
  IN  [g EXCEPT !.phis[3] = IF plain THEN <<>> ELSE @,
                !.operand[3] = IF plain /\ @ # NoValue THEN "p" ELSE @,
                !.reads[3] = IF plain THEN <<"a", "p", "c">> ELSE @,
                !.reads[4] = <<"b", "p">>]

MCLoops ==
  {MCLoop(s, ip, iq) : s \in MCLoopShapes, ip \in {<<"a", "q", "c">>, <<"k1", "p", "q">>},
                       iq \in {<<"b", "p", "p">>, <<"a", "c", "q">>}}

MCNest ==
  { [phis    |-> << <<>>, <<[dst |-> "p", inc |-> [b \in {1, 4} |-> <<"a", "-", "-", x>>[b]]]>>,
                    <<[dst |-> "r", inc |-> [b \in {2, 3} |-> <<"-", "c", y>>[b]]]>>, <<>>, <<>> >>,
     defs    |-> << <<"a", "b">>, <<"c">>, <<"d">>, <<>>, <<>> >>,
     reads   |-> << <<>>, <<"p">>, <<"r">> \o z, <<"c">>, <<"b">> >>,
     kind    |-> <<"br", "br", "condbr", "condbr", "ret">>,
     succs   |-> << <<2>>, <<3>>, <<3, 4>>, <<2, 5>>, <<>> >>,
     operand |-> <<NoValue, NoValue, "r", "p", NoValue>>] :
       x \in {"a", "r", "d"}, y \in {"d", "p", "k1"}, z \in {<<>>, <<"a">>, <<"p">>} }

(* An if without else: the edges of its branch carry the copies of a phi.  *)
MCDiamond ==
  { [phis    |-> << <<>>, <<>>, <<[dst |-> "p", inc |-> [b \in {1, 2} |-> <<"k1", "b">>[b]]]>> >>,
     defs    |-> << <<"a", "b">>, <<>>, <<>> >>,
     reads   |-> << <<>>, <<>>, <<"p", "a">> >>,
     kind    |-> <<"condbr", "br", "ret">>,
     succs   |-> << <<2, 3>>, <<3>>, <<>> >>,
     operand |-> <<"b", NoValue, NoValue>>] }

(* A block that jumps to itself, with two phis: the first is in its register*)
(* when the copy of the second, spilled, is made.                          *)
MCLatch ==
  { [phis    |-> << <<>>, <<[dst |-> "p", inc |-> [b \in {1, 2} |-> <<"a", "c">>[b]]],
                            [dst |-> "q", inc |-> [b \in {1, 2} |-> <<"k2", "p">>[b]]]>>, <<>> >>,
     defs    |-> << <<"a", "b", "d">>, <<"c">>, <<>> >>,
     reads   |-> << <<>>, <<"p">>, <<>> >>,
     kind    |-> <<"br", "condbr", "ret">>,
     succs   |-> << <<2>>, <<2, 3>>, <<>> >>,
     operand |-> <<NoValue, "p", NoValue>>] }

(* A loop with a call that may unwind: the pad, block 4, reads b.          *)
MCUnwind ==
  { [phis    |-> << <<>>, <<[dst |-> "p", inc |-> [b \in {1, 3} |-> <<"a", "-", x>>[b]]]>>, <<>>, <<>>, <<>> >>,
     defs    |-> << <<"a", "b">>, <<"c">>, <<>>, <<"d">>, <<>> >>,
     reads   |-> << <<>>, <<"p">>, <<"w", "c">>, <<"b", "d">>, <<"a">> >>,
     kind    |-> <<"br", "invoke", "condbr", "ret", "ret">>,
     succs   |-> << <<2>>, <<4, 3>>, <<2, 5>>, <<>>, <<>> >>,
     operand |-> <<NoValue, "w", "w", NoValue, NoValue>>] : x \in {"w", "c", "k1"} }

(* Loops that compute_live_intervals does not see: a switch of block 2 to  *)
(* itself, and a pad before the block whose call unwinds to it.            *)
MCUnseen ==
  { [phis    |-> << <<>>, <<>>, <<>> >>,
     defs    |-> << <<"a", "b">>, <<"c">>, <<>> >>,
     reads   |-> << <<>>, <<"a">>, <<"c">> >>,
     kind    |-> <<"br", "switch", "ret">>,
     succs   |-> << <<2>>, <<2, 3>>, <<>> >>,
     operand |-> <<NoValue, "b", NoValue>>],
    [phis    |-> << <<>>, <<>>, <<>>, <<>> >>,
     defs    |-> << <<"a", "b">>, <<>>, <<"c">>, <<>> >>,
     reads   |-> << <<>>, <<"b">>, <<"c">>, <<>> >>,
     kind    |-> <<"br", "br", "invoke", "ret">>,
     succs   |-> << <<2>>, <<3>>, <<2, 4>>, <<>> >>,
     operand |-> <<NoValue, NoValue, NoValue, NoValue>>] }

-----------------------------------------------------------------------------
VReg(i) == <<"v", i>>
V(seq) == [i \in 1..Len(seq) |-> VReg(seq[i])]
Op(dst, srcs, n) == MInstr("def", VReg(dst), V(srcs), <<>>, n)
InPlace(dst, src, n) == MInstr("alu", VReg(dst), V(<<src>>), <<>>, n)

(* Three-address code: every operand defined before it is read.            *)
MCPrograms ==
  { <<<<Op(1, <<>>, 1), Op(2, a, 2), Op(3, b, 3), Op(d, c, 4), Use(V(e))>>>> :
      a \in {<<>>, <<1>>}, b \in {<<>>, <<1>>, <<1, 2>>}, d \in {1, 3, 4},
      c \in {<<1>>, <<2, 3>>, <<2, 2>>}, e \in {<<1>>, <<2, 3>>, <<3, 1>>} }

(* Two-address code, as x86 selects it: v3 is set, two other values come   *)
(* and go while registers are short, and v4 is added to v3 in place.       *)
MCInPlacePrograms ==
  { <<<<Op(3, <<>>, 1), Op(1, <<>>, 2), Op(2, <<>>, 3), Use(V(<<1, 2>>)),
      Op(4, <<>>, 5), InPlace(3, 4, 6), Use(V(e))>>>> : e \in {<<3>>, <<3, 4>>} }

MCLowered == MCFunctions \cup MCLoops \cup MCNest \cup MCUnwind
ASSUME DestructibleAssumption == \A g \in MCLowered : Destructible(g)
MCGenerated(g) == g \in MCLoops \cup MCNest \cup MCUnwind \cup MCDiamond \cup MCLatch \cup MCUnseen
MCPools == { << <<1>>, <<2>> >> }
MCThree == { << <<1>>, <<2>>, <<3>> >> }
MCNothing == {}
==============================================================================
