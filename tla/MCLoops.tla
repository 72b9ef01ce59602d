------------------------------- MODULE MCLoops -------------------------------
(***************************************************************************)
(* Control-flow graphs, entry without predecessors: every graph of four    *)
(* blocks over seven target lists, reducible or not, with and without      *)
(* unreachable blocks, and graphs of five blocks with nested loops.        *)
(* Targets are listed in increasing order except where the order matters   *)
(* for the search.                                                         *)
(***************************************************************************)
EXTENDS Loops

MCTargets == {<<>>, <<2>>, <<3>>, <<4>>, <<2, 3>>, <<4, 2>>, <<3, 4>>}
MCFour == {<<s1, s2, s3, s4>> : s1 \in MCTargets, s2 \in MCTargets,
                                s3 \in MCTargets, s4 \in MCTargets}

MCFive ==
  {<<s1, s2, s3, s4, s5>> :
     s1 \in {<<2>>, <<3, 2>>}, s2 \in {<<3>>, <<4, 3>>, <<3, 5>>},
     s3 \in {<<4>>, <<5, 4>>, <<3, 4>>}, s4 \in {<<2>>, <<3>>, <<3, 5>>, <<5, 2>>},
     s5 \in {<<>>, <<2>>, <<2, 3>>}}

MCGraphs == MCFour \cup MCFive

(* A loop with a continue: two back edges to header 2.                     *)
MCTwoTails == { << <<2>>, <<3, 5>>, <<2, 4>>, <<2>>, <<>> >> }
==============================================================================
