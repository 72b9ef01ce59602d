------------------------------- MODULE Lists -------------------------------
(***************************************************************************)
(* What the models ask of lists that SequencesExt does not have.           *)
(***************************************************************************)
EXTENDS Integers, Sequences, FiniteSets, SequencesExt

(* A list, of whatever it holds.                                           *)
IsList(s) == s \in Seq(ToSet(s))

(* What a filter keeps of a list: its elements in K, in their order.       *)
Kept(s, K) ==
  LET kept[n \in 0..Len(s)] ==
        IF n = 0 THEN <<>>
        ELSE LET rest == kept[n - 1] IN IF s[n] \in K THEN Append(rest, s[n]) ELSE rest
  IN  kept[Len(s)]
=============================================================================
