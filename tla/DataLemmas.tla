------------------------------ MODULE DataLemmas ------------------------------
(***************************************************************************)
(* What the proofs about the components rest on: least elements,           *)
(* induction, functions defined by recursion, and lists.                   *)
(***************************************************************************)
EXTENDS Lists, FiniteSetTheorems, SequenceTheorems, WellFoundedInduction, TLAPS

(* A set of natural numbers, such as the ends of the intervals that an     *)
(* allocator compares, has a least element.                                *)
LEMMA LeastNatural ==
  ASSUME NEW S, S \subseteq Nat, S # {}
  PROVE  \E m \in S : \A n \in S : m <= n
<1> DEFINE R == {ss \in Nat \X Nat : ss[1] < ss[2]}
<1>1. IsWellFoundedOn(R, Nat)
  BY NatLessThanWellFounded DEF OpToRel
<1>2. \E m \in S : \A n \in S : ~(<<n, m>> \in R)
  <2> HIDE DEF R
  <2> QED
    BY <1>1, WFMin
<1>3. PICK m \in S : \A n \in S : ~(<<n, m>> \in R)
  BY <1>2
<1>4. \A n \in S : m <= n
  <2> SUFFICES ASSUME NEW n \in S PROVE m <= n
    OBVIOUS
  <2>1. m \in Nat /\ n \in Nat /\ ~(<<n, m>> \in R)
    BY <1>3
  <2>2. ~(n < m)
    BY <2>1
  <2> QED
    BY <2>1, <2>2
<1> QED
  BY <1>4

(* Induction, for a property given as the set of the numbers that have it. *)
LEMMA InductionOnSet ==
  ASSUME NEW S, 0 \in S, \A n \in Nat : n \in S => n + 1 \in S
  PROVE  Nat \subseteq S
<1> DEFINE Out == Nat \ S
<1>1. SUFFICES ASSUME Out # {} PROVE FALSE
  OBVIOUS
<1>2. PICK m \in Out : \A n \in Out : m <= n
  <2>1. Out \subseteq Nat
    OBVIOUS
  <2> QED
    BY <1>1, <2>1, LeastNatural
<1>3. m # 0 /\ m - 1 \in Nat /\ m - 1 \notin Out
  BY <1>2
<1>4. (m - 1) + 1 \in S
  BY <1>3
<1> QED
  BY <1>2, <1>3, <1>4

-----------------------------------------------------------------------------
(* A function defined by recursion over numbers exists: the value at i is  *)
(* a base value if i \in R, and otherwise a function of the value at a     *)
(* smaller number pre[i].                                                  *)
Value(h, i, R, base, pre, step) ==
  IF i \in R THEN base[i] ELSE step[<<i, h[pre[i]]>>]

(* The base values and the steps stay in T, the recursion in D.            *)
WellPosed(D, T, R, base, pre, step) ==
  /\ D \subseteq Nat
  /\ \A i \in D \cap R : base[i] \in T
  /\ \A i \in D \ R : /\ pre[i] \in D /\ pre[i] < i
                      /\ \A t \in T : step[<<i, t>>] \in T

(* The functions on which the model's analyses and their reference         *)
(* definitions rest (reachability in rounds, concatenation of a list of    *)
(* lists, the chain of immediate dominators) are of this form.             *)
LEMMA RecursiveFunction ==
  ASSUME NEW D, NEW T, NEW R, NEW base, NEW pre, NEW step,
         WellPosed(D, T, R, base, pre, step)
  PROVE  \E f \in [D -> T] :
           \A i \in D : f[i] = Value(f, i, R, base, pre, step)
<1> USE DEF WellPosed
<1> DEFINE
      Good(n, h) == /\ h \in [D \cap 0..n -> T]
                    /\ \A i \in D \cap 0..n : h[i] = Value(h, i, R, base, pre, step)
      H(n) == CHOOSE h : Good(n, h)
<1>0. \A i \in D : i \notin R => pre[i] \in D /\ pre[i] \in Nat /\ i \in Nat /\ pre[i] < i
  <2> SUFFICES ASSUME NEW i \in D, i \notin R
               PROVE  pre[i] \in D /\ pre[i] \in Nat /\ i \in Nat /\ pre[i] < i
    OBVIOUS
  <2>1. i \in D \ R
    OBVIOUS
  <2>2. pre[i] \in D /\ pre[i] < i
    BY <2>1
  <2> QED
    BY <2>2
<1>1. \A n \in Nat : Good(n, H(n))
  <2> DEFINE S == {n \in Nat : \E h : Good(n, h)}
  <2>1. 0 \in S
    <3> DEFINE h == [i \in D \cap 0..0 |-> base[i]]
    <3>1. \A i \in D \cap 0..0 : i \in R
      BY <1>0
    <3>2. Good(0, h)
      BY <3>1 DEF Value
    <3> QED
      BY <3>2
  <2>2. \A n \in Nat : n \in S => n + 1 \in S
    <3> SUFFICES ASSUME NEW n \in Nat, n \in S PROVE n + 1 \in S
      OBVIOUS
    <3>1. PICK h : Good(n, h)
      OBVIOUS
    <3> DEFINE k == [i \in D \cap 0..(n + 1) |->
                       IF i <= n THEN h[i] ELSE Value(h, i, R, base, pre, step)]
    <3>2. \A i \in D \cap 0..(n + 1) : i \notin R => pre[i] \in D \cap 0..n
      BY <1>0
    <3>3. \A i \in D \cap 0..n : k[i] = h[i]
      OBVIOUS
    <3>4. \A i \in D \cap 0..(n + 1) :
            Value(k, i, R, base, pre, step) = Value(h, i, R, base, pre, step)
      BY <3>2, <3>3 DEF Value
    <3>5. \A i \in D \cap 0..(n + 1) : k[i] = Value(h, i, R, base, pre, step)
      <4> SUFFICES ASSUME NEW i \in D \cap 0..(n + 1)
                   PROVE  k[i] = Value(h, i, R, base, pre, step)
        OBVIOUS
      <4>1. CASE i <= n
        <5>1. i \in D \cap 0..n
          BY <4>1
        <5> QED
          BY <3>1, <4>1, <5>1
      <4>2. CASE ~(i <= n)
        BY <4>2
      <4> QED
        BY <4>1, <4>2
    <3>6. \A i \in D \cap 0..(n + 1) : Value(h, i, R, base, pre, step) \in T
      BY <3>1, <3>2 DEF Value
    <3>7. k \in [D \cap 0..(n + 1) -> T]
      BY <3>5, <3>6
    <3>8. Good(n + 1, k)
      BY <3>4, <3>5, <3>7
    <3>9. n + 1 \in Nat /\ \E l : Good(n + 1, l)
      <4> HIDE DEF k, Good
      <4> QED
        BY <3>8
    <3> QED
      BY <3>9
  <2>3. Nat \subseteq S
    <3> HIDE DEF S
    <3> QED
      BY <2>1, <2>2, InductionOnSet
  <2> SUFFICES ASSUME NEW n \in Nat PROVE Good(n, H(n))
    OBVIOUS
  <2>4. \E h : Good(n, h)
    BY <2>3
  <2> HIDE DEF Good
  <2> QED
    BY <2>4
<1> HIDE DEF H
<1> DEFINE Apart == {i \in D : \E m, n \in Nat : i <= m /\ i <= n /\ H(m)[i] # H(n)[i]}
<1>2. Apart = {}
  <2>1. SUFFICES ASSUME Apart # {} PROVE FALSE
    OBVIOUS
  <2>2. PICK i \in Apart : \A j \in Apart : i <= j
    <3>1. Apart \subseteq Nat
      OBVIOUS
    <3> HIDE DEF Apart
    <3> QED
      BY <2>1, <3>1, LeastNatural
  <2>3. PICK m \in Nat, n \in Nat : i <= m /\ i <= n /\ H(m)[i] # H(n)[i]
    OBVIOUS
  <2>4. i \in D \cap 0..m /\ i \in D \cap 0..n
    BY <2>3
  <2>5. /\ H(m)[i] = Value(H(m), i, R, base, pre, step)
        /\ H(n)[i] = Value(H(n), i, R, base, pre, step)
    BY <1>1, <2>4
  <2>6. i \in D /\ i \notin R
    BY <2>3, <2>5 DEF Value
  <2>7. pre[i] \in D /\ pre[i] \in Nat /\ i \in Nat /\ pre[i] < i
    BY <1>0, <2>6
  <2>8. pre[i] \notin Apart
    <3> HIDE DEF Apart
    <3> QED
      BY <2>2, <2>7
  <2>9. H(m)[pre[i]] = H(n)[pre[i]]
    BY <2>3, <2>7, <2>8
  <2> QED
    BY <2>3, <2>5, <2>6, <2>9 DEF Value
<1> DEFINE f == [i \in D |-> H(i)[i]]
<1>3. \A i \in D : H(i)[i] = Value(H(i), i, R, base, pre, step) /\ H(i)[i] \in T
  <2> SUFFICES ASSUME NEW i \in D
               PROVE  H(i)[i] = Value(H(i), i, R, base, pre, step) /\ H(i)[i] \in T
    OBVIOUS
  <2>1. i \in Nat /\ i \in D \cap 0..i
    OBVIOUS
  <2> QED
    BY <1>1, <2>1
<1>4. \A i \in D : Value(H(i), i, R, base, pre, step) = Value(f, i, R, base, pre, step)
  <2> SUFFICES ASSUME NEW i \in D, i \notin R PROVE H(i)[pre[i]] = f[pre[i]]
    BY DEF Value
  <2>1. pre[i] \in D /\ pre[i] \in Nat /\ i \in Nat /\ pre[i] < i
    BY <1>0
  <2>2. pre[i] \notin Apart
    BY <1>2
  <2> QED
    BY <2>1, <2>2
<1>5. f \in [D -> T]
  BY <1>3
<1>6. \A i \in D : f[i] = Value(f, i, R, base, pre, step)
  BY <1>3, <1>4
<1> QED
  BY <1>5, <1>6

-----------------------------------------------------------------------------
(* The first n positions are n.                                            *)
LEMMA Positions ==
  ASSUME NEW n \in Nat
  PROVE  IsFiniteSet(1..n) /\ Cardinality(1..n) = n
<1>1. /\ IsFiniteSet(1..n)
      /\ Cardinality(1..n) = IF 1 > n THEN 0 ELSE n - 1 + 1
  BY FS_Interval
<1> QED
  BY <1>1

(* An element of a sequence over X is in X.                                *)
LEMMA SeqElement ==
  ASSUME NEW X, NEW s \in Seq(X)
  PROVE  \A i \in DOMAIN s : s[i] \in X
OBVIOUS

(* A sequence without positions is empty.                                  *)
LEMMA EmptyDomain ==
  ASSUME NEW X, NEW s \in Seq(X), DOMAIN s = {}
  PROVE  s = <<>>
OBVIOUS

(* A nonempty sequence is its front and its last element.                  *)
LEMMA FrontLast ==
  ASSUME NEW X, NEW s \in Seq(X), s # <<>>
  PROVE  /\ Len(s) \in Nat \ {0} /\ DOMAIN s = 1..Len(s) /\ Len(s) \in DOMAIN s
         /\ Last(s) \in X /\ Last(s) = s[Len(s)]
         /\ Front(s) \in Seq(X) /\ Len(Front(s)) = Len(s) - 1
         /\ DOMAIN Front(s) = 1..(Len(s) - 1)
         /\ \A i \in 1..(Len(s) - 1) : Front(s)[i] = s[i]
         /\ ToSet(s) = ToSet(Front(s)) \cup {Last(s)}
<1>1. Len(s) \in Nat \ {0} /\ DOMAIN s = 1..Len(s) /\ Len(s) \in DOMAIN s
  OBVIOUS
<1>2. Last(s) \in X /\ Last(s) = s[Len(s)]
  BY <1>1 DEF Last
<1>3. /\ Front(s) \in Seq(X) /\ Len(Front(s)) = Len(s) - 1
      /\ DOMAIN Front(s) = 1..(Len(s) - 1)
      /\ \A i \in 1..(Len(s) - 1) : Front(s)[i] = s[i]
  BY <1>1 DEF Front
<1>4. ToSet(s) = ToSet(Front(s)) \cup {Last(s)}
  <2>1. \A i \in DOMAIN s : i \in DOMAIN Front(s) \/ i = Len(s)
    BY <1>1, <1>3
  <2>2. ToSet(s) \subseteq ToSet(Front(s)) \cup {Last(s)}
    BY <1>2, <1>3, <2>1 DEF ToSet
  <2>3. ToSet(Front(s)) \cup {Last(s)} \subseteq ToSet(s)
    BY <1>1, <1>2, <1>3 DEF ToSet
  <2> QED
    BY <2>2, <2>3
<1> QED
  BY <1>1, <1>2, <1>3, <1>4

(* A sequence of one element has that element.                             *)
LEMMA OneElement ==
  ASSUME NEW S, NEW x \in S
  PROVE  <<x>> \in Seq(S) /\ ToSet(<<x>>) = {x}
<1>1. <<x>> \in Seq(S)
  OBVIOUS
<1>2. Len(<<x>>) = 1 /\ <<x>>[1] = x
  OBVIOUS
<1>3. DOMAIN <<x>> = {1}
  OBVIOUS
<1> QED
  BY <1>1, <1>2, <1>3 DEF ToSet

(* A push onto a stack or queue adds its element at the end.               *)
LEMMA AppendFacts ==
  ASSUME NEW X, NEW s \in Seq(X), NEW e \in X
  PROVE  /\ Append(s, e) \in Seq(X)
         /\ DOMAIN s = 1..Len(s) /\ DOMAIN Append(s, e) = 1..(Len(s) + 1)
         /\ Len(s) \in Nat /\ Len(Append(s, e)) = Len(s) + 1
         /\ \A i \in 1..Len(s) : Append(s, e)[i] = s[i]
         /\ Append(s, e)[Len(s) + 1] = e
         /\ ToSet(Append(s, e)) = ToSet(s) \cup {e}
<1>1. /\ Append(s, e) \in Seq(X)
      /\ DOMAIN s = 1..Len(s) /\ DOMAIN Append(s, e) = 1..(Len(s) + 1)
      /\ Len(s) \in Nat /\ Len(Append(s, e)) = Len(s) + 1
      /\ \A i \in 1..Len(s) : Append(s, e)[i] = s[i]
      /\ Append(s, e)[Len(s) + 1] = e
  OBVIOUS
<1>2. \A i \in 1..(Len(s) + 1) : i \in 1..Len(s) \/ i = Len(s) + 1
  BY <1>1
<1>3. ToSet(Append(s, e)) \subseteq ToSet(s) \cup {e}
  BY <1>1, <1>2 DEF ToSet
<1>4. ToSet(s) \cup {e} \subseteq ToSet(Append(s, e))
  BY <1>1 DEF ToSet
<1> QED
  BY <1>1, <1>3, <1>4

(* A list has positions 1, 2, ... and any superset of its elements as      *)
(* type.                                                                   *)
LEMMA ListFacts ==
  ASSUME NEW s, IsList(s)
  PROVE  /\ Len(s) \in Nat /\ DOMAIN s = 1..Len(s)
         /\ \A X : ToSet(s) \subseteq X => s \in Seq(X)
         /\ \A k \in DOMAIN s : s[k] \in ToSet(s)
<1>1. s \in Seq(ToSet(s))
  BY DEF IsList
<1>2. /\ Len(s) \in Nat /\ DOMAIN s = 1..Len(s)
      /\ s = [k \in 1..Len(s) |-> s[k]]
      /\ \A k \in DOMAIN s : s[k] \in ToSet(s)
  BY <1>1
<1>3. ASSUME NEW X, ToSet(s) \subseteq X PROVE s \in Seq(X)
  BY <1>2, <1>3
<1> QED
  BY <1>2, <1>3

(* What is a sequence of anything is a list.                               *)
LEMMA SeqIsList ==
  ASSUME NEW X, NEW s \in Seq(X)
  PROVE  IsList(s)
<1>1. /\ Len(s) \in Nat /\ DOMAIN s = 1..Len(s)
      /\ s = [k \in 1..Len(s) |-> s[k]]
  OBVIOUS
<1>2. \A k \in DOMAIN s : s[k] \in ToSet(s)
  BY <1>1 DEF ToSet
<1>3. s \in Seq(ToSet(s))
  BY <1>1, <1>2
<1> QED
  BY <1>3 DEF IsList

(* A function on 1, 2, ..., n is a list.                                   *)
LEMMA FunctionIsList ==
  ASSUME NEW n \in Nat, NEW s, s = [k \in 1..n |-> s[k]]
  PROVE  IsList(s) /\ Len(s) = n
<1> DEFINE X == {s[k] : k \in 1..n}
<1>1. s \in Seq(X) /\ Len(s) = n
  OBVIOUS
<1> HIDE DEF X
<1> QED
  BY <1>1, SeqIsList

LEMMA AppendList ==
  ASSUME NEW s, IsList(s), NEW e
  PROVE  /\ IsList(Append(s, e)) /\ Len(Append(s, e)) = Len(s) + 1 /\ Len(s) \in Nat
         /\ DOMAIN Append(s, e) = 1..(Len(s) + 1)
         /\ \A i \in 1..Len(s) : Append(s, e)[i] = s[i]
         /\ Append(s, e)[Len(s) + 1] = e /\ Last(Append(s, e)) = e
         /\ Append(s, e) # <<>>
         /\ ToSet(Append(s, e)) = ToSet(s) \cup {e}
<1> DEFINE X == ToSet(s) \cup {e}
<1>1. s \in Seq(X) /\ e \in X
  BY ListFacts
<1> HIDE DEF X
<1>2. /\ Append(s, e) \in Seq(X) /\ Len(s) \in Nat
      /\ DOMAIN s = 1..Len(s) /\ DOMAIN Append(s, e) = 1..(Len(s) + 1)
      /\ Len(Append(s, e)) = Len(s) + 1
      /\ \A i \in 1..Len(s) : Append(s, e)[i] = s[i]
      /\ Append(s, e)[Len(s) + 1] = e
      /\ ToSet(Append(s, e)) = ToSet(s) \cup {e}
  BY <1>1, AppendFacts
<1>3. Append(s, e) # <<>> /\ Last(Append(s, e)) = e
  BY <1>2 DEF Last
<1> QED
  BY <1>2, <1>3, SeqIsList

(* And a list without repetition stays so.                                 *)
LEMMA AppendDistinct ==
  ASSUME NEW s, IsList(s), IsInjective(s), NEW e, e \notin ToSet(s)
  PROVE  IsInjective(Append(s, e))
<1>1. /\ Len(s) \in Nat /\ DOMAIN Append(s, e) = 1..(Len(s) + 1)
      /\ \A i \in 1..Len(s) : Append(s, e)[i] = s[i]
      /\ Append(s, e)[Len(s) + 1] = e
  BY AppendList, Zenon
<1>2. DOMAIN s = 1..Len(s) /\ \A i \in 1..Len(s) : s[i] # e
  BY ListFacts
<1>3. \A i \in 1..(Len(s) + 1) : i \in 1..Len(s) \/ i = Len(s) + 1
  BY <1>1
<1> SUFFICES ASSUME NEW i \in 1..(Len(s) + 1), NEW j \in 1..(Len(s) + 1),
                    Append(s, e)[i] = Append(s, e)[j]
             PROVE  i = j
  BY <1>1, Zenon DEF IsInjective
<1>4. CASE i \in 1..Len(s) /\ j \in 1..Len(s)
  <2>1. s[i] = s[j]
    BY <1>1, <1>4, Zenon
  <2> QED
    BY <1>2, <1>4, <2>1, Zenon DEF IsInjective
<1>5. CASE i \in 1..Len(s) /\ j = Len(s) + 1
  BY <1>1, <1>2, <1>5, Zenon
<1>6. CASE i = Len(s) + 1 /\ j \in 1..Len(s)
  BY <1>1, <1>2, <1>6, Zenon
<1>7. CASE i = Len(s) + 1 /\ j = Len(s) + 1
  BY <1>7, Zenon
<1> QED
  BY <1>3, <1>4, <1>5, <1>6, <1>7, Zenon

(* Kept: a filter keeps exactly the elements it is asked for, each as often*)
(* as it was there.                                                        *)
LEMMA KeptElements ==
  ASSUME NEW X, NEW s \in Seq(X), NEW K
  PROVE  /\ Kept(s, K) \in Seq(X)
         /\ \A e : e \in ToSet(Kept(s, K)) <=> e \in ToSet(s) /\ e \in K
         /\ IsInjective(s) => IsInjective(Kept(s, K))
<1> DEFINE D == 0..Len(s)
           T == Seq(X)
           next(t, i) == IF s[i] \in K THEN Append(t, s[i]) ELSE t
           base == [i \in {0} |-> <<>>]
           pre == [i \in D |-> i - 1]
           step == [p \in D \X T |-> next(p[2], p[1])]
           Rec(f) == f = [n \in 0..Len(s) |-> IF n = 0 THEN <<>> ELSE next(f[n - 1], n)]
           kept == CHOOSE f : Rec(f)
<1>1. Len(s) \in Nat /\ DOMAIN s = 1..Len(s) /\ \A i \in 1..Len(s) : s[i] \in X
  OBVIOUS
<1>2. ASSUME NEW i \in 1..Len(s), NEW t \in T
      PROVE  /\ next(t, i) \in T
             /\ ToSet(next(t, i)) = ToSet(t) \cup (IF s[i] \in K THEN {s[i]} ELSE {})
  <2>1. s[i] \in X
    BY <1>1
  <2>2. Append(t, s[i]) \in T /\ ToSet(Append(t, s[i])) = ToSet(t) \cup {s[i]}
    BY <2>1, AppendFacts
  <2> QED
    BY <2>2
<1> HIDE DEF next
<1>3. \A i \in D : i # 0 => i \in 1..Len(s) /\ i - 1 \in D /\ pre[i] = i - 1 /\ pre[i] < i
  BY <1>1
<1>4. WellPosed(D, T, {0}, base, pre, step)
  <2>1. \A i \in D : \A t \in T : step[<<i, t>>] = next(t, i)
    OBVIOUS
  <2>2. \A i \in D \cap {0} : base[i] \in T
    OBVIOUS
  <2>3. D \subseteq Nat
    BY <1>1
  <2>4. \A i \in D \ {0} : \A t \in T : next(t, i) \in T
    BY <1>2, <1>3
  <2> HIDE DEF D, T, base, pre, step
  <2> QED
    BY <1>3, <2>1, <2>2, <2>3, <2>4 DEF WellPosed
<1>5. \E f \in [D -> T] : Rec(f)
  <2>1. PICK f \in [D -> T] : \A i \in D : f[i] = Value(f, i, {0}, base, pre, step)
    <3> HIDE DEF D, T, base, pre, step, Rec
    <3> QED
      BY <1>4, RecursiveFunction
  <2>2. \A i \in D : f[i] = IF i = 0 THEN <<>> ELSE next(f[i - 1], i)
    <3> SUFFICES ASSUME NEW i \in D
                 PROVE  f[i] = IF i = 0 THEN <<>> ELSE next(f[i - 1], i)
      OBVIOUS
    <3>1. f[i] = IF i \in {0} THEN base[i] ELSE step[<<i, f[pre[i]]>>]
      BY <2>1 DEF Value
    <3>2. i # 0 => pre[i] = i - 1 /\ i - 1 \in D
      BY <1>3
    <3>3. i # 0 => step[<<i, f[i - 1]>>] = next(f[i - 1], i)
      BY <2>1, <3>2
    <3>4. base[0] = <<>>
      OBVIOUS
    <3> HIDE DEF step, pre, base
    <3> QED
      BY <3>1, <3>2, <3>3, <3>4
  <2>3. f = [i \in D |-> f[i]]
    BY <2>1
  <2> QED
    BY <2>2, <2>3
<1>6. Rec(kept)
  <2> HIDE DEF Rec
  <2> QED
    BY <1>5
<1>7. Kept(s, K) = kept[Len(s)]
  BY DEF Kept, next
<1> HIDE DEF kept
<1>8. \A i \in D : kept[i] = IF i = 0 THEN <<>> ELSE next(kept[i - 1], i)
  BY <1>6
<1> HIDE DEF Rec
<1> DEFINE Good(i) == /\ kept[i] \in T
                      /\ \A e : e \in ToSet(kept[i]) <=>
                                  \E m \in 1..i : e = s[m] /\ s[m] \in K
                      /\ IsInjective(s) => IsInjective(kept[i])
           S == {n \in Nat : n \in D => Good(n)}
<1>9. 0 \in S
  <2>1. kept[0] = <<>>
    BY <1>1, <1>8
  <2>2. ToSet(kept[0]) = {}
    BY <2>1 DEF ToSet
  <2>3. kept[0] \in T
    BY <2>1
  <2>4. \A m : m \notin 1..0
    OBVIOUS
  <2>5. IsInjective(kept[0])
    BY <2>1 DEF IsInjective
  <2> HIDE DEF T
  <2> QED
    BY <2>2, <2>3, <2>4, <2>5
<1>10. \A n \in Nat : n \in S => n + 1 \in S
  <2> SUFFICES ASSUME NEW n \in Nat, n \in S, n + 1 \in D PROVE Good(n + 1)
    <3> HIDE DEF Good
    <3> QED
      OBVIOUS
  <2>1. /\ n \in D /\ n + 1 \in 1..Len(s) /\ (n + 1) - 1 = n /\ n + 1 # 0
        /\ 1..(n + 1) = 1..n \cup {n + 1}
    BY <1>1
  <2>2. kept[n + 1] = next(kept[n], n + 1)
    BY <1>8, <2>1
  <2>3. Good(n)
    BY <2>1
  <2>4. /\ kept[n + 1] \in T
        /\ ToSet(kept[n + 1]) = ToSet(kept[n]) \cup (IF s[n + 1] \in K THEN {s[n + 1]} ELSE {})
    BY <1>2, <2>1, <2>2, <2>3
  <2>5. \A e : e \in ToSet(kept[n + 1]) <=> \E m \in 1..(n + 1) : e = s[m] /\ s[m] \in K
    BY <2>1, <2>3, <2>4
  <2>6. ASSUME IsInjective(s) PROVE IsInjective(kept[n + 1])
    <3>1. CASE s[n + 1] \in K
      <4>1. kept[n + 1] = Append(kept[n], s[n + 1])
        BY <2>2, <3>1 DEF next
      <4>2. \A m \in 1..n : m \in DOMAIN s /\ m # n + 1
        BY <1>1, <2>1
      <4>3. s[n + 1] \notin ToSet(kept[n])
        BY <1>1, <2>1, <2>3, <2>6, <4>2 DEF IsInjective
      <4>4. IsList(kept[n]) /\ IsInjective(kept[n])
        BY <2>3, <2>6, SeqIsList
      <4> DEFINE t == kept[n]
                 e == s[n + 1]
      <4>5. IsInjective(Append(t, e))
        <5>1. IsList(t) /\ IsInjective(t) /\ e \notin ToSet(t)
          BY <4>3, <4>4
        <5> HIDE DEF t, e
        <5> QED
          BY <5>1, AppendDistinct
      <4> QED
        BY <4>1, <4>5
    <3>2. CASE s[n + 1] \notin K
      BY <2>2, <2>3, <2>6, <3>2 DEF next
    <3> QED
      BY <3>1, <3>2
  <2> QED
    BY <2>4, <2>5, <2>6
<1>11. Good(Len(s))
  <2>1. Nat \subseteq S
    <3> HIDE DEF S
    <3> QED
      BY <1>9, <1>10, InductionOnSet
  <2>2. Len(s) \in D /\ Len(s) \in S
    <3> HIDE DEF S
    <3> QED
      BY <1>1, <2>1
  <2> HIDE DEF Good, D
  <2> QED
    BY <2>2
<1>12. \A e : e \in ToSet(s) <=> \E m \in 1..Len(s) : e = s[m]
  BY <1>1 DEF ToSet
<1> QED
  BY <1>7, <1>11, <1>12

(* The elements of a concatenation, such as the stack of the sweep with    *)
(* successors pushed onto it.                                              *)
LEMMA ConcatElements ==
  ASSUME NEW X, NEW s \in Seq(X), NEW t \in Seq(X)
  PROVE  s \o t \in Seq(X) /\ ToSet(s \o t) = ToSet(s) \cup ToSet(t)
<1>1. /\ s \o t \in Seq(X) /\ DOMAIN (s \o t) = 1..(Len(s) + Len(t))
      /\ DOMAIN s = 1..Len(s) /\ DOMAIN t = 1..Len(t) /\ Len(s) \in Nat /\ Len(t) \in Nat
      /\ \A i \in 1..(Len(s) + Len(t)) :
           (s \o t)[i] = IF i <= Len(s) THEN s[i] ELSE t[i - Len(s)]
  BY ConcatProperties
<1>2. ToSet(s \o t) \subseteq ToSet(s) \cup ToSet(t)
  <2> SUFFICES ASSUME NEW i \in 1..(Len(s) + Len(t))
               PROVE  (s \o t)[i] \in ToSet(s) \cup ToSet(t)
    BY <1>1 DEF ToSet
  <2>1. CASE i <= Len(s)
    <3>1. i \in DOMAIN s /\ (s \o t)[i] = s[i]
      BY <1>1, <2>1
    <3> QED
      BY <3>1 DEF ToSet
  <2>2. CASE ~(i <= Len(s))
    <3>1. i - Len(s) \in DOMAIN t
      BY <1>1, <2>2
    <3> QED
      BY <1>1, <2>2, <3>1 DEF ToSet
  <2> QED
    BY <2>1, <2>2
<1>3. ToSet(s) \subseteq ToSet(s \o t)
  <2> SUFFICES ASSUME NEW i \in 1..Len(s) PROVE s[i] \in ToSet(s \o t)
    BY <1>1 DEF ToSet
  <2>1. i \in DOMAIN (s \o t) /\ (s \o t)[i] = s[i]
    BY <1>1
  <2> QED
    BY <2>1 DEF ToSet
<1>4. ToSet(t) \subseteq ToSet(s \o t)
  <2> SUFFICES ASSUME NEW i \in 1..Len(t) PROVE t[i] \in ToSet(s \o t)
    BY <1>1 DEF ToSet
  <2>1. Len(s) + i \in DOMAIN (s \o t) /\ (s \o t)[Len(s) + i] = t[i]
    BY <1>1
  <2> QED
    BY <2>1 DEF ToSet
<1> QED
  BY <1>1, <1>2, <1>3, <1>4

(* FlattenSeq appends one list after the other: part[n] is what there is   *)
(* after the first n.                                                      *)
IsFlattening(part, ss, X) ==
  /\ ss \in Seq(Seq(X)) /\ part \in [1..Len(ss) -> Seq(X)]
  /\ part[1] = ss[1]
  /\ \A i \in 2..Len(ss) : part[i] = part[i - 1] \o ss[i]

LEMMA FlattenSteps ==
  ASSUME NEW X, NEW ss \in Seq(Seq(X)), ss # <<>>
  PROVE  \E part : IsFlattening(part, ss, X) /\ FlattenSeq(ss) = part[Len(ss)]
<1> DEFINE D == 1..Len(ss)
           T == Seq(X)
           base == ss
           pre == [i \in D |-> i - 1]
           step == [p \in D \X T |-> p[2] \o ss[p[1]]]
           Rec(part) == part = [i \in 1..Len(ss) |-> IF i = 1 THEN ss[i] ELSE part[i - 1] \o ss[i]]
           flatten == CHOOSE part : Rec(part)
<1>1. /\ Len(ss) \in Nat /\ Len(ss) # 0 /\ D \subseteq Nat
      /\ \A i \in D : ss[i] \in T
  OBVIOUS
<1>2. WellPosed(D, T, {1}, base, pre, step)
  <2>1. \A i \in D \cap {1} : base[i] \in T
    BY <1>1
  <2>2. \A i \in D \ {1} : pre[i] \in D /\ pre[i] < i
    BY <1>1
  <2>3. \A i \in D : \A t \in T : step[<<i, t>>] = t \o ss[i]
    OBVIOUS
  <2>4. \A i \in D : \A t \in T : t \o ss[i] \in T
    BY <1>1, ConcatProperties
  <2> HIDE DEF D, T, base, pre, step
  <2> QED
    BY <1>1, <2>1, <2>2, <2>3, <2>4 DEF WellPosed
<1>3. \E part \in [D -> T] : Rec(part)
  <2> HIDE DEF D, T, base, pre, step, Rec
  <2>1. PICK part \in [D -> T] : \A i \in D : part[i] = Value(part, i, {1}, base, pre, step)
    BY <1>2, RecursiveFunction
  <2> USE DEF D, base, pre, step
  <2>2. \A i \in D : part[i] = IF i = 1 THEN ss[i] ELSE part[i - 1] \o ss[i]
    <3> SUFFICES ASSUME NEW i \in D
                 PROVE  part[i] = IF i = 1 THEN ss[i] ELSE part[i - 1] \o ss[i]
      OBVIOUS
    <3>1. i # 1 => i - 1 \in D /\ pre[i] = i - 1
      BY <1>1
    <3>2. i # 1 => step[<<i, part[i - 1]>>] = part[i - 1] \o ss[i]
      BY <2>1, <3>1
    <3>3. part[i] = IF i \in {1} THEN base[i] ELSE step[<<i, part[pre[i]]>>]
      BY <2>1 DEF Value
    <3> HIDE DEF step, pre
    <3> QED
      BY <3>1, <3>2, <3>3
  <2>3. Rec(part)
    BY <2>1, <2>2 DEF Rec
  <2> QED
    BY <2>3
<1>4. PICK part \in [D -> T] : Rec(part)
  BY <1>3
<1>5. Rec(flatten)
  <2> HIDE DEF Rec
  <2> QED
    BY <1>4
<1>6. FlattenSeq(ss) = flatten[Len(ss)]
  BY <1>1 DEF FlattenSeq
<1> HIDE DEF flatten
<1>7. \A i \in D : flatten[i] = IF i = 1 THEN ss[i] ELSE flatten[i - 1] \o ss[i]
  BY <1>5
<1>8. \A i \in D : flatten[i] \in T
  <2> DEFINE S == {n \in Nat : n + 1 \in D => flatten[n + 1] \in T}
  <2>1. 0 \in S
    BY <1>1, <1>7
  <2>2. \A n \in Nat : n \in S => n + 1 \in S
    <3> SUFFICES ASSUME NEW n \in Nat, n \in S, (n + 1) + 1 \in D
                 PROVE  flatten[(n + 1) + 1] \in T
      OBVIOUS
    <3>1. n + 1 \in D /\ (n + 1) + 1 # 1 /\ ((n + 1) + 1) - 1 = n + 1
      BY <1>1
    <3>2. flatten[(n + 1) + 1] = flatten[n + 1] \o ss[(n + 1) + 1]
      BY <1>7, <3>1
    <3>3. flatten[n + 1] \in T /\ ss[(n + 1) + 1] \in T
      BY <1>1, <3>1
    <3> QED
      BY <3>2, <3>3, ConcatProperties
  <2>3. Nat \subseteq S
    <3> HIDE DEF S
    <3> QED
      BY <2>1, <2>2, InductionOnSet
  <2> SUFFICES ASSUME NEW i \in D PROVE flatten[i] \in T
    OBVIOUS
  <2>4. i - 1 \in Nat /\ (i - 1) + 1 = i
    BY <1>1
  <2>5. i - 1 \in S
    <3> HIDE DEF S
    <3> QED
      BY <2>3, <2>4
  <2> QED
    BY <2>4, <2>5
<1>9. flatten \in [D -> T]
  BY <1>5, <1>8
<1>10. flatten[1] = ss[1] /\ \A i \in 2..Len(ss) : flatten[i] = flatten[i - 1] \o ss[i]
  <2>1. 1 \in D /\ \A i \in 2..Len(ss) : i \in D /\ i # 1
    BY <1>1
  <2> HIDE DEF D
  <2> QED
    BY <1>7, <2>1
<1>11. IsFlattening(flatten, ss, X)
  BY <1>9, <1>10 DEF IsFlattening
<1> HIDE DEF Rec
<1> QED
  BY <1>6, <1>11

LEMMA FlattenTypes ==
  ASSUME NEW X, NEW ss, NEW part, IsFlattening(part, ss, X)
  PROVE  /\ Len(ss) \in Nat /\ \A n \in 1..Len(ss) : IsList(ss[n]) /\ IsList(part[n])
         /\ 1 \in 1..Len(ss) => part[1] = ss[1]
<1>1. ss \in Seq(Seq(X)) /\ part \in [1..Len(ss) -> Seq(X)] /\ part[1] = ss[1]
  BY DEF IsFlattening
<1>2. Len(ss) \in Nat /\ \A n \in 1..Len(ss) : ss[n] \in Seq(X)
  BY <1>1
<1>3. \A n \in 1..Len(ss) : part[n] \in Seq(X)
  BY <1>1
<1> QED
  BY <1>1, <1>2, <1>3, SeqIsList

Joins(u, s, t) == u = s \o t
LEMMA FlattenNext ==
  ASSUME NEW X, NEW ss, NEW part, IsFlattening(part, ss, X),
         NEW m \in 1..Len(ss), NEW n \in 1..Len(ss), n = m + 1
  PROVE  Joins(part[n], part[m], ss[n])
<1>1. ss \in Seq(Seq(X)) /\ \A i \in 2..Len(ss) : part[i] = part[i - 1] \o ss[i]
  BY DEF IsFlattening
<1>2. n \in 2..Len(ss) /\ n - 1 = m
  BY <1>1
<1>3. part[n] = part[n - 1] \o ss[n]
  BY <1>1, <1>2
<1> QED
  BY <1>2, <1>3 DEF Joins

(* The elements of the first n lists.                                     *)
Among(e, ss, n) == \E i \in 1..n : e \in ToSet(ss[i])
LEMMA FlattenUpTo ==
  ASSUME NEW X, NEW ss, NEW part, IsFlattening(part, ss, X), NEW n \in 1..Len(ss)
  PROVE  \A e : e \in ToSet(part[n]) <=> Among(e, ss, n)
<1> USE DEF Among
<1>1. Len(ss) \in Nat /\ \A i \in 1..Len(ss) : ss[i] \in Seq(X) /\ part[i] \in Seq(X)
  <2>1. ss \in Seq(Seq(X)) /\ part \in [1..Len(ss) -> Seq(X)]
    BY DEF IsFlattening
  <2>2. Len(ss) \in Nat /\ \A i \in 1..Len(ss) : ss[i] \in Seq(X)
    BY <2>1
  <2>3. \A i \in 1..Len(ss) : part[i] \in Seq(X)
    BY <2>1
  <2> QED
    BY <2>2, <2>3
<1> DEFINE All(m) == \A e : e \in ToSet(part[m]) <=> \E i \in 1..m : e \in ToSet(ss[i])
           S == {m \in Nat : m + 1 \in 1..Len(ss) => All(m + 1)}
<1>2. 0 \in S
  BY DEF IsFlattening
<1>3. \A m \in Nat : m \in S => m + 1 \in S
  <2> SUFFICES ASSUME NEW m \in Nat, m \in S, (m + 1) + 1 \in 1..Len(ss)
               PROVE  All((m + 1) + 1)
    <3> HIDE DEF All
    <3> QED
      OBVIOUS
  <2>1. /\ m + 1 \in 1..Len(ss) /\ (m + 1) + 1 \in 2..Len(ss) /\ ((m + 1) + 1) - 1 = m + 1
        /\ 1..((m + 1) + 1) = 1..(m + 1) \cup {(m + 1) + 1}
    BY <1>1
  <2>2. part[(m + 1) + 1] = part[m + 1] \o ss[(m + 1) + 1]
    BY <2>1 DEF IsFlattening
  <2>3. part[m + 1] \in Seq(X) /\ ss[(m + 1) + 1] \in Seq(X)
    BY <1>1, <2>1
  <2>4. ToSet(part[(m + 1) + 1]) = ToSet(part[m + 1]) \cup ToSet(ss[(m + 1) + 1])
    BY <2>2, <2>3, ConcatElements
  <2>5. \A e : e \in ToSet(part[m + 1]) <=> \E i \in 1..(m + 1) : e \in ToSet(ss[i])
    BY <2>1
  <2> QED
    BY <2>1, <2>4, <2>5
<1>4. Nat \subseteq S
  <2> HIDE DEF S
  <2> QED
    BY <1>2, <1>3, InductionOnSet
<1>5. n - 1 \in S /\ (n - 1) + 1 = n
  <2> HIDE DEF S
  <2>1. n - 1 \in Nat /\ (n - 1) + 1 = n
    BY <1>1
  <2> QED
    BY <1>4, <2>1
<1> QED
  BY <1>5

(* What there is after k lists is still there after n >= k.                *)
LEMMA FlattenPrefix ==
  ASSUME NEW X, NEW ss, NEW part, IsFlattening(part, ss, X), NEW k \in 1..Len(ss), NEW n \in k..Len(ss)
  PROVE  /\ Len(part[k]) \in Nat /\ Len(part[n]) \in Nat /\ Len(part[k]) <= Len(part[n])
         /\ \A i \in 1..Len(part[k]) : part[n][i] = part[k][i]
<1>1. Len(ss) \in Nat /\ \A i \in 1..Len(ss) : ss[i] \in Seq(X) /\ part[i] \in Seq(X)
  <2>1. ss \in Seq(Seq(X)) /\ part \in [1..Len(ss) -> Seq(X)]
    BY DEF IsFlattening
  <2>2. Len(ss) \in Nat /\ \A i \in 1..Len(ss) : ss[i] \in Seq(X)
    BY <2>1
  <2>3. \A i \in 1..Len(ss) : part[i] \in Seq(X)
    BY <2>1
  <2> QED
    BY <2>2, <2>3
<1> DEFINE Upto(m) == /\ Len(part[k]) \in Nat /\ Len(part[m]) \in Nat /\ Len(part[k]) <= Len(part[m])
                      /\ \A i \in 1..Len(part[k]) : part[m][i] = part[k][i]
           S == {m \in Nat : k + m \in 1..Len(ss) => Upto(k + m)}
<1>2. 0 \in S
  <2>1. Upto(k)
    BY <1>1
  <2> HIDE DEF Upto
  <2> QED
    BY <2>1
<1>3. \A m \in Nat : m \in S => m + 1 \in S
  <2> HIDE DEF Upto
  <2> SUFFICES ASSUME NEW m \in Nat, m \in S, k + (m + 1) \in 1..Len(ss)
               PROVE  Upto(k + (m + 1))
    OBVIOUS
  <2>1. /\ k + m \in 1..Len(ss) /\ k + (m + 1) \in 2..Len(ss) /\ (k + (m + 1)) - 1 = k + m
    BY <1>1
  <2>2. part[k + (m + 1)] = part[k + m] \o ss[k + (m + 1)]
    BY <2>1 DEF IsFlattening
  <2>3. part[k + m] \in Seq(X) /\ ss[k + (m + 1)] \in Seq(X)
    BY <1>1, <2>1
  <2>4. /\ Len(part[k + (m + 1)]) \in Nat /\ Len(part[k + m]) <= Len(part[k + (m + 1)])
        /\ \A i \in 1..Len(part[k + m]) : part[k + (m + 1)][i] = part[k + m][i]
    <3> DEFINE s == part[k + m]
               t == ss[k + (m + 1)]
    <3> HIDE DEF s, t
    <3>1. s \in Seq(X) /\ t \in Seq(X)
      BY <2>3 DEF s, t
    <3>2. /\ Len(s \o t) \in Nat /\ Len(s) <= Len(s \o t)
          /\ \A i \in 1..Len(s) : (s \o t)[i] = s[i]
      BY <3>1
    <3> QED
      BY <2>2, <3>2 DEF s, t
  <2>5. Upto(k + m)
    BY <2>1
  <2>6. 1..Len(part[k]) \subseteq 1..Len(part[k + m]) /\ Len(part[k]) <= Len(part[k + (m + 1)])
    BY <2>4, <2>5 DEF Upto
  <2> QED
    BY <2>4, <2>5, <2>6 DEF Upto
<1>4. Nat \subseteq S
  <2> HIDE DEF S
  <2> QED
    BY <1>2, <1>3, InductionOnSet
<1>5. n - k \in S /\ k + (n - k) = n /\ n \in 1..Len(ss)
  <2> HIDE DEF S
  <2>1. n - k \in Nat /\ k + (n - k) = n /\ n \in 1..Len(ss)
    BY <1>1
  <2> QED
    BY <1>4, <2>1
<1>6. Upto(n)
  <2> HIDE DEF Upto
  <2> QED
    BY <1>5
<1> QED
  BY <1>6

(* The elements of a concatenation of lists, as in Predecessors.           *)
LEMMA FlattenElements ==
  ASSUME NEW X, NEW ss \in Seq(Seq(X)), ss # <<>>
  PROVE  /\ FlattenSeq(ss) \in Seq(X)
         /\ \A e : e \in ToSet(FlattenSeq(ss)) <=> \E i \in 1..Len(ss) : e \in ToSet(ss[i])
<1>1. PICK part : IsFlattening(part, ss, X) /\ FlattenSeq(ss) = part[Len(ss)]
  BY FlattenSteps
<1>2. Len(ss) \in 1..Len(ss) /\ part[Len(ss)] \in Seq(X)
  BY <1>1 DEF IsFlattening
<1>3. \A e : e \in ToSet(part[Len(ss)]) <=> Among(e, ss, Len(ss))
  BY <1>1, <1>2, FlattenUpTo
<1> QED
  BY <1>1, <1>2, <1>3 DEF Among

-----------------------------------------------------------------------------
(* A recursion along 1, 2, ..., n from a base value.                       *)
StaysIn(T, n, step) == \A i \in 1..n : \A t \in T : step[<<i, t>>] \in T
LEMMA ListRecursion ==
  ASSUME NEW n \in Nat, NEW T, NEW base \in T, NEW step, StaysIn(T, n, step)
  PROVE  \E h \in [0..n -> T] :
           h[0] = base /\ \A i \in 1..n : h[i] = step[<<i, h[i - 1]>>]
<1> DEFINE D == 0..n
           at == [i \in {0} |-> base]
           pre == [i \in D |-> i - 1]
<1>1. \A i \in D : i # 0 => i \in 1..n /\ i - 1 \in D /\ pre[i] = i - 1 /\ pre[i] < i
  OBVIOUS
<1>2. WellPosed(D, T, {0}, at, pre, step)
  <2>1. D \subseteq Nat /\ \A i \in D \cap {0} : at[i] \in T
    OBVIOUS
  <2>2. \A i \in D \ {0} : i \in 1..n /\ \A t \in T : step[<<i, t>>] \in T
    BY <1>1 DEF StaysIn
  <2> HIDE DEF D, at, pre
  <2> QED
    BY <1>1, <2>1, <2>2 DEF WellPosed
<1>3. PICK h \in [D -> T] : \A i \in D : h[i] = Value(h, i, {0}, at, pre, step)
  <2> HIDE DEF D, at, pre
  <2> QED
    BY <1>2, RecursiveFunction
<1>4. h[0] = base /\ \A i \in 1..n : h[i] = step[<<i, h[i - 1]>>]
  <2>1. 0 \in D /\ at[0] = base /\ \A i \in 1..n : i \in D /\ i # 0
    OBVIOUS
  <2> HIDE DEF D, at, pre
  <2> QED
    BY <1>1, <1>3, <2>1 DEF Value
<1> QED
  BY <1>3, <1>4

-----------------------------------------------------------------------------
(* One list after another.                                                 *)
LEMMA ConcatLists ==
  ASSUME NEW s, IsList(s), NEW t, IsList(t)
  PROVE  /\ IsList(s \o t) /\ Len(s \o t) = Len(s) + Len(t)
         /\ DOMAIN (s \o t) = 1..(Len(s) + Len(t))
         /\ \A i \in 1..Len(s) : (s \o t)[i] = s[i]
         /\ \A i \in 1..Len(t) : (s \o t)[Len(s) + i] = t[i]
         /\ ToSet(s \o t) = ToSet(s) \cup ToSet(t)
<1> DEFINE X == ToSet(s) \cup ToSet(t)
<1>1. s \in Seq(X) /\ t \in Seq(X) /\ Len(s) \in Nat /\ Len(t) \in Nat
  BY ListFacts
<1> HIDE DEF X
<1>2. s \o t \in Seq(X) /\ ToSet(s \o t) = ToSet(s) \cup ToSet(t)
  BY <1>1, ConcatElements
<1>3. /\ Len(s \o t) = Len(s) + Len(t)
      /\ DOMAIN (s \o t) = 1..(Len(s) + Len(t))
      /\ \A i \in 1..(Len(s) + Len(t)) :
           (s \o t)[i] = IF i <= Len(s) THEN s[i] ELSE t[i - Len(s)]
  BY <1>1
<1>4. \A i \in 1..Len(t) : Len(s) + i \in 1..(Len(s) + Len(t)) /\ ~(Len(s) + i <= Len(s))
                            /\ (Len(s) + i) - Len(s) = i
  BY <1>1
<1>5. \A i \in 1..Len(s) : i \in 1..(Len(s) + Len(t)) /\ i <= Len(s)
  BY <1>1
<1> QED
  BY <1>2, <1>3, <1>4, <1>5, SeqIsList

LEMMA NestedLists ==
  ASSUME NEW ss, IsList(ss), \A i \in DOMAIN ss : IsList(ss[i])
  PROVE  ss \in Seq(Seq(UNION {ToSet(ss[i]) : i \in DOMAIN ss}))
<1> DEFINE X == UNION {ToSet(ss[i]) : i \in DOMAIN ss}
<1>1. Len(ss) \in Nat /\ DOMAIN ss = 1..Len(ss) /\ ss = [i \in 1..Len(ss) |-> ss[i]]
  BY DEF IsList
<1>2. \A i \in DOMAIN ss : ss[i] \in Seq(X)
  BY ListFacts
<1> HIDE DEF X
<1>3. ss \in Seq(Seq(X))
  BY <1>1, <1>2
<1> QED
  BY <1>3 DEF X

LEMMA ListsAssociative ==
  ASSUME NEW s, IsList(s), NEW t, IsList(t), NEW u, IsList(u)
  PROVE  s \o (t \o u) = (s \o t) \o u
<1> DEFINE X == ToSet(s) \cup ToSet(t) \cup ToSet(u)
<1>1. s \in Seq(X) /\ t \in Seq(X) /\ u \in Seq(X)
  BY ListFacts
<1> HIDE DEF X
<1> QED
  BY <1>1, ConcatAssociative

(* Lists without repetition.                                               *)
LEMMA ConcatDistinct ==
  ASSUME NEW s, IsList(s), IsInjective(s), NEW t, IsList(t), IsInjective(t),
         ToSet(s) \cap ToSet(t) = {}
  PROVE  IsInjective(s \o t)
<1>1. /\ Len(s) \in Nat /\ DOMAIN s = 1..Len(s) /\ Len(t) \in Nat /\ DOMAIN t = 1..Len(t)
      /\ DOMAIN (s \o t) = 1..(Len(s) + Len(t))
      /\ \A i \in 1..Len(s) : (s \o t)[i] = s[i]
      /\ \A i \in 1..Len(t) : (s \o t)[Len(s) + i] = t[i]
  BY ConcatLists, ListFacts
<1>2. \A i \in 1..Len(s) : \A j \in 1..Len(t) : s[i] # t[j]
  BY <1>1, ListFacts
<1>3. \A i \in 1..(Len(s) + Len(t)) : i \in 1..Len(s) \/ \E j \in 1..Len(t) : i = Len(s) + j
  <2> SUFFICES ASSUME NEW i \in 1..(Len(s) + Len(t)), i \notin 1..Len(s)
               PROVE  \E j \in 1..Len(t) : i = Len(s) + j
    OBVIOUS
  <2>1. i - Len(s) \in 1..Len(t) /\ i = Len(s) + (i - Len(s))
    BY <1>1
  <2> QED
    BY <2>1
<1> SUFFICES ASSUME NEW i \in 1..(Len(s) + Len(t)), NEW j \in 1..(Len(s) + Len(t)),
                    (s \o t)[i] = (s \o t)[j]
             PROVE  i = j
  BY <1>1 DEF IsInjective
<1>4. CASE i \in 1..Len(s) /\ j \in 1..Len(s)
  BY <1>1, <1>4 DEF IsInjective
<1>5. CASE i \in 1..Len(s) /\ j \notin 1..Len(s)
  <2>1. PICK k \in 1..Len(t) : j = Len(s) + k
    BY <1>3, <1>5
  <2> QED
    BY <1>1, <1>2, <1>5, <2>1
<1>6. CASE i \notin 1..Len(s) /\ j \in 1..Len(s)
  <2>1. PICK k \in 1..Len(t) : i = Len(s) + k
    BY <1>3, <1>6
  <2> QED
    BY <1>1, <1>2, <1>6, <2>1
<1>7. CASE i \notin 1..Len(s) /\ j \notin 1..Len(s)
  <2>1. PICK k \in 1..Len(t) : i = Len(s) + k
    BY <1>3, <1>7
  <2>2. PICK l \in 1..Len(t) : j = Len(s) + l
    BY <1>3, <1>7
  <2>3. k = l
    BY <1>1, <2>1, <2>2 DEF IsInjective
  <2> QED
    BY <2>1, <2>2, <2>3
<1> QED
  BY <1>4, <1>5, <1>6, <1>7

LEMMA HeadTail ==
  ASSUME NEW s, IsList(s), s # <<>>
  PROVE  /\ IsList(Tail(s)) /\ ToSet(s) = {Head(s)} \cup ToSet(Tail(s))
         /\ IsInjective(s) => IsInjective(Tail(s)) /\ Head(s) \notin ToSet(Tail(s))
<1> DEFINE X == ToSet(s)
<1>1. s \in Seq(X)
  BY ListFacts
<1> HIDE DEF X
<1>2. /\ Len(s) \in Nat \ {0} /\ DOMAIN s = 1..Len(s) /\ Head(s) = s[1]
      /\ Tail(s) \in Seq(X) /\ DOMAIN Tail(s) = 1..(Len(s) - 1)
      /\ \A i \in 1..(Len(s) - 1) : Tail(s)[i] = s[i + 1]
  BY <1>1
<1>3. \A i \in 1..Len(s) : i = 1 \/ (i - 1 \in 1..(Len(s) - 1) /\ (i - 1) + 1 = i)
  BY <1>2
<1>4. \A i \in 1..(Len(s) - 1) : i + 1 \in 1..Len(s) /\ i + 1 # 1
  BY <1>2
<1>5. 1 \in 1..Len(s)
  BY <1>2
<1>6. ToSet(s) \subseteq {Head(s)} \cup ToSet(Tail(s))
  <2> SUFFICES ASSUME NEW i \in 1..Len(s) PROVE s[i] \in {Head(s)} \cup ToSet(Tail(s))
    BY <1>2 DEF ToSet
  <2>1. CASE i = 1
    BY <1>2, <2>1
  <2>2. CASE i # 1
    <3>1. i - 1 \in 1..(Len(s) - 1) /\ (i - 1) + 1 = i
      BY <1>3, <2>2
    <3>2. s[i] = Tail(s)[i - 1]
      BY <1>2, <3>1
    <3> QED
      BY <1>2, <3>1, <3>2 DEF ToSet
  <2> QED
    BY <2>1, <2>2
<1>7. {Head(s)} \cup ToSet(Tail(s)) \subseteq ToSet(s)
  BY <1>2, <1>4, <1>5 DEF ToSet
<1>8. ASSUME IsInjective(s) PROVE IsInjective(Tail(s)) /\ Head(s) \notin ToSet(Tail(s))
  <2>1. \A i \in 1..(Len(s) - 1), j \in 1..(Len(s) - 1) : i + 1 = j + 1 => i = j
    BY <1>2
  <2>2. IsInjective(Tail(s))
    BY <1>2, <1>4, <1>8, <2>1 DEF IsInjective
  <2>3. \A i \in 1..(Len(s) - 1) : s[i + 1] # s[1]
    BY <1>2, <1>4, <1>5, <1>8 DEF IsInjective
  <2> QED
    BY <1>2, <2>2, <2>3 DEF ToSet
<1> QED
  BY <1>2, <1>6, <1>7, <1>8, SeqIsList

LEMMA LastFront ==
  ASSUME NEW s, IsList(s), s # <<>>
  PROVE  /\ IsList(Front(s)) /\ ToSet(s) = ToSet(Front(s)) \cup {Last(s)}
         /\ IsInjective(s) => IsInjective(Front(s)) /\ Last(s) \notin ToSet(Front(s))
<1> DEFINE X == ToSet(s)
<1>1. s \in Seq(X)
  BY ListFacts
<1> HIDE DEF X
<1>2. /\ Len(s) \in Nat \ {0} /\ DOMAIN s = 1..Len(s) /\ Len(s) \in DOMAIN s
      /\ Last(s) = s[Len(s)] /\ Front(s) \in Seq(X) /\ DOMAIN Front(s) = 1..(Len(s) - 1)
      /\ \A i \in 1..(Len(s) - 1) : Front(s)[i] = s[i]
      /\ ToSet(s) = ToSet(Front(s)) \cup {Last(s)}
  BY <1>1, FrontLast
<1>3. \A i \in 1..(Len(s) - 1) : i \in 1..Len(s) /\ i # Len(s)
  <2>1. Len(s) \in Nat
    BY <1>2
  <2> QED
    BY <2>1
<1>4. ASSUME IsInjective(s) PROVE IsInjective(Front(s)) /\ Last(s) \notin ToSet(Front(s))
  <2>1. IsInjective(Front(s))
    BY <1>2, <1>3, <1>4 DEF IsInjective
  <2>2. \A i \in 1..(Len(s) - 1) : s[i] # s[Len(s)]
    BY <1>2, <1>3, <1>4 DEF IsInjective
  <2> QED
    BY <1>2, <2>1, <2>2 DEF ToSet
<1> QED
  BY <1>2, <1>4, SeqIsList

(* The images of a list.                                                   *)
LEMMA ImageList ==
  ASSUME NEW s, IsList(s), NEW h
  PROVE  LET t == [i \in 1..Len(s) |-> h[s[i]]]
         IN  /\ IsList(t) /\ ToSet(t) = {h[e] : e \in ToSet(s)}
             /\ IsInjective(s) /\ (\A d, e \in ToSet(s) : h[d] = h[e] => d = e) => IsInjective(t)
<1> DEFINE t == [i \in 1..Len(s) |-> h[s[i]]]
<1>1. Len(s) \in Nat /\ DOMAIN s = 1..Len(s) /\ \A i \in 1..Len(s) : s[i] \in ToSet(s)
  BY ListFacts
<1>2. t = [i \in 1..Len(s) |-> t[i]]
  OBVIOUS
<1>3. DOMAIN t = 1..Len(s) /\ \A i \in 1..Len(s) : t[i] = h[s[i]]
  OBVIOUS
<1> HIDE DEF t
<1>4. IsList(t)
  BY <1>1, <1>2, FunctionIsList
<1>5. ToSet(t) = {h[e] : e \in ToSet(s)}
  BY <1>1, <1>3 DEF ToSet
<1>6. IsInjective(s) /\ (\A d, e \in ToSet(s) : h[d] = h[e] => d = e) => IsInjective(t)
  BY <1>1, <1>3 DEF IsInjective
<1> QED
  BY <1>4, <1>5, <1>6 DEF t

-----------------------------------------------------------------------------
(* What is appended up to each list, from none on.                         *)
Chain(h, ss) ==
  /\ h[0] = <<>>
  /\ \A i \in 1..Len(ss) : Joins(h[i], h[i - 1], ss[i])

LEMMA EmptyConcat ==
  ASSUME NEW s, IsList(s)
  PROVE  s \o <<>> = s /\ <<>> \o s = s
<1>1. s \in Seq(ToSet(s))
  BY DEF IsList
<1> QED
  BY <1>1

LEMMA FlattenChain ==
  ASSUME NEW ss, IsList(ss), \A i \in 1..Len(ss) : IsList(ss[i])
  PROVE  \E h : /\ Chain(h, ss) /\ FlattenSeq(ss) = h[Len(ss)]
                /\ \A i \in 0..Len(ss) : IsList(h[i])
<1>1. Len(ss) \in Nat /\ DOMAIN ss = 1..Len(ss)
  BY ListFacts
<1>2. IsList(<<>>)
  BY DEF IsList, ToSet
<1>3. CASE ss = <<>>
  <2> DEFINE h == [i \in {0} |-> <<>>]
  <2>1. Len(ss) = 0 /\ FlattenSeq(ss) = <<>>
    BY <1>3 DEF FlattenSeq
  <2>2. h[0] = <<>> /\ \A i \in 0..Len(ss) : i = 0
    BY <2>1
  <2>3. \A i \in 1..Len(ss) : FALSE
    BY <2>1
  <2> HIDE DEF h
  <2> QED
    BY <1>2, <2>1, <2>2, <2>3 DEF Chain
<1>4. CASE ss # <<>>
  <2> DEFINE X == UNION {ToSet(ss[i]) : i \in DOMAIN ss}
  <2>1. ss \in Seq(Seq(X))
    BY <1>1, NestedLists
  <2> HIDE DEF X
  <2>2. PICK part : IsFlattening(part, ss, X) /\ FlattenSeq(ss) = part[Len(ss)]
    BY <1>4, <2>1, FlattenSteps
  <2> DEFINE h == [i \in 0..Len(ss) |-> IF i = 0 THEN <<>> ELSE part[i]]
  <2>3. /\ h[0] = <<>> /\ \A i \in 1..Len(ss) : h[i] = part[i]
        /\ Len(ss) \in 1..Len(ss)
    BY <1>1, <1>4, <2>1
  <2>4. \A i \in 0..Len(ss) : i = 0 \/ i \in 1..Len(ss)
    BY <1>1
  <2> HIDE DEF h
  <2>5. \A i \in 0..Len(ss) : IsList(h[i])
    BY <1>2, <2>2, <2>3, <2>4, FlattenTypes
  <2>6. ASSUME NEW i \in 1..Len(ss) PROVE Joins(h[i], h[i - 1], ss[i])
    <3>1. CASE i = 1
      <4>1. part[1] = ss[1] /\ i - 1 = 0
        BY <2>2, <3>1, FlattenTypes
      <4> QED
        BY <2>3, <3>1, <4>1, EmptyConcat DEF Joins
    <3>2. CASE i # 1
      <4>1. i - 1 \in 1..Len(ss) /\ i = (i - 1) + 1
        BY <1>1, <3>2
      <4>2. Joins(part[i], part[i - 1], ss[i])
        BY <2>2, <4>1, FlattenNext
      <4> QED
        BY <2>3, <4>1, <4>2
    <3> QED
      BY <3>1, <3>2
  <2> QED
    BY <2>2, <2>3, <2>5, <2>6 DEF Chain
<1> QED
  BY <1>3, <1>4

LEMMA ChainOnce ==
  ASSUME NEW ss, Len(ss) \in Nat, NEW g, Chain(g, ss), NEW h, Chain(h, ss), NEW n \in 0..Len(ss)
  PROVE  g[n] = h[n]
<1> DEFINE S == {i \in Nat : i \in 0..Len(ss) => g[i] = h[i]}
<1>1. 0 \in S
  BY DEF Chain
<1>2. ASSUME NEW i \in Nat, i \in S PROVE i + 1 \in S
  <2> SUFFICES ASSUME i + 1 \in 0..Len(ss) PROVE g[i + 1] = h[i + 1]
    OBVIOUS
  <2>1. i \in 0..Len(ss) /\ i + 1 \in 1..Len(ss) /\ (i + 1) - 1 = i
    OBVIOUS
  <2>2. g[i] = h[i]
    BY <1>2, <2>1
  <2>3. Joins(g[i + 1], g[(i + 1) - 1], ss[i + 1]) /\ Joins(h[i + 1], h[(i + 1) - 1], ss[i + 1])
    BY <2>1 DEF Chain
  <2> QED
    BY <2>1, <2>2, <2>3 DEF Joins
<1> HIDE DEF S
<1>3. Nat \subseteq S
  BY <1>1, <1>2, InductionOnSet
<1> QED
  BY <1>3 DEF S
=============================================================================
