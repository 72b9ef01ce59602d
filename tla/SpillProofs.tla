---------------------------- MODULE SpillProofs ----------------------------
(***************************************************************************)
(* Proofs about the back end: the search for back edges, the intervals and *)
(* their second computation after spilling, and the allocation.            *)
(***************************************************************************)
EXTENDS CodegenProofs

-----------------------------------------------------------------------------
(* The search for back edges.  The targets it goes through are the         *)
(* successors.                                                             *)
LEMMA TargetList ==
  ASSUME IsMachine(mf), NEW b \in BlkIds
  PROVE  IsList(TargetSeq(b)) /\ ToSet(TargetSeq(b)) = BlkSuccs(mf, b)
<1> DEFINE ts == [i \in 1..Len(mf[b]) |-> mf[b][i].to]
<1>1. IsList(mf) /\ b \in DOMAIN mf
  BY ListFacts DEF IsMachine, BlkIds
<1>2. IsList(mf[b]) /\ Len(mf[b]) \in Nat /\ DOMAIN mf[b] = 1..Len(mf[b])
  BY <1>1, ListFacts DEF IsMachine
<1>3. \A i \in 1..Len(mf[b]) : IsList(mf[b][i].to)
  BY <1>1, <1>2 DEF IsMachine, IsInstr
<1>4. IsList(ts) /\ Len(ts) = Len(mf[b]) /\ DOMAIN ts = 1..Len(mf[b])
  BY <1>2, FunctionIsList, Zenon
<1>5. TargetSeq(b) = FlattenSeq(ts)
  BY DEF TargetSeq
<1>6. \A e : e \in BlkSuccs(mf, b) <=> \E i \in 1..Len(ts) : e \in ToSet(ts[i])
  BY <1>4 DEF BlkSuccs, Targets
<1>7. \A i \in DOMAIN ts : IsList(ts[i])
  BY <1>3, <1>4
<1> HIDE DEF ts
<1>8. CASE ts = <<>>
  <2>1. FlattenSeq(ts) = ts /\ Len(ts) = 0
    BY <1>8 DEF FlattenSeq
  <2>2. IsList(<<>>) /\ ToSet(<<>>) = {}
    BY DEF IsList, ToSet
  <2> QED
    BY <1>5, <1>6, <1>8, <2>1, <2>2
<1>9. CASE ts # <<>>
  <2> DEFINE X == UNION {ToSet(ts[i]) : i \in DOMAIN ts}
  <2>1. ts \in Seq(Seq(X))
    BY <1>4, <1>7, NestedLists
  <2> HIDE DEF X
  <2>2. /\ FlattenSeq(ts) \in Seq(X)
        /\ \A e : e \in ToSet(FlattenSeq(ts)) <=> \E i \in 1..Len(ts) : e \in ToSet(ts[i])
    BY <1>9, <2>1, FlattenElements
  <2>3. IsList(FlattenSeq(ts))
    BY <2>2, SeqIsList
  <2> QED
    BY <1>5, <1>6, <2>2, <2>3
<1> QED
  BY <1>8, <1>9

(* Where the search stands: gray blocks are those of the stack, each of    *)
(* which is a successor of the one below.                                  *)
SearchTypes ==
  /\ color \in [BlkIds -> {"white", "gray", "black"}]
  /\ stack \in Seq([blk : BlkIds, next : Nat \ {0}])
  /\ IsList(backEdges)
OnPath ==
  /\ \A b \in BlkIds : color[b] = "gray" <=> \E i \in DOMAIN stack : stack[i].blk = b
  /\ \A i, j \in DOMAIN stack : stack[i].blk = stack[j].blk => i = j
  /\ \A i \in DOMAIN stack : i + 1 \in DOMAIN stack => stack[i + 1].blk \in BlkSuccs(mf, stack[i].blk)

(* An edge the search need not follow any more; those of a block on the    *)
(* stack up to its next target, but for the one to the block above; those  *)
(* of a black block.                                                       *)
Settled(b, t) == <<b, t>> \in ToSet(backEdges) \/ color[t] = "black"
PassedAt(i, k, b, t) ==
  b = stack[i].blk /\ t = TargetSeq(b)[k] =>
    Settled(b, t) \/ (i + 1 \in DOMAIN stack /\ stack[i + 1].blk = t)
Passed ==
  \A i \in DOMAIN stack : \A k \in 1..(stack[i].next - 1) :
    \A b, t \in BlkIds : PassedAt(i, k, b, t)
AllSettled ==
  \A b \in BlkIds : color[b] = "black" => \A t \in BlkSuccs(mf, b) \cap BlkIds : Settled(b, t)

(* No cycle of black blocks is without a back edge.                        *)
Untied(S) == \E b \in S : \A t \in S : t \in BlkSuccs(mf, b) => <<b, t>> \in ToSet(backEdges)
BlackAcyclic == \A S \in (SUBSET BlkIds) \ {{}} : (\A b \in S : color[b] = "black") => Untied(S)

(* A back edge leads to a block from which its source can be reached.      *)
Closed(S) == \A x \in S : color[x] # "white" => BlkSuccs(mf, x) \cap BlkIds \subseteq S
IsLoop(b, t) ==
  /\ t \in BlkSuccs(mf, b) /\ color[b] # "white"
  /\ \A S \in SUBSET BlkIds : t \in S /\ Closed(S) => b \in S
LoopsFound == \A e \in ToSet(backEdges) : \E b, t \in BlkIds : e = <<b, t>> /\ IsLoop(b, t)

SearchInv == SearchTypes /\ OnPath /\ Passed /\ AllSettled /\ BlackAcyclic /\ LoopsFound

(* What a visit looks at, and the stack with the next target noted.        *)
Top == stack[Len(stack)]
Target == TargetSeq(Top.blk)[Top.next]
Advanced == [stack EXCEPT ![Len(stack)].next = @ + 1]

LEMMA VisitFacts ==
  ASSUME IsMachine(mf), SearchTypes, Visit
  PROVE  /\ mf' = mf
         /\ Len(stack) \in Nat \ {0} /\ DOMAIN stack = 1..Len(stack) /\ Top.blk \in BlkIds
         /\ Top.next \in Nat \ {0} /\ Target \in BlkSuccs(mf, Top.blk)
         /\ Advanced \in Seq([blk : BlkIds, next : Nat \ {0}]) /\ DOMAIN Advanced = DOMAIN stack
         /\ Len(Advanced) = Len(stack)
         /\ \A i \in DOMAIN stack : Advanced[i].blk = stack[i].blk
         /\ \A i \in DOMAIN stack : i # Len(stack) => Advanced[i].next = stack[i].next
         /\ Advanced[Len(stack)].next = Top.next + 1
<1> DEFINE E == [blk : BlkIds, next : Nat \ {0}]
<1>1. stack \in Seq(E) /\ stack # <<>> /\ mf' = mf
  BY DEF SearchTypes, Visit
<1>2. /\ Len(stack) \in Nat \ {0} /\ DOMAIN stack = 1..Len(stack) /\ Len(stack) \in DOMAIN stack
      /\ Last(stack) \in E /\ Last(stack) = stack[Len(stack)]
  <2> HIDE DEF E
  <2> QED
    BY <1>1, FrontLast
<1>3. Top = Last(stack) /\ Top.blk \in BlkIds /\ Top.next \in Nat \ {0}
  BY <1>2 DEF Top
<1>4. Top.next <= Len(TargetSeq(Top.blk))
  BY <1>3 DEF Visit
<1>5. IsList(TargetSeq(Top.blk)) /\ ToSet(TargetSeq(Top.blk)) = BlkSuccs(mf, Top.blk)
  BY <1>3, TargetList
<1>6. Target \in BlkSuccs(mf, Top.blk)
  <2>1. Top.next \in DOMAIN TargetSeq(Top.blk)
    BY <1>3, <1>4, <1>5, ListFacts
  <2> QED
    BY <1>5, <2>1, ListFacts DEF Target
<1>7. /\ Advanced \in Seq(E) /\ DOMAIN Advanced = DOMAIN stack /\ Len(Advanced) = Len(stack)
      /\ \A i \in DOMAIN stack : i # Len(stack) => Advanced[i] = stack[i]
      /\ Advanced[Len(stack)] = [Top EXCEPT !.next = @ + 1]
  BY <1>1, <1>2, <1>3 DEF Advanced, Top
<1>8. Top \in E
  BY <1>2, <1>3
<1>9. Advanced[Len(stack)].next = Top.next + 1 /\ Advanced[Len(stack)].blk = Top.blk
  BY <1>7, <1>8
<1> QED
  BY <1>1, <1>2, <1>3, <1>6, <1>7, <1>9 DEF Top

(* The three things that may come of a target.                             *)
LEMMA VisitOutcome ==
  ASSUME IsMachine(mf), SearchTypes, Visit
  PROVE  \/ /\ Target \in BlkIds /\ color[Target] = "white"
            /\ color' = [color EXCEPT ![Target] = "gray"]
            /\ stack' = Append(Advanced, [blk |-> Target, next |-> 1]) /\ backEdges' = backEdges
         \/ /\ Target \in BlkIds /\ color[Target] = "gray"
            /\ color' = color /\ stack' = Advanced
            /\ backEdges' = Append(backEdges, <<Top.blk, Target>>)
         \/ /\ Target \in BlkIds => color[Target] = "black"
            /\ color' = color /\ stack' = Advanced /\ backEdges' = backEdges
<1>1. Last(stack) = Top
  BY FrontLast DEF SearchTypes, Visit, Top
<1>2. Target \in BlkIds => color[Target] \in {"white", "gray", "black"}
  BY DEF SearchTypes
<1>3. /\ IF Target \in BlkIds /\ color[Target] = "white"
         THEN /\ color' = [color EXCEPT ![Target] = "gray"]
              /\ stack' = Append(Advanced, [blk |-> Target, next |-> 1])
         ELSE color' = color /\ stack' = Advanced
      /\ backEdges' = IF Target \in BlkIds /\ color[Target] = "gray"
                      THEN Append(backEdges, <<Top.blk, Target>>) ELSE backEdges
  BY <1>1, Zenon DEF Visit, Target, Advanced
<1> QED
  BY <1>2, <1>3

(* What has been found stays found as blocks are entered and left.         *)
Onward ==
  /\ mf' = mf
  /\ ToSet(backEdges) \subseteq ToSet(backEdges')
  /\ \A b \in BlkIds : /\ color[b] = "black" => color'[b] = "black"
                       /\ color[b] # "white" => color'[b] # "white"

LEMMA StaysFound ==
  ASSUME IsMachine(mf), Onward
  PROVE  /\ BlkIds' = BlkIds
         /\ \A b, t \in BlkIds : Settled(b, t) => Settled(b, t)'
         /\ \A S \in SUBSET BlkIds : Untied(S) => Untied(S)'
         /\ \A b, t \in BlkIds : IsLoop(b, t) => IsLoop(b, t)'
<1>1. mf' = mf /\ BlkIds' = BlkIds
  BY DEF Onward, BlkIds
<1>2. \A b, t \in BlkIds : Settled(b, t) => Settled(b, t)'
  BY DEF Onward, Settled
<1>3. \A S \in SUBSET BlkIds : Untied(S) => Untied(S)'
  BY <1>1 DEF Onward, Untied
<1>4. \A S \in SUBSET BlkIds : Closed(S)' => Closed(S)
  BY <1>1 DEF Onward, Closed
<1>5. ASSUME NEW b \in BlkIds, NEW t \in BlkIds, IsLoop(b, t) PROVE IsLoop(b, t)'
  <2>1. t \in BlkSuccs(mf, b) /\ color'[b] # "white"
    BY <1>5 DEF IsLoop, Onward
  <2>2. \A S \in SUBSET BlkIds : t \in S /\ Closed(S) => b \in S
    BY <1>5 DEF IsLoop
  <2>3. \A S \in SUBSET BlkIds' : t \in S /\ Closed(S)' => b \in S
    BY <1>1, <1>4, <2>2
  <2> QED
    BY <1>1, <2>1, <2>3 DEF IsLoop
<1> QED
  BY <1>1, <1>2, <1>3, <1>5

LEMMA StackEntries ==
  ASSUME SearchTypes
  PROVE  /\ Len(stack) \in Nat /\ DOMAIN stack = 1..Len(stack)
         /\ \A i \in DOMAIN stack : stack[i].blk \in BlkIds /\ stack[i].next \in Nat \ {0}
<1> DEFINE E == [blk : BlkIds, next : Nat \ {0}]
<1>1. \A i \in DOMAIN stack : stack[i] \in E
  BY SeqElement DEF SearchTypes
<1> QED
  BY <1>1 DEF SearchTypes

(* Every set that contains a stacked block and is closed contains all above*)
(* it.                                                                     *)
LEMMA StackReaches ==
  ASSUME SearchTypes, OnPath, NEW j \in DOMAIN stack, NEW S \in SUBSET BlkIds,
         stack[j].blk \in S, Closed(S)
  PROVE  \A i \in DOMAIN stack : i >= j => stack[i].blk \in S
<1>1. Len(stack) \in Nat /\ DOMAIN stack = 1..Len(stack)
  BY DEF SearchTypes
<1> DEFINE Out == {i \in DOMAIN stack : i >= j /\ stack[i].blk \notin S}
<1>2. SUFFICES ASSUME Out # {} PROVE FALSE
  OBVIOUS
<1>3. Out \subseteq Nat
  BY <1>1
<1>4. PICK m \in Out : \A i \in Out : m <= i
  <2> HIDE DEF Out
  <2> QED
    BY <1>2, <1>3, LeastNatural
<1> DEFINE k == m - 1
<1>5. /\ m \in DOMAIN stack /\ m >= j /\ stack[m].blk \notin S
      /\ k \in DOMAIN stack /\ k >= j /\ k + 1 = m
  BY <1>1, <1>4
<1>6. stack[k].blk \in S
  BY <1>1, <1>4, <1>5
<1> HIDE DEF k, Out
<1>7. stack[m].blk \in BlkSuccs(mf, stack[k].blk) /\ stack[m].blk \in BlkIds
  BY <1>5, StackEntries DEF OnPath
<1>8. color[stack[k].blk] = "gray"
  <2>1. stack[k].blk \in BlkIds
    BY <1>5, StackEntries
  <2> QED
    BY <1>5, <2>1 DEF OnPath
<1> QED
  BY <1>5, <1>6, <1>7, <1>8 DEF Closed

LEMMA LastIndex ==
  ASSUME NEW n \in Nat, NEW m, m = n + 1, NEW k \in 1..(m - 1), k \notin 1..(n - 1)
  PROVE  k = n
OBVIOUS

(* A target that is entered.                                               *)
LEMMA EnterKeeps ==
  ASSUME IsMachine(mf), SearchInv, Visit,
         Target \in BlkIds, color[Target] = "white",
         color' = [color EXCEPT ![Target] = "gray"],
         stack' = Append(Advanced, [blk |-> Target, next |-> 1]), backEdges' = backEdges
  PROVE  SearchInv'
<1> USE DEF SearchInv
<1> DEFINE n == Len(stack)
           e == [blk |-> Target, next |-> 1]
           E == [blk : BlkIds, next : Nat \ {0}]
<1>1. /\ mf' = mf /\ n \in Nat \ {0} /\ DOMAIN stack = 1..n /\ Top.blk \in BlkIds
      /\ Top.next \in Nat \ {0} /\ Target \in BlkSuccs(mf, Top.blk)
      /\ Advanced \in Seq(E) /\ DOMAIN Advanced = 1..n /\ Len(Advanced) = n
      /\ \A i \in 1..n : Advanced[i].blk = stack[i].blk
      /\ \A i \in 1..n : i # n => Advanced[i].next = stack[i].next
      /\ Advanced[n].next = Top.next + 1
  BY VisitFacts
<1>2. e \in E /\ e.blk = Target /\ e.next = 1
  OBVIOUS
<1> HIDE DEF E, e, n
<1>3. /\ stack' \in Seq(E) /\ DOMAIN stack' = 1..(n + 1)
      /\ \A i \in 1..n : stack'[i] = Advanced[i]
      /\ stack'[n + 1] = e
  <2>1. /\ Append(Advanced, e) \in Seq(E) /\ DOMAIN Append(Advanced, e) = 1..(n + 1)
        /\ \A i \in 1..n : Append(Advanced, e)[i] = Advanced[i]
        /\ Append(Advanced, e)[n + 1] = e
    BY <1>1, <1>2, AppendFacts
  <2> QED
    BY <2>1 DEF e
<1>4. /\ \A i \in 1..n : stack'[i].blk = stack[i].blk
      /\ \A i \in 1..n : i # n => stack'[i].next = stack[i].next
      /\ stack'[n].next = Top.next + 1
      /\ stack'[n + 1].blk = Target /\ stack'[n + 1].next = 1
  <2>1. \A i \in 1..n : stack'[i].blk = stack[i].blk
    BY <1>1, <1>3
  <2>2. \A i \in 1..n : i # n => stack'[i].next = stack[i].next
    BY <1>1, <1>3
  <2>3. stack'[n].next = Top.next + 1
    <3>1. n \in 1..n
      BY <1>1
    <3> QED
      BY <1>1, <1>3, <3>1
  <2> QED
    BY <1>2, <1>3, <2>1, <2>2, <2>3
<1>5. /\ color' \in [BlkIds -> {"white", "gray", "black"}] /\ color'[Target] = "gray"
      /\ \A b \in BlkIds : b # Target => color'[b] = color[b]
      /\ \A b \in BlkIds : (color'[b] = "black") = (color[b] = "black")
  BY DEF SearchTypes
<1>6. Onward
  BY <1>1, <1>5 DEF Onward
<1>7. /\ BlkIds' = BlkIds
      /\ \A b, t \in BlkIds : Settled(b, t) => Settled(b, t)'
      /\ \A S \in SUBSET BlkIds : Untied(S) => Untied(S)'
      /\ \A b, t \in BlkIds : IsLoop(b, t) => IsLoop(b, t)'
  BY <1>6, StaysFound
<1>8. SearchTypes'
  BY <1>3, <1>5, <1>7 DEF SearchTypes, E
<1>9. \A i \in 1..n : stack[i].blk # Target /\ stack[i].blk \in BlkIds
  BY <1>1, StackEntries DEF OnPath
<1>10. OnPath'
  <2>1. \A b \in BlkIds : color'[b] = "gray" <=> \E i \in DOMAIN stack' : stack'[i].blk = b
    <3> SUFFICES ASSUME NEW b \in BlkIds
                 PROVE  color'[b] = "gray" <=> \E i \in 1..(n + 1) : stack'[i].blk = b
      BY <1>3
    <3>1. CASE b = Target
      BY <1>1, <1>4, <1>5, <3>1
    <3>2. CASE b # Target
      <4>1. color'[b] = "gray" <=> \E i \in 1..n : stack[i].blk = b
        BY <1>1, <1>5, <3>2 DEF OnPath
      <4>2. \A i \in 1..(n + 1) : stack'[i].blk = b <=> i \in 1..n /\ stack[i].blk = b
        BY <1>1, <1>4, <3>2
      <4> QED
        <5>1. 1..n \subseteq 1..(n + 1)
          BY <1>1
        <5> HIDE DEF n
        <5> QED
          BY <4>1, <4>2, <5>1, Zenon
    <3> QED
      BY <3>1, <3>2
  <2>2. \A i, j \in DOMAIN stack' : stack'[i].blk = stack'[j].blk => i = j
    <3>1. \A i, j \in 1..n : stack[i].blk = stack[j].blk => i = j
      BY <1>1 DEF OnPath
    <3> QED
      BY <1>1, <1>3, <1>4, <1>9, <3>1
  <2>3. \A i \in DOMAIN stack' : i + 1 \in DOMAIN stack' => stack'[i + 1].blk \in BlkSuccs(mf, stack'[i].blk)
    <3> SUFFICES ASSUME NEW i \in 1..n
                 PROVE  stack'[i + 1].blk \in BlkSuccs(mf, stack[i].blk)
      BY <1>1, <1>3, <1>4
    <3>1. CASE i = n
      BY <1>1, <1>4, <3>1 DEF Top
    <3>2. CASE i # n
      <4>1. i + 1 \in 1..n
        BY <1>1, <3>2
      <4>2. stack[i + 1].blk \in BlkSuccs(mf, stack[i].blk)
        BY <1>1, <4>1 DEF OnPath
      <4> QED
        BY <1>4, <4>1, <4>2
    <3> QED
      BY <3>1, <3>2
  <2> QED
    BY <1>1, <1>7, <2>1, <2>2, <2>3 DEF OnPath
<1>11. Passed'
  <2>1. \A b : TargetSeq(b)' = TargetSeq(b)
    BY <1>1 DEF TargetSeq
  <2>2. SUFFICES ASSUME NEW i \in 1..(n + 1), NEW k \in 1..(stack'[i].next - 1), NEW b \in BlkIds,
                      NEW t \in BlkIds
               PROVE  PassedAt(i, k, b, t)'
    BY <1>3, <1>7 DEF Passed
  <2>3. SUFFICES ASSUME b = stack'[i].blk, t = TargetSeq(b)[k]
               PROVE  Settled(b, t)' \/ (i + 1 \in 1..(n + 1) /\ stack'[i + 1].blk = t)
    BY <1>3, <2>1 DEF PassedAt
  <2>4. i \in 1..n
    BY <1>1, <1>4, <2>2
  <2>5. stack'[i].blk = stack[i].blk /\ i + 1 \in 1..(n + 1)
    BY <1>1, <1>4, <2>4
  <2>6. CASE k \in 1..(stack[i].next - 1)
    <3>1. Settled(b, t) \/ (i + 1 \in 1..n /\ stack[i + 1].blk = t)
      <4>1. PassedAt(i, k, b, t)
        BY <1>1, <2>4, <2>6 DEF Passed
      <4> QED
        BY <1>1, <2>3, <2>5, <4>1 DEF PassedAt
    <3>2. i + 1 \in 1..n => stack'[i + 1].blk = stack[i + 1].blk
      BY <1>4
    <3> QED
      BY <1>7, <2>5, <3>1, <3>2
  <2>7. CASE ~(k \in 1..(stack[i].next - 1))
    <3>1. stack[i].next \in Nat \ {0}
      BY <1>1, <2>4, StackEntries
    <3>2. i = n
      BY <1>4, <2>3, <2>4, <2>7, <3>1
    <3>3. k = Top.next
      <4>1. Top = stack[n] /\ stack'[n].next = Top.next + 1 /\ Top.next \in Nat
        BY <1>1, <1>4 DEF Top, n
      <4>2. k \in 1..(stack'[n].next - 1) /\ ~(k \in 1..(Top.next - 1))
        BY <2>3, <2>7, <3>2, <4>1
      <4> QED
        BY <4>1, <4>2, LastIndex
    <3>4. t = Target
      BY <2>3, <2>5, <3>2, <3>3 DEF Target, Top, n
    <3> QED
      BY <1>4, <2>5, <3>2, <3>4
  <2> QED
    BY <2>6, <2>7
<1>12. AllSettled'
  <2> SUFFICES ASSUME NEW b \in BlkIds, color'[b] = "black", NEW t \in BlkSuccs(mf, b) \cap BlkIds
               PROVE  Settled(b, t)'
    BY <1>1, <1>7 DEF AllSettled
  <2>1. Settled(b, t)
    BY <1>5 DEF AllSettled
  <2> QED
    BY <1>7, <2>1
<1>13. BlackAcyclic'
  <2> SUFFICES ASSUME NEW S \in (SUBSET BlkIds) \ {{}}, \A b \in S : color'[b] = "black"
               PROVE  Untied(S)'
    BY <1>7 DEF BlackAcyclic
  <2>1. \A b \in S : color[b] = "black"
    BY <1>5
  <2>2. Untied(S)
    BY <2>1 DEF BlackAcyclic
  <2> QED
    BY <1>7, <2>2
<1>14. LoopsFound'
  <2>1. \A x \in ToSet(backEdges) : \E b, t \in BlkIds : x = <<b, t>> /\ IsLoop(b, t)
    BY DEF LoopsFound
  <2>2. \A x \in ToSet(backEdges) : \E b, t \in BlkIds : x = <<b, t>> /\ IsLoop(b, t)'
    BY <1>7, <2>1
  <2> QED
    BY <1>7, <2>2 DEF LoopsFound
<1> QED
  BY <1>8, <1>10, <1>11, <1>12, <1>13, <1>14

(* A gray target closes a loop.                                            *)
LEMMA GrayLoops ==
  ASSUME IsMachine(mf), SearchInv, Visit, Target \in BlkIds, color[Target] = "gray"
  PROVE  IsLoop(Top.blk, Target)
<1> USE DEF SearchInv
<1>1. /\ Len(stack) \in DOMAIN stack /\ DOMAIN stack = 1..Len(stack) /\ Len(stack) \in Nat
      /\ Top.blk \in BlkIds /\ Target \in BlkSuccs(mf, Top.blk)
  BY VisitFacts
<1>2. color[Top.blk] = "gray"
  BY <1>1 DEF OnPath, Top
<1>3. PICK j \in DOMAIN stack : stack[j].blk = Target
  BY DEF OnPath
<1>4. ASSUME NEW S \in SUBSET BlkIds, Target \in S, Closed(S) PROVE Top.blk \in S
  <2>1. \A i \in DOMAIN stack : i >= j => stack[i].blk \in S
    BY <1>3, <1>4, StackReaches
  <2>2. Len(stack) >= j
    BY <1>1, <1>3
  <2> QED
    BY <1>1, <2>1, <2>2 DEF Top
<1> QED
  BY <1>1, <1>2, <1>4 DEF IsLoop

(* A target that is not entered.                                           *)
LEMMA PassKeeps ==
  ASSUME IsMachine(mf), SearchInv, Visit, color' = color, stack' = Advanced,
         IsList(backEdges'), ToSet(backEdges) \subseteq ToSet(backEdges'),
         \A x \in ToSet(backEdges') \ ToSet(backEdges) :
           x = <<Top.blk, Target>> /\ Target \in BlkIds /\ color[Target] = "gray",
         Target \in BlkIds => <<Top.blk, Target>> \in ToSet(backEdges') \/ color[Target] = "black"
  PROVE  SearchInv'
<1> USE DEF SearchInv
<1> DEFINE n == Len(stack)
           E == [blk : BlkIds, next : Nat \ {0}]
<1>1. /\ mf' = mf /\ n \in Nat \ {0} /\ DOMAIN stack = 1..n /\ Top.blk \in BlkIds
      /\ Top.next \in Nat \ {0} /\ Target \in BlkSuccs(mf, Top.blk)
      /\ stack' \in Seq(E) /\ DOMAIN stack' = 1..n
      /\ \A i \in 1..n : stack'[i].blk = stack[i].blk
      /\ \A i \in 1..n : i # n => stack'[i].next = stack[i].next
      /\ stack'[n].next = Top.next + 1
  BY VisitFacts
<1>2. Top = stack[n]
  BY DEF Top
<1> HIDE DEF E, n
<1>3. Onward
  BY <1>1 DEF Onward
<1>4. /\ BlkIds' = BlkIds
      /\ \A b, t \in BlkIds : Settled(b, t) => Settled(b, t)'
      /\ \A S \in SUBSET BlkIds : Untied(S) => Untied(S)'
      /\ \A b, t \in BlkIds : IsLoop(b, t) => IsLoop(b, t)'
  BY <1>3, StaysFound
<1>5. SearchTypes'
  BY <1>1, <1>4 DEF SearchTypes, E
<1>6. OnPath'
  <2>1. ASSUME NEW b \in BlkIds
        PROVE  color'[b] = "gray" <=> \E i \in 1..n : stack'[i].blk = b
    <3>1. color[b] = "gray" <=> \E i \in 1..n : stack[i].blk = b
      BY <1>1 DEF OnPath
    <3>2. (\E i \in 1..n : stack[i].blk = b) <=> \E i \in 1..n : stack'[i].blk = b
      BY <1>1
    <3> QED
      BY <3>1, <3>2
  <2>2. \A i, j \in 1..n : stack'[i].blk = stack'[j].blk => i = j
    BY <1>1 DEF OnPath
  <2>3. \A i \in 1..n : i + 1 \in 1..n => stack'[i + 1].blk \in BlkSuccs(mf, stack'[i].blk)
    BY <1>1 DEF OnPath
  <2> QED
    BY <1>1, <1>4, <2>1, <2>2, <2>3 DEF OnPath
<1>7. Passed'
  <2>1. \A b : TargetSeq(b)' = TargetSeq(b)
    BY <1>1 DEF TargetSeq
  <2>2. SUFFICES ASSUME NEW i \in 1..n, NEW k \in 1..(stack'[i].next - 1), NEW b \in BlkIds,
                      NEW t \in BlkIds
               PROVE  PassedAt(i, k, b, t)'
    BY <1>1, <1>4 DEF Passed
  <2>3. SUFFICES ASSUME b = stack'[i].blk, t = TargetSeq(b)[k]
               PROVE  Settled(b, t)' \/ (i + 1 \in 1..n /\ stack'[i + 1].blk = t)
    BY <1>1, <2>1 DEF PassedAt
  <2>4. stack'[i].blk = stack[i].blk
    BY <1>1
  <2>5. CASE k \in 1..(stack[i].next - 1)
    <3>1. PassedAt(i, k, b, t)
      BY <1>1, <2>5 DEF Passed
    <3>2. Settled(b, t) \/ (i + 1 \in 1..n /\ stack[i + 1].blk = t)
      BY <1>1, <2>3, <2>4, <3>1 DEF PassedAt
    <3>3. i + 1 \in 1..n => stack'[i + 1].blk = stack[i + 1].blk
      BY <1>1
    <3> QED
      BY <1>4, <3>2, <3>3
  <2>6. CASE ~(k \in 1..(stack[i].next - 1))
    <3>1. stack[i].next \in Nat \ {0}
      BY <1>1, StackEntries
    <3>2. i = n
      BY <1>1, <2>6, <3>1
    <3>3. k = Top.next
      <4>1. k \in 1..(stack'[n].next - 1) /\ ~(k \in 1..(Top.next - 1))
        BY <1>2, <2>6, <3>2
      <4> QED
        BY <1>1, <4>1, LastIndex
    <3>4. t = Target /\ b = Top.blk
      BY <1>2, <2>3, <2>4, <3>2, <3>3 DEF Target
    <3>5. Settled(b, t)'
      BY <3>4 DEF Settled
    <3> QED
      BY <3>5
  <2> QED
    BY <2>5, <2>6
<1>8. AllSettled'
  <2> SUFFICES ASSUME NEW b \in BlkIds, color[b] = "black", NEW t \in BlkSuccs(mf, b) \cap BlkIds
               PROVE  Settled(b, t)'
    BY <1>1, <1>4 DEF AllSettled
  <2>1. Settled(b, t)
    BY DEF AllSettled
  <2> QED
    BY <1>4, <2>1
<1>9. BlackAcyclic'
  <2> SUFFICES ASSUME NEW S \in (SUBSET BlkIds) \ {{}}, \A b \in S : color[b] = "black"
               PROVE  Untied(S)'
    BY <1>4 DEF BlackAcyclic
  <2>1. Untied(S)
    BY DEF BlackAcyclic
  <2> QED
    BY <1>4, <2>1
<1>10. LoopsFound'
  <2> SUFFICES ASSUME NEW x \in ToSet(backEdges')
               PROVE  \E b, t \in BlkIds : x = <<b, t>> /\ IsLoop(b, t)'
    BY <1>4 DEF LoopsFound
  <2>1. CASE x \in ToSet(backEdges)
    <3>1. PICK b \in BlkIds, t \in BlkIds : x = <<b, t>> /\ IsLoop(b, t)
      BY <2>1 DEF LoopsFound
    <3> QED
      BY <1>4, <3>1
  <2>2. CASE x \notin ToSet(backEdges)
    <3> DEFINE b == Top.blk
               t == Target
    <3>1. x = <<b, t>> /\ b \in BlkIds /\ t \in BlkIds /\ color[t] = "gray"
      BY <1>1, <2>2
    <3>2. IsLoop(b, t)
      BY <3>1, GrayLoops
    <3> HIDE DEF b, t
    <3>3. \E c, d \in BlkIds : x = <<c, d>> /\ IsLoop(c, d)
      BY <3>1, <3>2
    <3> QED
      BY <1>4, <3>3
  <2> QED
    BY <2>1, <2>2
<1> QED
  BY <1>5, <1>6, <1>7, <1>8, <1>9, <1>10

LEMMA VisitKeeps == IsMachine(mf) /\ SearchInv /\ Visit => SearchInv'
<1> SUFFICES ASSUME IsMachine(mf), SearchInv, Visit PROVE SearchInv'
  OBVIOUS
<1>1. SearchTypes /\ IsList(backEdges)
  BY DEF SearchInv, SearchTypes
<1>2. CASE /\ Target \in BlkIds /\ color[Target] = "white"
           /\ color' = [color EXCEPT ![Target] = "gray"]
           /\ stack' = Append(Advanced, [blk |-> Target, next |-> 1]) /\ backEdges' = backEdges
  BY <1>2, EnterKeeps
<1>3. CASE /\ Target \in BlkIds /\ color[Target] = "gray"
           /\ color' = color /\ stack' = Advanced
           /\ backEdges' = Append(backEdges, <<Top.blk, Target>>)
  <2>1. IsList(backEdges') /\ ToSet(backEdges') = ToSet(backEdges) \cup {<<Top.blk, Target>>}
    BY <1>1, <1>3, AppendList
  <2> QED
    BY <1>3, <2>1, PassKeeps
<1>4. CASE /\ Target \in BlkIds => color[Target] = "black"
           /\ color' = color /\ stack' = Advanced /\ backEdges' = backEdges
  <2>1. IsList(backEdges') /\ ToSet(backEdges') = ToSet(backEdges)
    BY <1>1, <1>4
  <2> QED
    BY <1>4, <2>1, PassKeeps
<1> QED
  BY <1>1, <1>2, <1>3, <1>4, VisitOutcome

(* A block without targets left: it is black from now on.                  *)
LEMMA FinishKeeps == IsMachine(mf) /\ SearchInv /\ Finish => SearchInv'
<1> SUFFICES ASSUME IsMachine(mf), SearchInv, Finish PROVE SearchInv'
  OBVIOUS
<1> USE DEF SearchInv
<1> DEFINE n == Len(stack)
           E == [blk : BlkIds, next : Nat \ {0}]
           u == Top.blk
<1>1. stack \in Seq(E) /\ stack # <<>> /\ mf' = mf /\ backEdges' = backEdges
  BY DEF SearchTypes, Finish
<1>2. /\ n \in Nat \ {0} /\ DOMAIN stack = 1..n /\ n \in 1..n /\ Last(stack) = stack[n]
      /\ Front(stack) \in Seq(E) /\ DOMAIN Front(stack) = 1..(n - 1)
      /\ \A i \in 1..(n - 1) : Front(stack)[i] = stack[i]
  <2> HIDE DEF E
  <2>1. /\ n \in Nat \ {0} /\ DOMAIN stack = 1..n /\ n \in DOMAIN stack /\ Last(stack) = stack[n]
        /\ Front(stack) \in Seq(E) /\ Len(Front(stack)) = n - 1
        /\ \A i \in 1..(n - 1) : Front(stack)[i] = stack[i]
    BY <1>1, FrontLast
  <2> QED
    BY <2>1
<1>3. Last(stack) = Top /\ Top = stack[n] /\ u \in BlkIds
  BY <1>2, StackEntries DEF Top
<1>4. stack' = Front(stack) /\ color' = [color EXCEPT ![u] = "black"] /\ Top.next > Len(TargetSeq(u))
  BY <1>3 DEF Finish
<1>5. color[u] = "gray"
  BY <1>2, <1>3 DEF OnPath
<1> HIDE DEF n, E, u
<1>6. /\ color' \in [BlkIds -> {"white", "gray", "black"}] /\ color'[u] = "black"
      /\ \A b \in BlkIds : b # u => color'[b] = color[b]
  BY <1>3, <1>4 DEF SearchTypes
<1>7. /\ DOMAIN stack' = 1..(n - 1) /\ \A i \in 1..(n - 1) : stack'[i] = stack[i] /\ i \in 1..n
  BY <1>2, <1>4
<1>8. Onward
  BY <1>1, <1>5, <1>6 DEF Onward
<1>9. /\ BlkIds' = BlkIds
      /\ \A b, t \in BlkIds : Settled(b, t) => Settled(b, t)'
      /\ \A S \in SUBSET BlkIds : Untied(S) => Untied(S)'
      /\ \A b, t \in BlkIds : IsLoop(b, t) => IsLoop(b, t)'
  BY <1>8, StaysFound
<1>10. SearchTypes'
  BY <1>1, <1>2, <1>4, <1>6, <1>9 DEF SearchTypes, E
<1>11. \A i \in 1..n : (stack[i].blk = u) = (i = n)
  BY <1>2, <1>3 DEF OnPath, u
<1>12. OnPath'
  <2>1. \A b \in BlkIds : color'[b] = "gray" <=> \E i \in 1..(n - 1) : stack'[i].blk = b
    <3> SUFFICES ASSUME NEW b \in BlkIds
                 PROVE  color'[b] = "gray" <=> \E i \in 1..(n - 1) : stack'[i].blk = b
      OBVIOUS
    <3>1. CASE b = u
      BY <1>6, <1>7, <1>11, <1>2, <3>1
    <3>2. CASE b # u
      <4>1. color'[b] = "gray" <=> \E i \in 1..n : stack[i].blk = b
        BY <1>2, <1>6, <3>2 DEF OnPath
      <4>2. \A i \in 1..n : stack[i].blk = b => i \in 1..(n - 1)
        BY <1>2, <1>11, <3>2
      <4>3. \A i \in 1..(n - 1) : i \in 1..n /\ stack'[i].blk = stack[i].blk
        BY <1>7
      <4> QED
        BY <4>1, <4>2, <4>3, Zenon
    <3> QED
      BY <3>1, <3>2
  <2>2. \A i, j \in 1..(n - 1) : stack'[i].blk = stack'[j].blk => i = j
    BY <1>2, <1>7 DEF OnPath
  <2>3. \A i \in 1..(n - 1) : i + 1 \in 1..(n - 1) => stack'[i + 1].blk \in BlkSuccs(mf, stack'[i].blk)
    BY <1>2, <1>7 DEF OnPath
  <2> QED
    BY <1>1, <1>7, <1>9, <2>1, <2>2, <2>3 DEF OnPath
<1>13. Passed'
  <2>1. \A b : TargetSeq(b)' = TargetSeq(b)
    BY <1>1 DEF TargetSeq
  <2>2. SUFFICES ASSUME NEW i \in 1..(n - 1), NEW k \in 1..(stack'[i].next - 1), NEW b \in BlkIds,
                      NEW t \in BlkIds
               PROVE  PassedAt(i, k, b, t)'
    BY <1>7, <1>9 DEF Passed
  <2>3. SUFFICES ASSUME b = stack'[i].blk, t = TargetSeq(b)[k]
               PROVE  Settled(b, t)' \/ (i + 1 \in 1..(n - 1) /\ stack'[i + 1].blk = t)
    BY <1>7, <2>1 DEF PassedAt
  <2>4. i \in 1..n /\ stack'[i] = stack[i]
    BY <1>7
  <2>5. PassedAt(i, k, b, t)
    BY <1>2, <2>4 DEF Passed
  <2>6. Settled(b, t) \/ (i + 1 \in 1..n /\ stack[i + 1].blk = t)
    BY <1>2, <2>3, <2>4, <2>5 DEF PassedAt
  <2>7. CASE i + 1 = n /\ stack[i + 1].blk = t
    BY <1>2, <1>6, <1>11, <2>7 DEF Settled
  <2>8. CASE i + 1 # n /\ i + 1 \in 1..n /\ stack[i + 1].blk = t
    <3>1. i + 1 \in 1..(n - 1)
      BY <1>2, <2>8
    <3> QED
      BY <1>7, <2>8, <3>1
  <2> QED
    BY <1>9, <2>6, <2>7, <2>8
<1>14. \A t \in BlkSuccs(mf, u) \cap BlkIds : Settled(u, t)
  <2> SUFFICES ASSUME NEW t \in BlkSuccs(mf, u) \cap BlkIds PROVE Settled(u, t)
    OBVIOUS
  <2>1. IsList(TargetSeq(u)) /\ t \in ToSet(TargetSeq(u))
    BY <1>3, TargetList
  <2>2. PICK k : k \in 1..Len(TargetSeq(u)) /\ TargetSeq(u)[k] = t
    <3>1. DOMAIN TargetSeq(u) = 1..Len(TargetSeq(u))
      BY <2>1, ListFacts
    <3> QED
      BY <2>1, <3>1 DEF ToSet
  <2>3. k \in 1..(stack[n].next - 1) /\ n + 1 \notin 1..n
    <3>1. Len(TargetSeq(u)) \in Nat /\ stack[n].next \in Nat \ {0} /\ stack[n].next > Len(TargetSeq(u))
      BY <1>2, <1>3, <1>4, <2>1, ListFacts, StackEntries
    <3> QED
      BY <1>2, <2>2, <3>1
  <2>4. PassedAt(n, k, u, t)
    BY <1>2, <1>3, <2>3 DEF Passed
  <2> QED
    BY <1>2, <1>3, <2>2, <2>3, <2>4 DEF PassedAt, u
<1>15. AllSettled'
  <2> SUFFICES ASSUME NEW b \in BlkIds, color'[b] = "black", NEW t \in BlkSuccs(mf, b) \cap BlkIds
               PROVE  Settled(b, t)'
    BY <1>1, <1>9 DEF AllSettled
  <2>1. Settled(b, t)
    BY <1>6, <1>14 DEF AllSettled
  <2> QED
    BY <1>9, <2>1
<1>16. BlackAcyclic'
  <2> SUFFICES ASSUME NEW S \in (SUBSET BlkIds) \ {{}}, \A b \in S : color'[b] = "black"
               PROVE  Untied(S)
    BY <1>9 DEF BlackAcyclic
  <2>1. CASE u \notin S
    <3>1. \A b \in S : color[b] = "black"
      BY <1>6, <2>1
    <3> QED
      BY <3>1 DEF BlackAcyclic
  <2>2. CASE S = {u}
    <3>1. u \in BlkSuccs(mf, u) => <<u, u>> \in ToSet(backEdges)
      BY <1>3, <1>5, <1>14 DEF Settled
    <3> QED
      BY <2>2, <3>1 DEF Untied
  <2>3. CASE u \in S /\ S # {u}
    <3> DEFINE R == S \ {u}
    <3>1. R \in (SUBSET BlkIds) \ {{}} /\ \A b \in R : color[b] = "black"
      BY <1>6, <2>3
    <3>2. Untied(R)
      <4> HIDE DEF R
      <4> QED
        BY <3>1 DEF BlackAcyclic
    <3>3. PICK b \in R : \A t \in R : t \in BlkSuccs(mf, b) => <<b, t>> \in ToSet(backEdges)
      BY <3>2 DEF Untied
    <3>4. u \in BlkSuccs(mf, b) => <<b, u>> \in ToSet(backEdges)
      BY <1>3, <1>5, <3>1 DEF AllSettled, Settled
    <3> QED
      BY <3>3, <3>4 DEF Untied
  <2> QED
    BY <2>1, <2>2, <2>3
<1>17. LoopsFound'
  <2>1. \A x \in ToSet(backEdges) : \E b, t \in BlkIds : x = <<b, t>> /\ IsLoop(b, t)
    BY DEF LoopsFound
  <2>2. \A x \in ToSet(backEdges) : \E b, t \in BlkIds : x = <<b, t>> /\ IsLoop(b, t)'
    BY <1>9, <2>1
  <2> QED
    BY <1>1, <1>9, <2>2 DEF LoopsFound
<1> QED
  BY <1>10, <1>12, <1>13, <1>15, <1>16, <1>17

-----------------------------------------------------------------------------
(* The flat order is built block by block: where each starts.              *)
LaidOut(part, m) ==
  /\ Flat(m) = part[Len(m)]
  /\ \A b \in 1..Len(m) : /\ BlkStart(m, b) \in Nat \ {0} /\ Len(part[b]) \in Nat /\ Len(m[b]) \in Nat
                          /\ BlkStart(m, b) + Len(m[b]) = Len(part[b]) + 1

LEMMA BlockParts ==
  ASSUME NEW m, IsMachine(m), m # <<>>
  PROVE  \E X, part : IsFlattening(part, m, X) /\ LaidOut(part, m)
<1> DEFINE X == UNION {ToSet(m[c]) : c \in DOMAIN m}
           N == Len(m)
<1>1. IsList(m) /\ N \in Nat /\ DOMAIN m = 1..N /\ m # <<>> /\ \A c \in 1..N : IsList(m[c])
  <2>1. IsList(m)
    BY DEF IsMachine
  <2> QED
    BY <2>1, ListFacts DEF IsMachine
<1>2. m \in Seq(Seq(X))
  BY <1>1, NestedLists
<1> HIDE DEF X
<1>3. PICK part : IsFlattening(part, m, X) /\ FlattenSeq(m) = part[N]
  BY <1>1, <1>2, FlattenSteps
<1> DEFINE size == [c \in 1..N |-> Len(m[c])]
           upto == [c \in 1..N |-> Len(part[c])]
<1>4. \A c \in 1..N : size[c] \in Nat /\ upto[c] \in Nat /\ part[c] \in Seq(X)
  <2>1. \A c \in 1..N : Len(m[c]) \in Nat
    BY <1>1, ListFacts
  <2>2. \A c \in 1..N : part[c] \in Seq(X)
    BY <1>3 DEF IsFlattening
  <2> QED
    BY <2>1, <2>2
<1>5. upto[1] = size[1] /\ \A c \in 2..N : upto[c] = upto[c - 1] + size[c]
  <2>1. part[1] = m[1] /\ \A c \in 2..N : part[c] = part[c - 1] \o m[c]
    BY <1>3 DEF IsFlattening
  <2>2. 1 \in 1..N
    BY <1>1
  <2>3. \A c \in 2..N : c \in 1..N /\ c - 1 \in 1..N
    BY <1>1
  <2>4. ASSUME NEW c \in 2..N PROVE Len(part[c]) = Len(part[c - 1]) + Len(m[c])
    <3> DEFINE p == part[c - 1]
    <3>1. p \in Seq(X) /\ m[c] \in Seq(X)
      BY <1>1, <1>2, <1>4, <2>3
    <3> HIDE DEF p
    <3>2. Len(p \o m[c]) = Len(p) + Len(m[c])
      BY <3>1, ConcatProperties
    <3> QED
      BY <2>1, <3>2 DEF p
  <2> QED
    BY <2>1, <2>2, <2>3, <2>4
<1> DEFINE Rec(h) == h = [c \in 1..Len(m) |-> IF c = 1 THEN 1 ELSE h[c - 1] + Len(m[c - 1])]
           start == CHOOSE h : Rec(h)
           s == [c \in 1..N |-> upto[c] - size[c] + 1]
<1>6. Rec(s)
  <2>1. \A c \in 1..N : s[c] = IF c = 1 THEN 1 ELSE s[c - 1] + Len(m[c - 1])
    <3> SUFFICES ASSUME NEW c \in 1..N PROVE s[c] = IF c = 1 THEN 1 ELSE s[c - 1] + Len(m[c - 1])
      OBVIOUS
    <3>1. CASE c = 1
      <4> HIDE DEF upto, size
      <4> QED
        BY <1>4, <1>5, <3>1
    <3>2. CASE c # 1
      <4>1. c - 1 \in 1..N /\ c \in 2..N
        BY <1>1, <3>2
      <4>2. size[c - 1] = Len(m[c - 1])
        BY <4>1
      <4> HIDE DEF upto, size
      <4>3. upto[c] = upto[c - 1] + size[c] /\ c \in 1..N
        BY <1>5, <4>1
      <4>4. size[c] \in Nat /\ size[c - 1] \in Nat /\ upto[c - 1] \in Nat /\ upto[c] \in Nat
        BY <1>4, <4>1
      <4>5. s[c] = upto[c] - size[c] + 1 /\ s[c - 1] = upto[c - 1] - size[c - 1] + 1
        BY <4>1
      <4>6. upto[c] - size[c] + 1 = (upto[c - 1] - size[c - 1] + 1) + size[c - 1]
        BY <4>3, <4>4
      <4> QED
        BY <3>2, <4>2, <4>5, <4>6
    <3> QED
      BY <3>1, <3>2
  <2> HIDE DEF s
  <2>2. s = [c \in 1..N |-> s[c]]
    BY DEF s
  <2> QED
    BY <2>1, <2>2
<1>7. Rec(start)
  <2> HIDE DEF Rec, s
  <2> QED
    BY <1>6
<1>8. \A c \in 1..N : BlkStart(m, c) = start[c]
  BY DEF BlkStart
<1> HIDE DEF start, s
<1>9. \A c \in 1..N : start[c] = IF c = 1 THEN 1 ELSE start[c - 1] + size[c - 1]
  <2>1. \A c \in 1..N : start[c] = IF c = 1 THEN 1 ELSE start[c - 1] + Len(m[c - 1])
    BY <1>7
  <2>2. \A c \in 1..N : c # 1 => c - 1 \in 1..N
    BY <1>1
  <2> QED
    BY <2>1, <2>2
<1> HIDE DEF Rec, upto, size
<1>10. \A c \in 1..N : start[c] + size[c] = upto[c] + 1 /\ start[c] \in Nat \ {0}
  <2> DEFINE S == {n \in Nat : n + 1 \in 1..N =>
                     start[n + 1] + size[n + 1] = upto[n + 1] + 1 /\ start[n + 1] \in Nat \ {0}}
  <2>1. 0 \in S
    BY <1>4, <1>5, <1>9
  <2>2. \A n \in Nat : n \in S => n + 1 \in S
    <3> SUFFICES ASSUME NEW n \in Nat, n \in S, (n + 1) + 1 \in 1..N
                 PROVE  /\ start[(n + 1) + 1] + size[(n + 1) + 1] = upto[(n + 1) + 1] + 1
                        /\ start[(n + 1) + 1] \in Nat \ {0}
      OBVIOUS
    <3> DEFINE k == n + 1
               j == k + 1
    <3>1. k \in 1..N /\ j \in 2..N /\ j \in 1..N /\ j - 1 = k /\ j # 1
      BY <1>1
    <3>2. start[k] + size[k] = upto[k] + 1 /\ start[k] \in Nat \ {0}
      BY <3>1
    <3> HIDE DEF k, j, S
    <3>3. start[j] = start[k] + size[k] /\ upto[j] = upto[k] + size[j]
      BY <1>5, <1>9, <3>1
    <3>4. size[k] \in Nat /\ size[j] \in Nat /\ upto[k] \in Nat /\ upto[j] \in Nat
      BY <1>4, <3>1
    <3> DEFINE c == start[j]
               d == upto[j]
    <3>5. c = start[k] + size[k] /\ d = upto[k] + size[j]
      BY <3>3
    <3> HIDE DEF c, d
    <3>6. c = upto[k] + 1
      BY <3>2, <3>5
    <3>7. c \in Nat \ {0}
      BY <3>4, <3>6
    <3>8. d \in Nat
      BY <3>4, <3>5
    <3>9. c + size[j] = d + 1 /\ c \in Nat \ {0}
      BY <3>4, <3>5, <3>6, <3>7, <3>8
    <3> QED
      BY <3>9 DEF c, d, k, j
  <2>3. Nat \subseteq S
    <3> HIDE DEF S
    <3> QED
      BY <2>1, <2>2, InductionOnSet
  <2> SUFFICES ASSUME NEW c \in 1..N
               PROVE  start[c] + size[c] = upto[c] + 1 /\ start[c] \in Nat \ {0}
    OBVIOUS
  <2>4. c - 1 \in Nat /\ (c - 1) + 1 = c
    BY <1>1
  <2>5. c - 1 \in S
    <3> HIDE DEF S
    <3> QED
      BY <2>3, <2>4
  <2> QED
    BY <2>4, <2>5
<1>11. Flat(m) = part[N] /\ N \in 1..N /\ Len(Flat(m)) = upto[N] /\ IsList(Flat(m))
  <2>1. Flat(m) = part[N] /\ N \in 1..N
    BY <1>1, <1>3 DEF Flat
  <2> QED
    BY <1>4, <2>1, SeqIsList DEF upto
<1>12. LaidOut(part, m)
  <2> SUFFICES ASSUME NEW b \in 1..N
               PROVE  /\ BlkStart(m, b) \in Nat \ {0} /\ Len(part[b]) \in Nat /\ Len(m[b]) \in Nat
                      /\ BlkStart(m, b) + Len(m[b]) = Len(part[b]) + 1
    BY <1>11 DEF LaidOut
  <2>1. size[b] = Len(m[b]) /\ upto[b] = Len(part[b])
    BY DEF size, upto
  <2> QED
    BY <1>4, <1>8, <1>10, <2>1
<1> QED
  BY <1>3, <1>12

(* The positions of blocks in the flat order lie in it, or one past it.    *)
BlockRange(m, b) ==
  /\ BlkStart(m, b) \in 1..(Len(Flat(m)) + 1) /\ BlkEnd(m, b) \in 1..(Len(Flat(m)) + 1)
  /\ IsList(Flat(m))

LEMMA BlockBounds ==
  ASSUME NEW m, IsMachine(m), NEW b \in 1..Len(m)
  PROVE  BlockRange(m, b) /\ \A i \in DOMAIN Flat(m) : IsInstr(Flat(m)[i])
<1> DEFINE N == Len(m)
<1>1. IsList(m) /\ N \in Nat /\ DOMAIN m = 1..N /\ m # <<>> /\ N \in b..N /\ N \in 1..N
  <2>1. IsList(m)
    BY DEF IsMachine
  <2> QED
    BY <2>1, ListFacts
<1>2. PICK X, part : IsFlattening(part, m, X) /\ LaidOut(part, m)
  BY <1>1, BlockParts
<1>3. /\ Flat(m) = part[N] /\ IsList(Flat(m)) /\ Len(part[N]) \in Nat
      /\ BlkStart(m, b) \in Nat \ {0} /\ Len(part[b]) \in Nat /\ Len(m[b]) \in Nat
      /\ BlkStart(m, b) + Len(m[b]) = Len(part[b]) + 1
  <2>1. part[N] \in Seq(X)
    BY <1>1, <1>2 DEF IsFlattening
  <2> QED
    BY <1>1, <1>2, <2>1, SeqIsList DEF LaidOut
<1>4. Len(part[b]) <= Len(part[N])
  BY <1>1, <1>2, FlattenPrefix
<1>5. BlockRange(m, b)
  BY <1>3, <1>4 DEF BlockRange, BlkEnd
<1>6. ASSUME NEW i \in DOMAIN Flat(m) PROVE IsInstr(Flat(m)[i])
  <2> DEFINE Y == UNION {ToSet(m[c]) : c \in DOMAIN m}
  <2>1. Flat(m)[i] \in ToSet(Flat(m)) /\ \A c \in 1..N : IsList(m[c])
    BY <1>1, <1>3, ListFacts DEF IsMachine
  <2>2. m \in Seq(Seq(Y))
    BY <1>1, <2>1, NestedLists
  <2> HIDE DEF Y
  <2>3. PICK c \in 1..N : Flat(m)[i] \in ToSet(m[c])
    BY <1>1, <2>1, <2>2, FlattenElements DEF Flat
  <2> QED
    BY <1>1, <2>3 DEF IsMachine, ToSet
<1> QED
  BY <1>5, <1>6

-----------------------------------------------------------------------------
(* The rewritten code is machine code: what is made of one instruction,    *)
(* and of blocks cut out of a list of instructions.                        *)
Instrs(s) == IsList(s) /\ \A i \in DOMAIN s : IsInstr(s[i])

LEMMA InstrsConcat ==
  ASSUME NEW s, Instrs(s), NEW t, Instrs(t)
  PROVE  Instrs(s \o t)
<1> DEFINE X == ToSet(s) \cup ToSet(t)
<1>1. s \in Seq(X) /\ t \in Seq(X)
  BY ListFacts DEF Instrs
<1> HIDE DEF X
<1>2. s \o t \in Seq(X) /\ ToSet(s \o t) = ToSet(s) \cup ToSet(t)
  BY <1>1, ConcatElements
<1>3. IsList(s \o t)
  BY <1>2, SeqIsList
<1>4. \A in \in ToSet(s) \cup ToSet(t) : IsInstr(in)
  BY DEF Instrs, ToSet
<1>5. \A i \in DOMAIN (s \o t) : (s \o t)[i] \in ToSet(s \o t)
  BY <1>3, ListFacts
<1> QED
  BY <1>2, <1>3, <1>4, <1>5 DEF Instrs

LEMMA OneInstr ==
  ASSUME NEW in, IsInstr(in)
  PROVE  Instrs(<<in>>)
<1>1. IsList(<<in>>)
  <2>1. in \in {in}
    OBVIOUS
  <2>2. <<in>> \in Seq({in})
    BY <2>1
  <2> QED
    BY <2>2, SeqIsList
<1> QED
  BY <1>1 DEF Instrs

LEMMA SpillParts ==
  ASSUME NEW x, NEW y
  PROVE  /\ IsInstr(Load(x, y)) /\ IsInstr(Store(x, y)) /\ Instrs(<<>>)
         /\ \A in : IsInstr(in) => IsInstr([in EXCEPT !.dst = x])
         /\ \A in : IsInstr(in) /\ IsList(y) => IsInstr([in EXCEPT !.srcs = y])
<1>1. IsList(<<>>) /\ IsList(<<x>>)
  BY OneInstruction, NoInstruction
<1>2. IsInstr(Load(x, y)) /\ IsInstr(Store(x, y)) /\ Instrs(<<>>)
  BY <1>1 DEF Load, Store, MInstr, IsInstr, Instrs
<1>3. ASSUME NEW in, IsInstr(in) PROVE IsInstr([in EXCEPT !.dst = x])
  <2>1. [in EXCEPT !.dst = x] = MInstr(in.op, x, in.srcs, in.to, in.val)
    BY <1>3 DEF IsInstr, MInstr
  <2> QED
    BY <1>3, <2>1 DEF IsInstr, MInstr
<1>4. ASSUME NEW in, IsInstr(in), IsList(y) PROVE IsInstr([in EXCEPT !.srcs = y])
  <2>1. [in EXCEPT !.srcs = y] = MInstr(in.op, in.dst, y, in.to, in.val)
    BY <1>4 DEF IsInstr, MInstr
  <2> QED
    BY <1>4, <2>1 DEF IsInstr, MInstr
<1> QED
  BY <1>2, <1>3, <1>4

LEMMA SpillInstrs ==
  ASSUME NEW in, IsInstr(in), NEW n
  PROVE  Instrs(Spills(in, n))
<1> DEFINE dst == Fresh(n, 1 + Len(in.srcs))
           own == [Reloaded(in, n) EXCEPT !.dst = IF @ \in spilled THEN dst ELSE @]
           after == IF in.dst \in spilled THEN <<Store(dst, in.dst)>> ELSE <<>>
<1>1. IsList(in.srcs) /\ Len(in.srcs) \in Nat
  BY ListFacts DEF IsInstr
<1>2. Instrs(Reloads(in, n))
  <2> DEFINE m == Len(in.srcs)
             K == {i \in 1..m : in.srcs[i] \in spilled}
             positions == [i \in 1..m |-> i]
             reload == Kept(positions, K)
             loads == [j \in 1..Len(reload) |-> Load(Fresh(n, reload[j]), in.srcs[reload[j]])]
  <2>1. Reloads(in, n) = loads
    BY DEF Reloads
  <2>2. positions \in Seq(1..m)
    BY <1>1
  <2> HIDE DEF K, positions
  <2>3. Len(reload) \in Nat
    <3>1. reload \in Seq(1..m)
      BY <2>2, KeptElements
    <3> QED
      BY <3>1
  <2>4. \A j \in DOMAIN loads : IsInstr(loads[j])
    BY SpillParts
  <2>5. loads = [j \in 1..Len(reload) |-> loads[j]]
    OBVIOUS
  <2> HIDE DEF loads, reload
  <2>6. IsList(loads)
    BY <2>3, <2>5, FunctionIsList
  <2> QED
    BY <2>1, <2>4, <2>6 DEF Instrs
<1>3. IsInstr(Reloaded(in, n))
  <2> DEFINE m == Len(in.srcs)
             read == [i \in 1..m |-> IF in.srcs[i] \in spilled THEN Fresh(n, i) ELSE in.srcs[i]]
  <2>1. Reloaded(in, n) = [in EXCEPT !.srcs = read]
    BY DEF Reloaded, IsInstr, MInstr
  <2>2. m \in Nat /\ read = [i \in 1..m |-> read[i]]
    BY <1>1
  <2> HIDE DEF m, read
  <2>3. IsList(read)
    BY <2>2, FunctionIsList
  <2> QED
    BY <2>1, <2>3, SpillParts
<1>4. IsInstr(own)
  <2> DEFINE r == Reloaded(in, n)
             d == IF r.dst \in spilled THEN dst ELSE r.dst
  <2>1. own = [r EXCEPT !.dst = d]
    BY <1>3 DEF IsInstr, MInstr
  <2> HIDE DEF r, d
  <2>2. IsInstr([r EXCEPT !.dst = d])
    BY <1>3, SpillParts DEF r
  <2> QED
    BY <2>1, <2>2
<1>5. Spills(in, n) = Reloads(in, n) \o <<own>> \o after
  BY DEF Spills
<1>6. Instrs(after)
  <2>1. Instrs(<<Store(dst, in.dst)>>) /\ Instrs(<<>>)
    BY SpillParts, OneInstr
  <2> QED
    BY <2>1
<1> HIDE DEF dst, own, after
<1>7. Instrs(Reloads(in, n) \o <<own>>)
  BY <1>2, <1>4, OneInstr, InstrsConcat
<1> QED
  BY <1>5, <1>6, <1>7, InstrsConcat

(* Instructions cut out of a list.                                         *)
LEMMA CutInstrs ==
  ASSUME NEW s, Instrs(s), NEW i \in 0..Len(s), NEW j \in 0..Len(s)
  PROVE  Instrs(SubSeq(s, i + 1, j))
<1>1. Len(s) \in Nat /\ DOMAIN s = 1..Len(s)
  BY ListFacts DEF Instrs
<1> DEFINE n == IF i < j THEN j - i ELSE 0
           c == SubSeq(s, i + 1, j)
<1>2. /\ n \in Nat /\ \A k \in 1..n : k + i \in 1..Len(s)
      /\ c = [k \in 1..n |-> s[k + i]]
  OBVIOUS
<1> HIDE DEF n, c
<1>3. c = [k \in 1..n |-> c[k]] /\ DOMAIN c = 1..n /\ \A k \in 1..n : c[k] = s[k + i]
  BY <1>2
<1>4. IsList(c)
  BY <1>2, <1>3, FunctionIsList
<1>5. \A k \in DOMAIN c : IsInstr(c[k])
  BY <1>1, <1>2, <1>3 DEF Instrs
<1>6. Instrs(c)
  BY <1>4, <1>5 DEF Instrs
<1> QED
  BY <1>6 DEF c

LEMMA RebuiltMachine ==
  ASSUME IsMachine(source), NEW s, Instrs(s), NEW until, IsList(until), Len(until) = Len(code),
         \A p \in DOMAIN until : until[p] \in 0..Len(s)
  PROVE  IsMachine(Rebuilt(s, until))
<1> DEFINE N == Len(source)
           before(p) == IF p = 1 THEN 0 ELSE until[p - 1]
           cut(b) == SubSeq(s, before(BlkStart(source, b)) + 1, before(BlkEnd(source, b)))
           m == [b \in 1..N |-> cut(b)]
<1>1. N \in Nat /\ Len(s) \in Nat /\ Len(until) \in Nat /\ DOMAIN until = 1..Len(until)
  BY ListFacts DEF IsMachine, Instrs
<1>2. Rebuilt(s, until) = m
  BY DEF Rebuilt
<1>3. \A p \in 1..(Len(until) + 1) : before(p) \in 0..Len(s)
  BY <1>1
<1>4. ASSUME NEW b \in 1..N PROVE Instrs(cut(b))
  <2>1. BlkStart(source, b) \in 1..(Len(code) + 1) /\ BlkEnd(source, b) \in 1..(Len(code) + 1)
    BY BlockBounds DEF BlockRange, code
  <2>2. before(BlkStart(source, b)) \in 0..Len(s) /\ before(BlkEnd(source, b)) \in 0..Len(s)
    BY <1>3, <2>1
  <2> HIDE DEF before
  <2> QED
    BY <2>2, CutInstrs
<1>5. m = [b \in 1..N |-> m[b]] /\ DOMAIN m = 1..N /\ \A b \in 1..N : Instrs(m[b])
  BY <1>4
<1> HIDE DEF m, N
<1>6. IsList(m)
  BY <1>1, <1>5, FunctionIsList
<1> QED
  BY <1>2, <1>5, <1>6 DEF IsMachine, Instrs

LEMMA LoweredMachine ==
  ASSUME NEW g, WellFormed(g)
  PROVE  IsMachine(LowerFunction(g))
<1> DEFINE m == LowerFunction(g)
<1>1. IsList(m)
  BY LoweredBlocks
<1>2. ASSUME NEW b \in DOMAIN m PROVE IsList(m[b]) /\ \A i \in DOMAIN m[b] : IsInstr(m[b][i])
  <2>1. b \in 1..Len(m)
    BY <1>1, ListFacts
  <2>2. IsList(m[b]) /\ \A in \in ToSet(m[b]) : Emitted(in, Len(m))
    BY <2>1, BlockCode
  <2>3. ASSUME NEW t PROVE IsInstr(Jump(t)) /\ IsInstr(Call(t))
    <3>1. IsList(<<>>) /\ IsList(<<t>>)
      BY OneInstruction, NoInstruction
    <3> QED
      BY <3>1 DEF Jump, Call, MInstr, IsInstr
  <2>4. \A in : Emitted(in, Len(m)) => IsInstr(in)
    BY <2>3 DEF Emitted, Straight
  <2> HIDE DEF m
  <2> QED
    BY <2>2, <2>4, ListFacts
<1> QED
  BY <1>1, <1>2 DEF IsMachine

-----------------------------------------------------------------------------
(* The search begins at the entry.                                         *)
LEMMA ScanStarts ==
  ASSUME IsMachine(mf), Scan, phase' = "dfs"
  PROVE  SearchInv'
<1> DEFINE e == [blk |-> 1, next |-> 1]
<1>1. mf' = mf /\ backEdges' = <<>>
  BY DEF Scan
<1>2. HasBackwardBranch
  BY DEF Scan
<1>3. color' = [b \in BlkIds |-> IF b = 1 THEN "gray" ELSE "white"] /\ stack' = <<e>>
  BY <1>2 DEF Scan
<1>4. 1 \in BlkIds /\ BlkIds' = BlkIds
  <2>1. Len(mf) \in Nat /\ BlkIds # {}
    BY <1>2, ListFacts DEF IsMachine, HasBackwardBranch
  <2> QED
    BY <1>1, <2>1 DEF BlkIds
<1>5. e \in [blk : BlkIds, next : Nat \ {0}] /\ e.blk = 1 /\ e.next = 1
  BY <1>4
<1> HIDE DEF e
<1>6. stack' \in Seq([blk : BlkIds, next : Nat \ {0}]) /\ DOMAIN stack' = {1} /\ stack'[1] = e
  BY <1>3, <1>5
<1>7. ToSet(backEdges') = {} /\ IsList(backEdges')
  BY <1>1, NoInstruction
<1>8. \A b \in BlkIds : color'[b] # "black" /\ (color'[b] = "gray" <=> b = 1)
  BY <1>3
<1>9. SearchTypes'
  BY <1>3, <1>4, <1>6, <1>7 DEF SearchTypes
<1>10. OnPath'
  BY <1>4, <1>5, <1>6, <1>8 DEF OnPath
<1>11. Passed'
  <2>1. \A k \in Nat : k \notin 1..(stack'[1].next - 1)
    BY <1>5, <1>6
  <2> QED
    BY <1>6, <2>1 DEF Passed
<1>12. AllSettled'
  BY <1>4, <1>8 DEF AllSettled
<1>13. BlackAcyclic'
  BY <1>4, <1>8 DEF BlackAcyclic
<1>14. LoopsFound'
  BY <1>7 DEF LoopsFound
<1> QED
  BY <1>9, <1>10, <1>11, <1>12, <1>13, <1>14 DEF SearchInv

(* And when it is over every back edge closes a loop, and no loop is left. *)
(* If nothing is searched, no loop of more than one block is left.         *)
Searchable == IF HasBackwardBranch THEN CodeEdges ELSE {e \in BranchEdges : e[1] # e[2]}
LoopsOnly ==
  /\ \A e \in ToSet(backEdges) : e \in Searchable /\ Reaches(Searchable, e[2], e[1])
  /\ Acyclic(Searchable \ ToSet(backEdges))

LEMMA SearchDone ==
  ASSUME IsMachine(mf), SearchInv, HasBackwardBranch, stack = <<>>
  PROVE  LoopsOnly
<1>0. Searchable = CodeEdges
  BY DEF Searchable
<1>1. \A b \in BlkIds : color[b] # "white" => color[b] = "black"
  BY DEF SearchInv, SearchTypes, OnPath
<1>2. ASSUME NEW S \in SUBSET BlkIds, \A e \in CodeEdges : e[1] \in S => e[2] \in S
      PROVE  Closed(S)
  <2> SUFFICES ASSUME NEW x \in S, color[x] # "white", NEW t \in BlkSuccs(mf, x) \cap BlkIds
               PROVE  t \in S
    BY DEF Closed
  <2> DEFINE e == <<x, t>>
  <2>1. e \in BlkIds \X BlkIds /\ e[1] = x /\ e[2] = t /\ color[x] = "black"
    BY <1>1
  <2>2. e \in CodeEdges
    BY <2>1 DEF CodeEdges, BranchEdges
  <2> QED
    BY <1>2, <2>1, <2>2
<1>3. ASSUME NEW e \in ToSet(backEdges)
      PROVE  e \in CodeEdges /\ Reaches(CodeEdges, e[2], e[1])
  <2>1. PICK b \in BlkIds, t \in BlkIds : e = <<b, t>> /\ IsLoop(b, t)
    BY DEF SearchInv, LoopsFound
  <2>2. e[1] = b /\ e[2] = t /\ e \in BlkIds \X BlkIds
    BY <2>1
  <2>3. e \in CodeEdges
    BY <1>1, <2>1, <2>2 DEF IsLoop, CodeEdges, BranchEdges
  <2>4. Reaches(CodeEdges, t, b)
    BY <1>2, <2>1 DEF IsLoop, Reaches
  <2> QED
    BY <2>2, <2>3, <2>4
<1>4. ASSUME NEW S \in (SUBSET BlkIds) \ {{}}
      PROVE  \E b \in S : \A t \in S : <<b, t>> \notin CodeEdges \ ToSet(backEdges)
  <2>1. CASE \A b \in S : color[b] = "black"
    <3>1. PICK b \in S : \A t \in S : t \in BlkSuccs(mf, b) => <<b, t>> \in ToSet(backEdges)
      BY <2>1 DEF SearchInv, BlackAcyclic, Untied
    <3>2. \A t \in S : <<b, t>> \in CodeEdges => t \in BlkSuccs(mf, b)
      BY DEF CodeEdges, BranchEdges
    <3> QED
      BY <3>1, <3>2
  <2>2. CASE \E b \in S : color[b] # "black"
    BY <2>2 DEF CodeEdges, BranchEdges
  <2> QED
    BY <2>1, <2>2
<1> QED
  BY <1>0, <1>3, <1>4 DEF LoopsOnly, Acyclic

LEMMA GreatestNatural ==
  ASSUME NEW n \in Nat, NEW S, S \subseteq 0..n, S # {}
  PROVE  \E x \in S : \A y \in S : x >= y
<1> DEFINE T == {n - y : y \in S}
<1>1. T \subseteq Nat /\ T # {}
  <2>1. \A y \in 0..n : n - y \in Nat
    OBVIOUS
  <2> QED
    BY <2>1
<1> HIDE DEF T
<1>2. PICK k \in T : \A i \in T : k <= i
  BY <1>1, LeastNatural
<1>3. PICK x \in S : k = n - x
  BY DEF T
<1>4. ASSUME NEW y \in S PROVE x >= y
  <2>1. n - x <= n - y
    BY <1>2, <1>3 DEF T
  <2> QED
    BY <2>1
<1> QED
  BY <1>4

LEMMA ScanSkips ==
  ASSUME IsMachine(mf), Scan, phase' = "done"
  PROVE  LoopsOnly'
<1>1. mf' = mf /\ backEdges' = <<>> /\ ~HasBackwardBranch
  BY DEF Scan
<1> DEFINE E == {e \in BranchEdges : e[1] # e[2]}
<1>2. BlkIds' = BlkIds /\ Searchable' = E
  BY <1>1 DEF Searchable, HasBackwardBranch, BranchEdges, BlkIds
<1>3. ToSet(backEdges') = {}
  BY <1>1, NoInstruction
<1>4. ASSUME NEW S \in (SUBSET BlkIds) \ {{}}
      PROVE  \E b \in S : \A t \in S : <<b, t>> \notin E
  <2>1. Len(mf) \in Nat /\ S \subseteq 0..Len(mf) /\ S # {}
    BY ListFacts DEF IsMachine, BlkIds
  <2>2. PICK b \in S : \A t \in S : b >= t
    BY <2>1, GreatestNatural
  <2>3. ASSUME NEW t \in S, <<b, t>> \in E PROVE FALSE
    <3>1. b \in BlkIds /\ t \in BlkSuccs(mf, b) /\ b # t
      BY <2>3 DEF BranchEdges
    <3>2. t < b
      BY <2>1, <2>2, <3>1
    <3> QED
      BY <1>1, <3>1, <3>2 DEF HasBackwardBranch
  <2> QED
    BY <2>3
<1> HIDE DEF E
<1> QED
  BY <1>2, <1>3, <1>4 DEF LoopsOnly, Acyclic

-----------------------------------------------------------------------------
(* The code, before and after spilling, is machine code; the search, and   *)
(* what it found, are of that code.                                        *)
RewriteInv ==
  stage = "rewrite" =>
    /\ IsList(ends)
    /\ Len(ends) < Len(code) => Instrs(out) /\ \A p \in DOMAIN ends : ends[p] \in 0..Len(out)
CodeInv ==
  /\ IsMachine(source) /\ IsMachine(mf)
  /\ stage = "lower" => phase = "scan"
  /\ phase = "dfs" => SearchInv /\ HasBackwardBranch
  /\ phase \in {"extend", "done"} => LoopsOnly
  /\ RewriteInv

LEMMA LoopsStay ==
  ASSUME LoopsOnly, UNCHANGED <<mf, color, backEdges>>
  PROVE  LoopsOnly'
<1>1. Searchable' = Searchable
  BY DEF Searchable, HasBackwardBranch, CodeEdges, BranchEdges, BlkIds
<1>2. BlkIds' = BlkIds
  BY DEF BlkIds
<1> QED
  BY <1>1, <1>2 DEF LoopsOnly, Reaches, Acyclic

(* What the invariant says of the search, when its variables are as before.*)
LEMMA SearchUnchanged ==
  ASSUME CodeInv, UNCHANGED liveVars
  PROVE  /\ IsMachine(mf)' /\ (stage = "lower" => phase' = "scan")
         /\ phase' = "dfs" => SearchInv' /\ HasBackwardBranch'
         /\ phase' \in {"extend", "done"} => LoopsOnly'
<1>1. mf' = mf /\ phase' = phase /\ color' = color /\ stack' = stack /\ backEdges' = backEdges
  BY DEF liveVars
<1>2. SearchInv => SearchInv'
  <2>1. BlkIds' = BlkIds
    BY <1>1 DEF BlkIds
  <2>2. SearchTypes => SearchTypes'
    BY <1>1, <2>1 DEF SearchTypes
  <2>3. OnPath => OnPath'
    BY <1>1, <2>1 DEF OnPath
  <2>4. ASSUME NEW b PROVE TargetSeq(b)' = TargetSeq(b)
    BY <1>1 DEF TargetSeq
  <2>5. ASSUME NEW b, NEW t PROVE Settled(b, t)' <=> Settled(b, t)
    BY <1>1 DEF Settled
  <2>6. ASSUME NEW i, NEW k, NEW b, NEW t PROVE PassedAt(i, k, b, t)' <=> PassedAt(i, k, b, t)
    BY <1>1, <2>4, <2>5 DEF PassedAt
  <2>7. Passed => Passed'
    BY <1>1, <2>1, <2>6 DEF Passed
  <2>8. AllSettled => AllSettled'
    BY <1>1, <2>1, <2>5 DEF AllSettled
  <2>9. ASSUME NEW S PROVE (Untied(S)' <=> Untied(S)) /\ (Closed(S)' <=> Closed(S))
    BY <1>1, <2>1 DEF Untied, Closed
  <2>10. BlackAcyclic => BlackAcyclic'
    BY <1>1, <2>1, <2>9 DEF BlackAcyclic
  <2>11. ASSUME NEW b, NEW t PROVE IsLoop(b, t)' <=> IsLoop(b, t)
    BY <1>1, <2>1, <2>9 DEF IsLoop
  <2>12. LoopsFound => LoopsFound'
    BY <1>1, <2>1, <2>11 DEF LoopsFound
  <2> QED
    BY <2>2, <2>3, <2>7, <2>8, <2>10, <2>12 DEF SearchInv
<1>3. LoopsOnly => LoopsOnly'
  BY <1>1, LoopsStay
<1>4. HasBackwardBranch' <=> HasBackwardBranch
  BY <1>1 DEF HasBackwardBranch, BlkIds
<1> QED
  BY <1>1, <1>2, <1>3, <1>4 DEF CodeInv

LEMMA IntervalsKeep == CodeInv /\ Intervals => CodeInv'
<1> SUFFICES ASSUME CodeInv, Intervals PROVE CodeInv'
  OBVIOUS
<1>1. /\ stage = "intervals" /\ stage' \in {"intervals", "allocate", "color"} /\ source' = source
      /\ IF phase = "done" THEN UNCHANGED liveVars ELSE Compute
  BY DEF Intervals, ComputeIntervals
<1>2. IsMachine(source)' /\ (stage' = "lower" => phase' = "scan") /\ RewriteInv'
  BY <1>1 DEF CodeInv, RewriteInv
<1>3. CASE UNCHANGED liveVars
  BY <1>2, <1>3, SearchUnchanged DEF CodeInv
<1>4. CASE Compute
  <2>1. mf' = mf
    BY <1>4 DEF Compute, Scan, Visit, Finish, StartExtend, Extend, EndRound
  <2>2. IsMachine(mf) /\ IsMachine(mf)'
    BY <2>1 DEF CodeInv
  <2>3. HasBackwardBranch' <=> HasBackwardBranch
    BY <2>1 DEF HasBackwardBranch, BlkIds
  <2>4. /\ phase' = "dfs" => SearchInv' /\ HasBackwardBranch'
        /\ phase' \in {"extend", "done"} => LoopsOnly'
    <3>1. CASE Scan
      <4>1. phase' \in {"dfs", "done"} /\ (phase' = "dfs" => HasBackwardBranch)
        BY <3>1 DEF Scan
      <4> QED
        BY <2>2, <2>3, <3>1, <4>1, ScanStarts, ScanSkips
    <3>2. CASE Visit
      <4>1. phase = "dfs" /\ phase' = "dfs"
        BY <3>2 DEF Visit
      <4> QED
        BY <2>2, <2>3, <3>2, <4>1, VisitKeeps DEF CodeInv
    <3>3. CASE Finish
      <4>1. phase = "dfs" /\ phase' = "dfs"
        BY <3>3 DEF Finish
      <4> QED
        BY <2>2, <2>3, <3>3, <4>1, FinishKeeps DEF CodeInv
    <3>4. CASE StartExtend
      <4>1. phase = "dfs" /\ stack = <<>> /\ phase' \in {"done", "extend"}
            /\ color' = color /\ backEdges' = backEdges
        BY <3>4 DEF StartExtend
      <4>2. LoopsOnly
        BY <2>2, <4>1, SearchDone DEF CodeInv
      <4> QED
        BY <2>1, <4>1, <4>2, LoopsStay
    <3>5. CASE Extend \/ EndRound
      <4>1. phase = "extend" /\ phase' \in {"done", "extend"}
            /\ color' = color /\ backEdges' = backEdges
        BY <3>5 DEF Extend, EndRound
      <4>2. LoopsOnly
        BY <4>1 DEF CodeInv
      <4> QED
        BY <2>1, <4>1, <4>2, LoopsStay
    <3> QED
      BY <1>4, <3>1, <3>2, <3>3, <3>4, <3>5 DEF Compute
  <2> QED
    BY <1>2, <2>2, <2>4 DEF CodeInv
<1> QED
  BY <1>1, <1>3, <1>4

(* One instruction rewritten: the ends noted lie in the code so far.       *)
LEMMA RewriteKeeps == CodeInv /\ Rewrite => CodeInv'
<1> SUFFICES ASSUME CodeInv, Rewrite PROVE CodeInv'
  OBVIOUS
<1> DEFINE n == Len(ends) + 1
           last == n = Len(code)
<1>1. /\ stage = "rewrite" /\ source' = source
      /\ out' = out \o Spills(code[n], n) /\ ends' = Append(ends, Len(out'))
  BY DEF Rewrite
<1>2. IF last THEN stage' = "intervals" /\ Recompute(Rebuilt(out', ends'))
              ELSE stage' = stage /\ UNCHANGED liveVars
  BY DEF Rewrite
<1>3. /\ IsMachine(source) /\ IsMachine(source)' /\ IsList(ends) /\ code' = code
  BY <1>1 DEF CodeInv, RewriteInv, code
<1>4. Len(ends) \in Nat /\ DOMAIN ends = 1..Len(ends)
  BY <1>3, ListFacts
<1>5. IsList(ends') /\ Len(ends') = n
      /\ \A p \in DOMAIN ends' : (p \in DOMAIN ends /\ ends'[p] = ends[p]) \/ ends'[p] = Len(out')
  <2> DEFINE X == ToSet(ends) \cup {Len(out')}
  <2>1. ends \in Seq(X) /\ Len(out') \in X
    BY <1>3, ListFacts
  <2> HIDE DEF X
  <2>2. ends' \in Seq(X) /\ Len(ends') = Len(ends) + 1
        /\ \A p \in 1..Len(ends') : ends'[p] = IF p = Len(ends) + 1 THEN Len(out') ELSE ends[p]
    BY <1>1, <2>1, <1>4
  <2>3. IsList(ends')
    BY <2>2, SeqIsList
  <2>4. DOMAIN ends' = 1..(Len(ends) + 1)
    BY <2>2
  <2>5. \A p \in 1..(Len(ends) + 1) : p # Len(ends) + 1 => p \in DOMAIN ends
    BY <1>4
  <2> QED
    BY <2>2, <2>3, <2>4, <2>5
<1>6. Len(code) \in Nat
  <2>1. CASE source = <<>>
    <3>1. code = <<>>
      BY <2>1 DEF code, Flat, FlattenSeq
    <3> QED
      BY <3>1
  <2>2. CASE source # <<>>
    <3>1. Len(source) \in Nat /\ DOMAIN source = 1..Len(source)
      BY <1>3, ListFacts DEF IsMachine
    <3>2. 1 \in 1..Len(source)
      BY <1>3, <2>2, <3>1, ListFacts DEF IsMachine
    <3>3. IsList(code)
      BY <1>3, <3>2, BlockBounds DEF BlockRange, code
    <3> QED
      BY <3>3, ListFacts
  <2> QED
    BY <2>1, <2>2
<1>7. ASSUME Len(ends) < Len(code)
      PROVE  Instrs(out') /\ \A p \in DOMAIN ends' : ends'[p] \in 0..Len(out')
  <2>1. Instrs(out) /\ \A p \in DOMAIN ends : ends[p] \in 0..Len(out)
    BY <1>1, <1>7 DEF CodeInv, RewriteInv
  <2>2. IsInstr(code[n])
    <3>1. Len(source) \in Nat /\ DOMAIN source = 1..Len(source)
      BY <1>3, ListFacts DEF IsMachine
    <3>2. source # <<>>
      <4>1. source = <<>> => code = <<>>
        BY DEF code, Flat, FlattenSeq
      <4> QED
        BY <1>4, <1>7, <4>1
    <3>3. 1 \in 1..Len(source)
      BY <1>3, <3>1, <3>2, ListFacts DEF IsMachine
    <3>4. IsList(code) /\ \A i \in DOMAIN code : IsInstr(code[i])
      BY <1>3, <3>3, BlockBounds DEF BlockRange, code
    <3>5. n \in DOMAIN code
      BY <1>4, <1>6, <1>7, <3>4, ListFacts
    <3> QED
      BY <3>4, <3>5
  <2>3. Instrs(Spills(code[n], n))
    BY <2>2, SpillInstrs
  <2>4. Instrs(out')
    BY <1>1, <2>1, <2>3, InstrsConcat
  <2>5. Len(out) \in Nat /\ Len(out') \in Nat /\ Len(out) <= Len(out')
    <3> DEFINE s == Spills(code[n], n)
               X == ToSet(out) \cup ToSet(s)
    <3>1. out \in Seq(X) /\ s \in Seq(X)
      BY <2>1, <2>3, ListFacts DEF Instrs
    <3>2. out' = out \o s
      BY <1>1
    <3> HIDE DEF s, X
    <3> QED
      BY <3>1, <3>2
  <2>6. \A x : x \in 0..Len(out) => x \in 0..Len(out')
    BY <2>5
  <2>7. Len(out') \in 0..Len(out')
    BY <2>5
  <2> QED
    BY <1>5, <2>1, <2>4, <2>6, <2>7
<1>8. CASE last
  <2>1. mf' = Rebuilt(out', ends') /\ phase' = "scan" /\ stage' = "intervals"
    BY <1>2, <1>8 DEF Recompute
  <2>2. Len(ends) < Len(code) /\ Len(ends') = Len(code)
    BY <1>4, <1>5, <1>6, <1>8
  <2>3. IsMachine(Rebuilt(out', ends'))
    BY <1>3, <1>5, <1>7, <2>2, RebuiltMachine
  <2> QED
    BY <1>3, <2>1, <2>3 DEF CodeInv, RewriteInv
<1>9. CASE ~last
  <2>1. stage' = "rewrite" /\ UNCHANGED liveVars
    BY <1>1, <1>2, <1>9
  <2>2. Len(ends') < Len(code) => Len(ends) < Len(code)
    BY <1>4, <1>5, <1>6
  <2>3. RewriteInv'
    BY <1>3, <1>5, <1>7, <2>2 DEF RewriteInv
  <2> QED
    BY <1>3, <2>1, <2>3, SearchUnchanged DEF CodeInv
<1> QED
  BY <1>8, <1>9

LEMMA CodeStep == LowerInv /\ CodeInv /\ [Next]_vars => CodeInv'
<1> SUFFICES ASSUME LowerInv, CodeInv, [Next]_vars PROVE CodeInv'
  OBVIOUS
<1>1. ASSUME UNCHANGED <<source, liveVars, stage, out, ends>> PROVE CodeInv'
  <2>1. IsMachine(source)' /\ RewriteInv'
    BY <1>1 DEF CodeInv, RewriteInv, code
  <2> QED
    BY <1>1, <2>1, SearchUnchanged DEF CodeInv
<1>2. ASSUME UNCHANGED <<source, liveVars>>, stage' \notin {"lower", "rewrite"} PROVE CodeInv'
  <2>1. IsMachine(source)'
    BY <1>2 DEF CodeInv
  <2> QED
    BY <1>2, <2>1, SearchUnchanged DEF CodeInv, RewriteInv
<1>3. CASE RunLowered
  BY <1>1, <1>3 DEF RunLowered, spillVars
<1>4. CASE Generate
  <2>1. /\ stage' = "intervals" /\ source' = lowered /\ mf' = lowered /\ phase' = phase
        /\ stage = "lower" /\ lowered # <<>>
    BY <1>4 DEF Generate
  <2>2. f \in Functions /\ lowered = LowerFunction(f) /\ phase = "scan"
    BY <2>1 DEF LowerInv, CodeInv
  <2>3. IsMachine(lowered)
    BY <2>2, FunctionsAssumption, LoweredMachine
  <2> QED
    BY <2>1, <2>2, <2>3 DEF CodeInv, RewriteInv
<1>5. CASE Intervals
  BY <1>5, IntervalsKeep
<1>6. CASE Allocate
  <2>1. /\ UNCHANGED <<source, liveVars>> /\ stage' \in {"apply", "rewrite"}
        /\ stage' = "rewrite" => out' = <<>> /\ ends' = <<>>
    BY <1>6 DEF Allocate
  <2>2. CASE stage' = "apply"
    BY <1>2, <2>1, <2>2
  <2>3. CASE stage' = "rewrite"
    <3>1. Instrs(<<>>) /\ DOMAIN <<>> = {}
      BY SpillParts
    <3>2. IsMachine(source)' /\ RewriteInv'
      BY <2>1, <2>3, <3>1 DEF CodeInv, RewriteInv, Instrs
    <3> QED
      BY <2>1, <2>3, <3>2, SearchUnchanged DEF CodeInv
  <2> QED
    BY <2>1, <2>2, <2>3
<1>7. CASE Rewrite
  BY <1>7, RewriteKeeps
<1>8. CASE Color
  <2>1. UNCHANGED <<source, liveVars>> /\ stage' \notin {"lower", "rewrite"}
    BY <1>8 DEF Color
  <2> QED
    BY <1>2, <2>1
<1>9. CASE Apply
  BY <1>2, <1>9 DEF Apply
<1>10. CASE \E q \in 1..Len(code) : Run(q)
  <2>1. UNCHANGED <<source, liveVars, stage, out, ends>>
    BY <1>10, Zenon DEF Run
  <2> QED
    BY <1>1, <2>1
<1>11. CASE SpillDone \/ UNCHANGED vars
  BY <1>1, <1>11 DEF SpillDone, vars, spillVars
<1> QED
  BY <1>3, <1>4, <1>5, <1>6, <1>7, <1>8, <1>9, <1>10, <1>11 DEF Next, BackEnd, SpillNext

(* For every IR function and machine function, in the code before spilling *)
(* and in the rewritten code: when the back edges of                       *)
(* compute_live_intervals are used, and when it returns, they are the      *)
(* loops of the code.  If some block branches to an earlier one, each back *)
(* edge lies on a cycle of the code that the search reached and none is    *)
(* left without them; if none does, no back edge is noted and the only     *)
(* cycles are blocks that branch to themselves, which the code misses.     *)
THEOREM BackEdgesAreLoopsAlways == Spec => []BackEdgesAreLoops
<1>1. Init => CodeInv
  <2> SUFFICES ASSUME Init PROVE CodeInv
    OBVIOUS
  <2>1. IsMachine(source) /\ mf = source /\ phase = "scan" /\ stage # "rewrite"
    <3>1. CASE InitLower
      <4>1. IsMachine(<<>>)
        BY NoInstruction DEF IsMachine
      <4> QED
        BY <3>1, <4>1 DEF InitLower
    <3>2. CASE InitBack
      BY <3>2, ProgramsAssumption DEF InitBack, SpillInit
    <3> QED
      BY <3>1, <3>2 DEF Init
  <2> QED
    BY <2>1 DEF CodeInv, RewriteInv
<1>2. LowerInv /\ CodeInv /\ [Next]_vars => CodeInv'
  BY CodeStep
<1>3. CodeInv => BackEdgesAreLoops
  BY DEF CodeInv, LoopsOnly, Searchable, BackEdgesAreLoops
<1> QED
  BY <1>1, <1>2, <1>3, LoweredOnce, PTL DEF Spec

-----------------------------------------------------------------------------
(* The search depends on nothing but the target lists tl of the blocks.    *)
(* Its states, where it starts, and its next step, which leaves it alone   *)
(* when the stack is empty.                                                *)
Colorings(blocks) == [blocks -> {"white", "gray", "black"}]
Entries(blocks) == [blk : blocks, next : Nat \ {0}]
SearchStates(tl) ==
  [color : Colorings(DOMAIN tl), stack : Seq(Entries(DOMAIN tl)),
   back : Seq((DOMAIN tl) \X (DOMAIN tl))]

SearchStart(tl) ==
  [color |-> [b \in DOMAIN tl |-> IF b = 1 THEN "gray" ELSE "white"],
   stack |-> <<[blk |-> 1, next |-> 1]>>, back |-> <<>>]

Ticked(stk) == [stk EXCEPT ![Len(stk)].next = @ + 1]
Onto(tl, s, b, t) ==
  CASE t \in DOMAIN tl /\ s.color[t] = "white" ->
         [color |-> [s.color EXCEPT ![t] = "gray"],
          stack |-> Append(Ticked(s.stack), [blk |-> t, next |-> 1]), back |-> s.back]
    [] t \in DOMAIN tl /\ s.color[t] = "gray" ->
         [color |-> s.color, stack |-> Ticked(s.stack), back |-> Append(s.back, <<b, t>>)]
    [] OTHER -> [color |-> s.color, stack |-> Ticked(s.stack), back |-> s.back]
Advance(tl, s) ==
  IF s.stack = <<>> THEN s
  ELSE LET top == s.stack[Len(s.stack)]
       IN  IF top.next <= Len(tl[top.blk]) THEN Onto(tl, s, top.blk, tl[top.blk][top.next])
           ELSE [color |-> [s.color EXCEPT ![top.blk] = "black"], stack |-> Front(s.stack),
                 back |-> s.back]

(* The states the search reaches are in every set that holds the first and *)
(* with each the next.                                                     *)
Stepwise(tl, R) == \A x \in R : Advance(tl, x) \in R
Found(tl, s) ==
  \A R \in SUBSET SearchStates(tl) : SearchStart(tl) \in R /\ Stepwise(tl, R) => s \in R

LEMMA StateParts ==
  ASSUME NEW tl
  PROVE  /\ \A s \in SearchStates(tl) :
              /\ s.color \in Colorings(DOMAIN tl) /\ s.stack \in Seq(Entries(DOMAIN tl))
              /\ s.back \in Seq((DOMAIN tl) \X (DOMAIN tl))
         /\ \A c \in Colorings(DOMAIN tl), k \in Seq(Entries(DOMAIN tl)),
               b \in Seq((DOMAIN tl) \X (DOMAIN tl)) :
              [color |-> c, stack |-> k, back |-> b] \in SearchStates(tl)
<1>1. PICK A, B, C : /\ A = Colorings(DOMAIN tl) /\ B = Seq(Entries(DOMAIN tl))
                     /\ C = Seq((DOMAIN tl) \X (DOMAIN tl))
  OBVIOUS
<1>2. SearchStates(tl) = [color : A, stack : B, back : C]
  BY <1>1 DEF SearchStates
<1>3. \A s \in [color : A, stack : B, back : C] : s.color \in A /\ s.stack \in B /\ s.back \in C
  OBVIOUS
<1>4. \A c \in A, k \in B, b \in C :
        [color |-> c, stack |-> k, back |-> b] \in [color : A, stack : B, back : C]
  OBVIOUS
<1> QED
  BY <1>1, <1>2, <1>3, <1>4

LEMMA StatesClosed ==
  ASSUME NEW tl, NEW s \in SearchStates(tl)
  PROVE  Advance(tl, s) \in SearchStates(tl)
<1> DEFINE D == DOMAIN tl
           C == Colorings(D)
           E == Entries(D)
           P == D \X D
           n == Len(s.stack)
           top == s.stack[n]
           u == top.blk
           t == tl[u][top.next]
<1>1. s.color \in C /\ s.stack \in Seq(E) /\ s.back \in Seq(P)
  BY StateParts, Zenon
<1>2. \A c \in C, k \in Seq(E), b \in Seq(P) :
        [color |-> c, stack |-> k, back |-> b] \in SearchStates(tl)
  BY StateParts, Zenon
<1>3. CASE s.stack = <<>>
  BY <1>3 DEF Advance
<1>4. CASE s.stack # <<>>
  <2>1. n \in Nat \ {0} /\ n \in DOMAIN s.stack /\ top \in E /\ Front(s.stack) \in Seq(E)
    <3> DEFINE l == s.stack
    <3>1. l \in Seq(E) /\ l # <<>>
      BY <1>1, <1>4
    <3> HIDE DEF E, l
    <3>2. Len(l) \in Nat \ {0} /\ Len(l) \in DOMAIN l /\ Last(l) \in E /\ Last(l) = l[Len(l)]
          /\ Front(l) \in Seq(E)
      BY <3>1, FrontLast
    <3> QED
      BY <3>2 DEF l
  <2>2. u \in D /\ top.next \in Nat \ {0} /\ [top EXCEPT !.next = @ + 1] \in E
    BY <2>1 DEF Entries
  <2>3. Ticked(s.stack) \in Seq(E)
    <3> DEFINE l == s.stack
               e == [top EXCEPT !.next = @ + 1]
    <3>1. Ticked(l) = [l EXCEPT ![n] = e]
      BY DEF Ticked
    <3>2. l \in Seq(E) /\ n \in DOMAIN l /\ e \in E
      BY <1>1, <2>1, <2>2
    <3> HIDE DEF E, e, n, l
    <3>3. [l EXCEPT ![n] = e] \in Seq(E)
      BY <3>2
    <3> QED
      BY <3>1, <3>3 DEF l
  <2> HIDE DEF u, t, top, n
  <2>4. ASSUME t \in D
        PROVE  /\ [s.color EXCEPT ![t] = "gray"] \in C /\ Append(s.back, <<u, t>>) \in Seq(P)
               /\ Append(Ticked(s.stack), [blk |-> t, next |-> 1]) \in Seq(E)
    <3>1. <<u, t>> \in P /\ [blk |-> t, next |-> 1] \in E
      BY <2>2, <2>4 DEF Entries
    <3>2. [s.color EXCEPT ![t] = "gray"] \in C
      BY <1>1 DEF Colorings
    <3> HIDE DEF P, E
    <3> QED
      BY <1>1, <2>3, <3>1, <3>2
  <2>5. [s.color EXCEPT ![u] = "black"] \in C
    BY <1>1 DEF Colorings
  <2> HIDE DEF C, E, P
  <2>6. Onto(tl, s, u, t) \in SearchStates(tl)
    <3>1. CASE t \in D /\ s.color[t] = "white"
      <4>1. Onto(tl, s, u, t) =
              [color |-> [s.color EXCEPT ![t] = "gray"],
               stack |-> Append(Ticked(s.stack), [blk |-> t, next |-> 1]), back |-> s.back]
        BY <3>1 DEF Onto
      <4> QED
        BY <1>1, <1>2, <2>4, <3>1, <4>1
    <3>2. CASE t \in D /\ s.color[t] = "gray"
      <4>1. Onto(tl, s, u, t) =
              [color |-> s.color, stack |-> Ticked(s.stack), back |-> Append(s.back, <<u, t>>)]
        BY <3>2 DEF Onto
      <4> QED
        BY <1>1, <1>2, <2>3, <2>4, <3>2, <4>1
    <3>3. CASE ~(t \in D /\ s.color[t] = "white") /\ ~(t \in D /\ s.color[t] = "gray")
      <4>1. Onto(tl, s, u, t) = [color |-> s.color, stack |-> Ticked(s.stack), back |-> s.back]
        BY <3>3 DEF Onto
      <4> QED
        BY <1>1, <1>2, <2>3, <4>1
    <3> QED
      BY <3>1, <3>2, <3>3
  <2>7. [color |-> [s.color EXCEPT ![u] = "black"], stack |-> Front(s.stack), back |-> s.back]
          \in SearchStates(tl)
    BY <1>1, <1>2, <2>1, <2>5
  <2> QED
    BY <1>4, <2>6, <2>7 DEF Advance, u, t, top, n
<1> QED
  BY <1>3, <1>4

LEMMA FoundNext ==
  ASSUME NEW tl, NEW s, Found(tl, s)
  PROVE  Found(tl, Advance(tl, s))
BY DEF Found, Stepwise

LEMMA FoundFirst ==
  ASSUME NEW tl
  PROVE  Found(tl, SearchStart(tl))
BY DEF Found

(* It ends in one state: from every state it reaches it goes on to each    *)
(* one with an empty stack.                                                *)
LEMMA FoundOnce ==
  ASSUME NEW tl, 1 \in DOMAIN tl, NEW r, Found(tl, r), r.stack = <<>>,
         NEW s, Found(tl, s), s.stack = <<>>
  PROVE  r = s
<1> DEFINE T == SearchStates(tl)
           R == {x \in T : \A Q \in SUBSET T : x \in Q /\ Stepwise(tl, Q) => r \in Q}
<1>1. SearchStart(tl) \in T
  <2> DEFINE D == DOMAIN tl
             E == Entries(D)
             e == [blk |-> 1, next |-> 1]
             c == [b \in D |-> IF b = 1 THEN "gray" ELSE "white"]
  <2>1. c \in Colorings(D)
    BY DEF Colorings
  <2>2. e \in E
    BY DEF Entries
  <2>3. <<e>> \in Seq(E)
    <3> HIDE DEF e, E
    <3> QED
      BY <2>2
  <2>4. <<>> \in Seq(D \X D)
    OBVIOUS
  <2>5. SearchStart(tl) = [color |-> c, stack |-> <<e>>, back |-> <<>>]
    BY DEF SearchStart
  <2> HIDE DEF e, E, c
  <2> QED
    BY <2>1, <2>3, <2>4, <2>5 DEF SearchStates, E
<1>2. T \in SUBSET T /\ Stepwise(tl, T)
  BY StatesClosed DEF Stepwise
<1> HIDE DEF T
<1>3. r \in T /\ s \in T
  BY <1>1, <1>2 DEF Found, T
<1>4. SearchStart(tl) \in R
  BY <1>1 DEF Found, T
<1>5. Stepwise(tl, R)
  <2> SUFFICES ASSUME NEW x \in T, \A Q \in SUBSET T : x \in Q /\ Stepwise(tl, Q) => r \in Q,
                      NEW Q \in SUBSET T, Advance(tl, x) \in Q, Stepwise(tl, Q)
               PROVE  r \in Q
    BY <1>2 DEF Stepwise
  <2> DEFINE W == Q \cup {x}
  <2>1. W \in SUBSET T /\ x \in W /\ Stepwise(tl, W)
    BY DEF Stepwise
  <2>2. r \in W
    BY <2>1
  <2>3. CASE r = x
    <3>1. Advance(tl, x) = x
      BY <2>3 DEF Advance
    <3> QED
      BY <2>3, <3>1
  <2> QED
    BY <2>2, <2>3
<1>6. s \in R
  <2>1. R \in SUBSET T
    OBVIOUS
  <2> HIDE DEF R
  <2> QED
    BY <1>4, <1>5, <2>1 DEF Found, T
<1>7. {s} \in SUBSET T /\ s \in {s} /\ Stepwise(tl, {s})
  BY <1>3 DEF Stepwise, Advance
<1>8. r \in {s}
  BY <1>6, <1>7
<1> QED
  BY <1>8

-----------------------------------------------------------------------------
(* The search of compute_live_intervals is this one.                       *)
TargetsOf(m) == [b \in 1..Len(m) |-> FlattenSeq([i \in 1..Len(m[b]) |-> m[b][i].to])]
Searched == [color |-> color, stack |-> stack, back |-> backEdges]

LEMMA VisitAdvances ==
  ASSUME IsMachine(mf), SearchTypes, Visit
  PROVE  Searched' = Advance(TargetsOf(mf), Searched)
<1>1. PICK tl, s : tl = TargetsOf(mf) /\ s = Searched
  OBVIOUS
<1>2. s.color = color /\ s.stack = stack /\ s.back = backEdges
  BY <1>1 DEF Searched
<1>3. DOMAIN tl = BlkIds /\ \A b \in BlkIds : tl[b] = TargetSeq(b)
  BY <1>1 DEF TargetsOf, BlkIds, TargetSeq
<1>4. /\ Len(stack) \in Nat \ {0} /\ DOMAIN stack = 1..Len(stack) /\ Top.blk \in BlkIds
      /\ stack # <<>> /\ Top.next <= Len(TargetSeq(Top.blk))
  <2>1. stack # <<>> /\ Top = Last(stack)
    BY FrontLast DEF SearchTypes, Visit, Top
  <2> QED
    BY <2>1, VisitFacts DEF Visit
<1>5. Ticked(stack) = Advanced
  BY Zenon DEF Ticked, Advanced
<1>6. Advance(tl, s) = Onto(tl, s, Top.blk, Target)
  BY <1>2, <1>3, <1>4 DEF Advance, Top, Target
<1>7. Searched' = [color |-> color', stack |-> stack', back |-> backEdges']
  BY DEF Searched
<1>8. CASE /\ Target \in BlkIds /\ color[Target] = "white"
           /\ color' = [color EXCEPT ![Target] = "gray"]
           /\ stack' = Append(Advanced, [blk |-> Target, next |-> 1]) /\ backEdges' = backEdges
  <2>1. Onto(tl, s, Top.blk, Target) =
          [color |-> [color EXCEPT ![Target] = "gray"],
           stack |-> Append(Advanced, [blk |-> Target, next |-> 1]), back |-> backEdges]
    BY <1>2, <1>3, <1>5, <1>8 DEF Onto
  <2> QED
    BY <1>1, <1>6, <1>7, <1>8, <2>1
<1>9. CASE /\ Target \in BlkIds /\ color[Target] = "gray"
           /\ color' = color /\ stack' = Advanced
           /\ backEdges' = Append(backEdges, <<Top.blk, Target>>)
  <2>1. Onto(tl, s, Top.blk, Target) =
          [color |-> color, stack |-> Advanced, back |-> Append(backEdges, <<Top.blk, Target>>)]
    BY <1>2, <1>3, <1>5, <1>9 DEF Onto
  <2> QED
    BY <1>1, <1>6, <1>7, <1>9, <2>1
<1>10. CASE /\ Target \in BlkIds => color[Target] = "black"
            /\ color' = color /\ stack' = Advanced /\ backEdges' = backEdges
  <2>1. Onto(tl, s, Top.blk, Target) = [color |-> color, stack |-> Advanced, back |-> backEdges]
    BY <1>2, <1>3, <1>5, <1>10 DEF Onto
  <2> QED
    BY <1>1, <1>6, <1>7, <1>10, <2>1
<1> QED
  BY <1>8, <1>9, <1>10, VisitOutcome

LEMMA FinishAdvances ==
  ASSUME IsMachine(mf), SearchTypes, Finish
  PROVE  Searched' = Advance(TargetsOf(mf), Searched)
<1>1. PICK tl, s : tl = TargetsOf(mf) /\ s = Searched
  OBVIOUS
<1>2. s.color = color /\ s.stack = stack /\ s.back = backEdges
  BY <1>1 DEF Searched
<1>3. DOMAIN tl = BlkIds /\ \A b \in BlkIds : tl[b] = TargetSeq(b)
  BY <1>1 DEF TargetsOf, BlkIds, TargetSeq
<1>4. stack # <<>> /\ Top = Last(stack) /\ Len(stack) \in DOMAIN stack
  BY FrontLast DEF SearchTypes, Finish, Top
<1>5. Top.blk \in BlkIds /\ Top.next \in Nat
  BY <1>4, StackEntries DEF Top
<1>6. ~(Top.next <= Len(TargetSeq(Top.blk)))
  <2>1. Len(TargetSeq(Top.blk)) \in Nat
    BY <1>5, TargetList, ListFacts
  <2>2. Top.next > Len(TargetSeq(Top.blk))
    BY <1>4 DEF Finish
  <2> QED
    BY <1>5, <2>1, <2>2
<1>7. Advance(tl, s) = [color |-> [color EXCEPT ![Top.blk] = "black"], stack |-> Front(stack),
                        back |-> backEdges]
  BY <1>2, <1>3, <1>4, <1>5, <1>6 DEF Advance, Top
<1>8. Searched' = [color |-> color', stack |-> stack', back |-> backEdges']
  BY DEF Searched
<1>9. /\ color' = [color EXCEPT ![Top.blk] = "black"] /\ stack' = Front(stack)
      /\ backEdges' = backEdges
  BY <1>4 DEF Finish
<1> QED
  BY <1>1, <1>7, <1>8, <1>9

(* What it finds, if there is a branch backwards at all: one list.         *)
Backwards(tl) == \E b \in DOMAIN tl : \E t \in ToSet(tl[b]) : t < b
LoopList(tl, loops) ==
  IF Backwards(tl)
  THEN 1 \in DOMAIN tl /\ \E s : Found(tl, s) /\ s.stack = <<>> /\ s.back = loops
  ELSE loops = <<>>

LEMMA LoopListOnce ==
  ASSUME NEW tl, NEW A, LoopList(tl, A), NEW B, LoopList(tl, B)
  PROVE  A = B
<1>1. CASE Backwards(tl)
  <2>1. PICK r : Found(tl, r) /\ r.stack = <<>> /\ r.back = A
    BY <1>1 DEF LoopList
  <2>2. PICK s : Found(tl, s) /\ s.stack = <<>> /\ s.back = B
    BY <1>1 DEF LoopList
  <2>3. 1 \in DOMAIN tl
    BY <1>1 DEF LoopList
  <2> QED
    BY <2>1, <2>2, <2>3, FoundOnce
<1>2. CASE ~Backwards(tl)
  BY <1>2 DEF LoopList
<1> QED
  BY <1>1, <1>2

(* The back edges noted are this list, from the end of the search on.      *)
ListInv ==
  /\ phase = "dfs" =>
       /\ Backwards(TargetsOf(mf)) /\ 1 \in DOMAIN TargetsOf(mf) /\ Found(TargetsOf(mf), Searched)
  /\ phase \in {"extend", "done"} => LoopList(TargetsOf(mf), backEdges)

LEMMA BackwardBranch ==
  ASSUME IsMachine(mf)
  PROVE  HasBackwardBranch <=> Backwards(TargetsOf(mf))
<1>1. PICK tl : tl = TargetsOf(mf)
  OBVIOUS
<1>2. DOMAIN tl = BlkIds /\ \A b \in BlkIds : tl[b] = TargetSeq(b)
  BY <1>1 DEF TargetsOf, BlkIds, TargetSeq
<1>3. \A b \in BlkIds : ToSet(tl[b]) = BlkSuccs(mf, b)
  BY <1>2, TargetList
<1> QED
  BY <1>1, <1>2, <1>3 DEF HasBackwardBranch, Backwards

LEMMA ListScan ==
  ASSUME IsMachine(mf), Scan
  PROVE  ListInv'
<1>1. TargetsOf(mf)' = TargetsOf(mf) /\ backEdges' = <<>>
  BY DEF Scan, TargetsOf
<1>2. CASE HasBackwardBranch
  <2>1. /\ phase' = "dfs" /\ color' = [b \in BlkIds |-> IF b = 1 THEN "gray" ELSE "white"]
        /\ stack' = <<[blk |-> 1, next |-> 1]>>
    BY <1>2 DEF Scan
  <2>2. Backwards(TargetsOf(mf))
    BY <1>2, BackwardBranch
  <2>3. DOMAIN TargetsOf(mf) = BlkIds
    BY DEF TargetsOf, BlkIds
  <2>4. 1 \in BlkIds
    <3>1. Len(mf) \in Nat /\ BlkIds # {}
      BY <1>2, ListFacts DEF IsMachine, HasBackwardBranch
    <3> QED
      BY <3>1 DEF BlkIds
  <2>5. Searched' = SearchStart(TargetsOf(mf))
    BY <1>1, <2>1, <2>3 DEF Searched, SearchStart
  <2>6. Found(TargetsOf(mf), Searched')
    BY <2>5, FoundFirst
  <2>7. Found(TargetsOf(mf), Searched)'
    BY <1>1, <2>6
  <2> QED
    BY <1>1, <2>1, <2>2, <2>3, <2>4, <2>7 DEF ListInv
<1>3. CASE ~HasBackwardBranch
  <2>1. phase' = "done"
    BY <1>3 DEF Scan
  <2>2. LoopList(TargetsOf(mf), <<>>)
    BY <1>3, BackwardBranch DEF LoopList
  <2> QED
    BY <1>1, <2>1, <2>2 DEF ListInv
<1> QED
  BY <1>2, <1>3

LEMMA ListCompute ==
  ASSUME IsMachine(mf), phase = "dfs" => SearchInv, ListInv, Compute
  PROVE  ListInv'
<1>1. TargetsOf(mf)' = TargetsOf(mf)
  <2>1. mf' = mf
    BY DEF Compute, Scan, Visit, Finish, StartExtend, Extend, EndRound
  <2> QED
    BY <2>1 DEF TargetsOf
<1>2. ASSUME phase = "dfs", phase' = "dfs", Searched' = Advance(TargetsOf(mf), Searched)
      PROVE  ListInv'
  <2>1. Found(TargetsOf(mf), Searched')
    BY <1>2, FoundNext DEF ListInv
  <2>2. Found(TargetsOf(mf), Searched)'
    BY <1>1, <2>1
  <2> QED
    BY <1>1, <1>2, <2>2 DEF ListInv
<1>3. CASE Scan
  BY <1>3, ListScan
<1>4. CASE Visit
  <2>1. phase = "dfs" /\ phase' = "dfs"
    BY <1>4 DEF Visit
  <2> QED
    BY <1>2, <1>4, <2>1, VisitAdvances DEF SearchInv
<1>5. CASE Finish
  <2>1. phase = "dfs" /\ phase' = "dfs"
    BY <1>5 DEF Finish
  <2> QED
    BY <1>2, <1>5, <2>1, FinishAdvances DEF SearchInv
<1>6. CASE StartExtend
  <2>1. phase = "dfs" /\ stack = <<>> /\ phase' \in {"done", "extend"} /\ backEdges' = backEdges
    BY <1>6 DEF StartExtend
  <2>2. Searched.stack = <<>> /\ Searched.back = backEdges
    BY <2>1 DEF Searched
  <2>3. LoopList(TargetsOf(mf), backEdges)
    BY <2>1, <2>2 DEF ListInv, LoopList
  <2> QED
    BY <1>1, <2>1, <2>3 DEF ListInv
<1>7. CASE Extend \/ EndRound
  <2>1. phase = "extend" /\ phase' \in {"done", "extend"} /\ backEdges' = backEdges
    BY <1>7 DEF Extend, EndRound
  <2> QED
    BY <1>1, <2>1 DEF ListInv
<1> QED
  BY <1>3, <1>4, <1>5, <1>6, <1>7 DEF Compute

-----------------------------------------------------------------------------
(* The flat order of machine code is a list of instructions.               *)
LEMMA FlatList ==
  ASSUME NEW m, IsMachine(m)
  PROVE  /\ IsList(Flat(m)) /\ Len(Flat(m)) \in Nat /\ DOMAIN Flat(m) = 1..Len(Flat(m))
         /\ \A p \in 1..Len(Flat(m)) : IsInstr(Flat(m)[p])
<1>1. IsList(m) /\ Len(m) \in Nat /\ DOMAIN m = 1..Len(m)
  <2>1. IsList(m)
    BY DEF IsMachine
  <2> QED
    BY <2>1, ListFacts
<1>2. IsList(Flat(m)) /\ \A p \in DOMAIN Flat(m) : IsInstr(Flat(m)[p])
  <2>1. CASE m = <<>>
    <3>1. Flat(m) = <<>> /\ DOMAIN <<>> = {}
      BY <2>1 DEF Flat, FlattenSeq
    <3> QED
      BY <3>1, NoInstruction
  <2>2. CASE m # <<>>
    <3>1. 1 \in 1..Len(m)
      <4>1. DOMAIN m # {}
        BY <1>1, <2>2, EmptyDomain DEF IsList
      <4> QED
        BY <1>1, <4>1
    <3> QED
      BY <3>1, BlockBounds DEF BlockRange
  <2> QED
    BY <2>1, <2>2
<1> QED
  BY <1>2, ListFacts

(* The places that name a register.                                        *)
Places(c, v) == {p \in 1..Len(c) : v = c[p].dst \/ v \in Uses(c[p])}
Span(n) == [start : 1..(n + 1), end : 1..(n + 1)]

LEMMA ScanPlaces ==
  ASSUME NEW c, Len(c) \in Nat, NEW v, Places(c, v) # {}
  PROVE  LET i == ScanInterval(c, v)
         IN  /\ i \in Span(Len(c)) /\ i.start \in Places(c, v)
             /\ \A p \in Places(c, v) : i.start <= p /\ p < i.end
             /\ \E p \in Places(c, v) : i.end = p + 1
<1> DEFINE S == Places(c, v)
           n == Len(c)
<1>1. S \subseteq 1..n
  BY DEF Places
<1>2. ScanInterval(c, v) = [start |-> Min(S), end |-> 1 + Max(S)]
  BY DEF ScanInterval, Places
<1> HIDE DEF S, n
<1>3. Min(S) \in S /\ \A p \in S : Min(S) <= p
  <2>1. S \subseteq Nat /\ S # {}
    BY <1>1 DEF S, n
  <2>2. \E x \in S : \A y \in S : x <= y
    BY <2>1, LeastNatural
  <2> QED
    BY <2>2 DEF Min
<1>4. Max(S) \in S /\ \A p \in S : p <= Max(S)
  <2>1. S \subseteq 0..n /\ S # {} /\ n \in Nat
    BY <1>1 DEF S, n
  <2>2. \E x \in S : \A y \in S : x >= y
    BY <2>1, GreatestNatural
  <2>3. Max(S) \in S /\ \A y \in S : Max(S) >= y
    BY <2>2 DEF Max
  <2> QED
    BY <2>1, <2>3
<1>5. PICK a, b : a = Min(S) /\ b = Max(S)
  OBVIOUS
<1>6. a \in S /\ b \in S /\ \A p \in S : a <= p /\ p <= b
  BY <1>3, <1>4, <1>5
<1>7. n \in Nat
  BY DEF n
<1>8. a \in 1..(n + 1) /\ 1 + b \in 1..(n + 1) /\ \A p \in S : a <= p /\ p < 1 + b
  BY <1>1, <1>6, <1>7
<1>9. ScanInterval(c, v) = [start |-> a, end |-> 1 + b]
  BY <1>2, <1>5
<1>10. 1 + b = b + 1
  BY <1>1, <1>6, <1>7
<1> QED
  BY <1>6, <1>8, <1>9, <1>10 DEF S, n, Span

LEMMA RegisterPlaces ==
  ASSUME NEW m, NEW v \in Registers(m)
  PROVE  Places(Flat(m), v) # {}
BY DEF Registers, Places

-----------------------------------------------------------------------------
(* An end that a register's interval may have: past its places, and not    *)
(* short of the end of a loop whose header it reaches into.                *)
Dsts(m, b) == {m[b][i].dst : i \in 1..Len(m[b])}
EdgeFits(m, e, v, x) ==
  /\ v \notin Dsts(m, e[1])
  /\ ScanInterval(Flat(m), v).start < BlkStart(m, e[2]) /\ BlkStart(m, e[2]) < x
  => BlkEnd(m, e[1]) <= x
Fits(m, loops, v, x) ==
  /\ x \in 1..(Len(Flat(m)) + 1) /\ ScanInterval(Flat(m), v).end <= x
  /\ \A e \in ToSet(loops) : EdgeFits(m, e, v, x)

(* The intervals computed have the least such ends.                        *)
Least(m, loops, v, x) == \A y : Fits(m, loops, v, y) => x <= y
Grown(m, loops, ivl) ==
  /\ DOMAIN ivl = Registers(m)
  /\ \A v \in Registers(m) :
       /\ ivl[v] \in Span(Len(Flat(m)))
       /\ ivl[v].start = ScanInterval(Flat(m), v).start
       /\ ScanInterval(Flat(m), v).end <= ivl[v].end
       /\ Least(m, loops, v, ivl[v].end)
Quiet(k) == \A v \in Registers(mf) : EdgeFits(mf, backEdges[k], v, interval[v].end)

LoopsIn(m, loops) == \A e \in ToSet(loops) : e[1] \in 1..Len(m) /\ e[2] \in 1..Len(m)

GrowInv ==
  /\ phase = "dfs" => interval = [v \in Registers(mf) |-> ScanInterval(Flat(mf), v)]
  /\ phase \in {"extend", "done"} => Grown(mf, backEdges, interval) /\ LoopsIn(mf, backEdges)
  /\ phase = "extend" =>
       /\ edge \in Nat \ {0} /\ IsList(backEdges)
       /\ ~changed => \A k \in 1..(edge - 1) : k \in DOMAIN backEdges => Quiet(k)
  /\ phase = "done" => \A v \in Registers(mf) : Fits(mf, backEdges, v, interval[v].end)

LEMMA ScanGrown ==
  ASSUME NEW m, IsMachine(m), NEW loops,
         NEW ivl, ivl = [v \in Registers(m) |-> ScanInterval(Flat(m), v)]
  PROVE  Grown(m, loops, ivl)
<1>1. Len(Flat(m)) \in Nat
  BY FlatList
<1>2. ASSUME NEW v \in Registers(m)
      PROVE  ivl[v] \in Span(Len(Flat(m))) /\ ivl[v] = ScanInterval(Flat(m), v)
             /\ ivl[v].end <= ivl[v].end
  <2>1. ivl[v] = ScanInterval(Flat(m), v)
    OBVIOUS
  <2>2. ivl[v] \in Span(Len(Flat(m)))
    BY <1>1, <2>1, ScanPlaces, RegisterPlaces
  <2>3. ivl[v].end \in Nat
    BY <1>1, <2>2 DEF Span
  <2> QED
    BY <2>1, <2>2, <2>3
<1>3. \A v \in Registers(m) : Least(m, loops, v, ivl[v].end)
  BY <1>2 DEF Least, Fits
<1> QED
  BY <1>2, <1>3 DEF Grown

LEMMA NoLoopFits ==
  ASSUME NEW m, NEW ivl, Grown(m, <<>>, ivl), NEW v \in Registers(m)
  PROVE  Fits(m, <<>>, v, ivl[v].end)
<1>1. ToSet(<<>>) = {}
  BY NoInstruction
<1>2. ivl[v].end \in 1..(Len(Flat(m)) + 1)
  BY DEF Grown, Span
<1> QED
  BY <1>1, <1>2 DEF Fits, Grown

(* A round extends an interval only as far as it must.                     *)
LEMMA ExtendGrown ==
  ASSUME IsMachine(mf), GrowInv, Extend
  PROVE  GrowInv'
<1>1. PICK e, a, z, N : /\ e = backEdges[edge] /\ a = BlkStart(mf, e[2]) /\ z = BlkEnd(mf, e[1])
                        /\ N = Len(Flat(mf))
  OBVIOUS
<1> DEFINE longer == {v \in DOMAIN interval : LiveRound(v, e[1], e[2])}
<1>2. /\ phase = "extend" /\ edge <= Len(backEdges) /\ edge' = edge + 1
      /\ mf' = mf /\ phase' = phase /\ backEdges' = backEdges
      /\ interval' = [v \in DOMAIN interval |->
                         IF v \in longer THEN [interval[v] EXCEPT !.end = z] ELSE interval[v]]
      /\ changed' = (changed \/ longer # {})
  BY <1>1 DEF Extend
<1>3. /\ Grown(mf, backEdges, interval) /\ edge \in Nat \ {0} /\ IsList(backEdges)
      /\ LoopsIn(mf, backEdges)
      /\ ~changed => \A k \in 1..(edge - 1) : k \in DOMAIN backEdges => Quiet(k)
  BY <1>2 DEF GrowInv
<1>4. e \in ToSet(backEdges) /\ edge \in DOMAIN backEdges
  BY <1>1, <1>2, <1>3, ListFacts
<1>5. N \in Nat /\ a \in 1..(N + 1) /\ z \in 1..(N + 1)
  <2>1. e[1] \in 1..Len(mf) /\ e[2] \in 1..Len(mf)
    BY <1>3, <1>4 DEF LoopsIn
  <2> QED
    BY <1>1, <2>1, FlatList, BlockBounds DEF BlockRange
<1>6. DOMAIN interval = Registers(mf)
  BY <1>3 DEF Grown
<1> DEFINE R == Registers(mf)
           low(v) == ScanInterval(Flat(mf), v).start
<1>7. ASSUME NEW v \in R
      PROVE  /\ interval[v] \in Span(N) /\ interval[v].start = low(v)
             /\ interval[v].end \in Nat /\ interval[v].start \in Nat
             /\ ScanInterval(Flat(mf), v).end <= interval[v].end
             /\ ScanInterval(Flat(mf), v).end \in Nat
             /\ \A y : Fits(mf, backEdges, v, y) => interval[v].end <= y
  <2>1. ScanInterval(Flat(mf), v) \in Span(N)
    BY <1>1, <1>5, ScanPlaces, RegisterPlaces
  <2>2. interval[v] \in Span(N)
    BY <1>1, <1>3 DEF Grown
  <2>3. ScanInterval(Flat(mf), v).end \in Nat /\ interval[v].end \in Nat /\ interval[v].start \in Nat
    BY <1>5, <2>1, <2>2 DEF Span
  <2> QED
    BY <1>3, <2>2, <2>3 DEF Grown, Least
<1>8. ASSUME NEW v \in R
      PROVE  v \in longer <=> /\ v \notin Dsts(mf, e[1]) /\ low(v) < a /\ a < interval[v].end
                              /\ interval[v].end < z
  <2>1. interval[v].end > a <=> a < interval[v].end
    BY <1>5, <1>7
  <2> QED
    BY <1>1, <1>6, <1>7, <2>1 DEF LiveRound, Dsts
<1>9. \A v \in R : interval'[v] = IF v \in longer THEN [interval[v] EXCEPT !.end = z] ELSE interval[v]
  BY <1>2, <1>6
<1>10. DOMAIN interval' = R
  BY <1>2, <1>6
<1> HIDE DEF longer, R, low
<1>11. ASSUME NEW v \in R
       PROVE  /\ interval'[v] \in Span(N) /\ interval'[v].start = low(v)
              /\ ScanInterval(Flat(mf), v).end <= interval'[v].end
              /\ Least(mf, backEdges, v, interval'[v].end)
  <2>1. CASE v \notin longer
    BY <1>7, <1>9, <2>1 DEF Least
  <2>2. CASE v \in longer
    <3>1. interval'[v] \in Span(N) /\ interval'[v].start = interval[v].start /\ interval'[v].end = z
      BY <1>5, <1>7, <1>9, <2>2 DEF Span
    <3>2. v \notin Dsts(mf, e[1]) /\ low(v) < a /\ a < interval[v].end /\ interval[v].end < z
      BY <1>8, <2>2
    <3>3. ScanInterval(Flat(mf), v).end <= z
      BY <1>5, <1>7, <3>2
    <3>4. ASSUME NEW y, Fits(mf, backEdges, v, y) PROVE z <= y
      <4>1. interval[v].end <= y /\ y \in 1..(N + 1)
        BY <1>1, <1>7, <3>4 DEF Fits
      <4>2. a < y
        BY <1>5, <1>7, <3>2, <4>1
      <4>3. EdgeFits(mf, e, v, y)
        BY <1>4, <3>4 DEF Fits
      <4> QED
        BY <1>1, <3>2, <4>2, <4>3 DEF EdgeFits, low
    <3> QED
      BY <1>7, <3>1, <3>3, <3>4 DEF Least
  <2> QED
    BY <2>1, <2>2
<1>12. Grown(mf, backEdges, interval')
  BY <1>1, <1>10, <1>11 DEF Grown, R, low
<1>13. ASSUME ~changed', NEW k \in 1..edge, k \in DOMAIN backEdges
       PROVE  \A v \in R : EdgeFits(mf, backEdges[k], v, interval'[v].end)
  <2> SUFFICES ASSUME NEW v \in R PROVE EdgeFits(mf, backEdges[k], v, interval'[v].end)
    OBVIOUS
  <2>1. ~changed /\ v \notin longer /\ interval'[v] = interval[v]
    BY <1>2, <1>9, <1>13
  <2>2. CASE k = edge
    <3> SUFFICES ASSUME v \notin Dsts(mf, e[1]), low(v) < a, a < interval[v].end
                 PROVE  z <= interval[v].end
      BY <1>1, <2>1, <2>2 DEF EdgeFits, low
    <3>1. ~(interval[v].end < z)
      BY <1>8, <2>1
    <3> QED
      BY <1>5, <1>7, <3>1
  <2>3. CASE k # edge
    <3>1. k \in 1..(edge - 1)
      BY <1>3, <2>3
    <3> QED
      BY <1>3, <1>13, <2>1, <3>1 DEF Quiet, R
  <2> QED
    BY <2>2, <2>3
<1>14. edge' - 1 = edge /\ edge' \in Nat \ {0}
  BY <1>2, <1>3
<1>15. ASSUME ~changed', NEW k \in 1..(edge' - 1), k \in DOMAIN backEdges PROVE Quiet(k)'
  <2>1. \A v \in R : EdgeFits(mf, backEdges[k], v, interval'[v].end)
    BY <1>13, <1>14, <1>15
  <2> QED
    BY <1>2, <2>1 DEF Quiet, R
<1>16. Grown(mf, backEdges, interval)'
  BY <1>2, <1>12
<1>17. LoopsIn(mf, backEdges)'
  BY <1>2, <1>3 DEF LoopsIn
<1> QED
  BY <1>2, <1>3, <1>14, <1>15, <1>16, <1>17 DEF GrowInv

LEMMA GrowCompute ==
  ASSUME IsMachine(mf), phase = "dfs" => SearchInv, GrowInv, Compute
  PROVE  GrowInv'
<1>1. CASE Scan
  <2>1. /\ mf' = mf /\ interval' = [v \in Registers(mf) |-> ScanInterval(Flat(mf), v)]
        /\ phase' \in {"dfs", "done"} /\ backEdges' = <<>>
    BY <1>1 DEF Scan
  <2>2. PICK ivl : ivl = [v \in Registers(mf) |-> ScanInterval(Flat(mf), v)]
    OBVIOUS
  <2>3. Grown(mf, <<>>, ivl)
    BY <2>2, ScanGrown
  <2>4. \A v \in Registers(mf) : Fits(mf, <<>>, v, ivl[v].end)
    BY <2>3, NoLoopFits
  <2>5. Grown(mf, backEdges, interval)'
    BY <2>1, <2>2, <2>3
  <2>6. (\A v \in Registers(mf) : Fits(mf, backEdges, v, interval[v].end))'
    BY <2>1, <2>2, <2>4
  <2>7. (interval = [v \in Registers(mf) |-> ScanInterval(Flat(mf), v)])'
    BY <2>1
  <2>8. LoopsIn(mf, backEdges)'
    BY <2>1, NoInstruction DEF LoopsIn
  <2> QED
    BY <2>1, <2>5, <2>6, <2>7, <2>8 DEF GrowInv
<1>2. CASE Visit \/ Finish
  <2>1. phase = "dfs" /\ phase' = "dfs" /\ mf' = mf /\ interval' = interval
    BY <1>2 DEF Visit, Finish
  <2> QED
    BY <2>1 DEF GrowInv
<1>3. CASE StartExtend
  <2>1. /\ phase = "dfs" /\ stack = <<>> /\ mf' = mf /\ interval' = interval /\ edge' = 1
        /\ phase' = IF backEdges = <<>> THEN "done" ELSE "extend"
        /\ color' = color /\ backEdges' = backEdges
    BY <1>3 DEF StartExtend
  <2>2. Grown(mf, backEdges, interval)
    BY <2>1, ScanGrown DEF GrowInv
  <2>3. Grown(mf, backEdges, interval)'
    BY <2>1, <2>2
  <2>4. CASE backEdges = <<>>
    <3>1. \A v \in Registers(mf) : Fits(mf, backEdges, v, interval[v].end)
      BY <2>2, <2>4, NoLoopFits
    <3>2. LoopsIn(mf, backEdges)'
      BY <2>1, <2>4, NoInstruction DEF LoopsIn
    <3> QED
      BY <2>1, <2>3, <2>4, <3>1, <3>2 DEF GrowInv
  <2>5. CASE backEdges # <<>>
    <3>1. SearchInv /\ IsList(backEdges)
      BY <2>1 DEF SearchInv, SearchTypes
    <3>2. \A e \in ToSet(backEdges) : e[1] \in BlkIds /\ e[2] \in BlkIds
      BY <3>1 DEF SearchInv, LoopsFound
    <3>3. LoopsIn(mf, backEdges)'
      BY <2>1, <3>2 DEF LoopsIn, BlkIds
    <3>4. \A k \in 1..(1 - 1) : FALSE
      OBVIOUS
    <3> QED
      BY <2>1, <2>3, <2>5, <3>1, <3>3, <3>4 DEF GrowInv
  <2> QED
    BY <2>4, <2>5
<1>4. CASE Extend
  BY <1>4, ExtendGrown
<1>5. CASE EndRound
  <2>1. /\ phase = "extend" /\ edge > Len(backEdges) /\ mf' = mf /\ interval' = interval
        /\ phase' = (IF changed THEN "extend" ELSE "done") /\ edge' = 1 /\ backEdges' = backEdges
    BY <1>5 DEF EndRound
  <2>2. /\ Grown(mf, backEdges, interval) /\ edge \in Nat \ {0} /\ IsList(backEdges)
        /\ LoopsIn(mf, backEdges)
        /\ ~changed => \A k \in 1..(edge - 1) : k \in DOMAIN backEdges => Quiet(k)
    BY <2>1 DEF GrowInv
  <2>3. Grown(mf, backEdges, interval)' /\ LoopsIn(mf, backEdges)'
    BY <2>1, <2>2 DEF LoopsIn
  <2>4. CASE changed
    <3>2. \A k \in 1..(1 - 1) : FALSE
      OBVIOUS
    <3> QED
      BY <2>1, <2>2, <2>3, <2>4, <3>2 DEF GrowInv
  <2>5. CASE ~changed
    <3>1. \A k \in DOMAIN backEdges : k \in 1..(edge - 1)
      BY <2>1, <2>2, ListFacts
    <3>2. ASSUME NEW v \in Registers(mf) PROVE Fits(mf, backEdges, v, interval[v].end)
      <4>1. interval[v].end \in 1..(Len(Flat(mf)) + 1) /\ ScanInterval(Flat(mf), v).end <= interval[v].end
        BY <2>2 DEF Grown, Span
      <4>2. ASSUME NEW e \in ToSet(backEdges) PROVE EdgeFits(mf, e, v, interval[v].end)
        <5>1. PICK k \in DOMAIN backEdges : e = backEdges[k]
          BY DEF ToSet
        <5>2. Quiet(k)
          BY <2>2, <2>5, <3>1
        <5> QED
          BY <5>1, <5>2 DEF Quiet
      <4> QED
        BY <4>1, <4>2 DEF Fits
    <3>3. (\A v \in Registers(mf) : Fits(mf, backEdges, v, interval[v].end))'
      BY <2>1, <3>2
    <3> QED
      BY <2>1, <2>3, <2>5, <3>3 DEF GrowInv
  <2> QED
    BY <2>4, <2>5
<1> QED
  BY <1>1, <1>2, <1>3, <1>4, <1>5 DEF Compute

-----------------------------------------------------------------------------
(* Blocks lie one after the other, from the first position to the last.    *)
Laid(m) ==
  /\ BlkStart(m, 1) = 1 /\ BlkEnd(m, Len(m)) = Len(Flat(m)) + 1
  /\ \A b \in 1..(Len(m) - 1) : BlkStart(m, b + 1) = BlkEnd(m, b)
  /\ \A b \in 1..Len(m) : \A i \in 1..Len(m[b]) : Flat(m)[BlkStart(m, b) + i - 1] = m[b][i]
  /\ \A q \in 1..Len(Flat(m)) :
       \E b \in 1..Len(m) : \E i \in 1..Len(m[b]) : q = BlkStart(m, b) + i - 1

LEMMA BlockLayout ==
  ASSUME NEW m, IsMachine(m), m # <<>>
  PROVE  Laid(m)
<1> DEFINE N == Len(m)
<1>1. PICK X, part : IsFlattening(part, m, X) /\ LaidOut(part, m)
  BY BlockParts
<1>2. N \in Nat \ {0} /\ DOMAIN m = 1..N /\ \A b \in 1..N : IsList(m[b])
  <2>1. IsList(m)
    BY DEF IsMachine
  <2>2. Len(m) \in Nat /\ DOMAIN m = 1..Len(m)
    BY <2>1, ListFacts
  <2>3. Len(m) # 0
    BY <2>1, <2>2, EmptyDomain DEF IsList
  <2> QED
    BY <2>2, <2>3 DEF IsMachine
<1>3. \A b \in 1..N : IsList(part[b])
  BY <1>1, FlattenTypes
<1>4. \A b \in 1..N : /\ BlkStart(m, b) \in Nat \ {0} /\ Len(part[b]) \in Nat /\ Len(m[b]) \in Nat
                      /\ BlkStart(m, b) + Len(m[b]) = Len(part[b]) + 1
                      /\ BlkEnd(m, b) = Len(part[b]) + 1
  BY <1>1 DEF LaidOut, BlkEnd
<1>5. Flat(m) = part[N]
  BY <1>1 DEF LaidOut
<1> HIDE DEF N
<1>6. ASSUME NEW b \in 1..N, b # 1
      PROVE  /\ b - 1 \in 1..N /\ Len(part[b]) = Len(part[b - 1]) + Len(m[b])
             /\ BlkStart(m, b) = Len(part[b - 1]) + 1
             /\ \A i \in 1..Len(m[b]) : part[b][Len(part[b - 1]) + i] = m[b][i]
  <2>1. b - 1 \in 1..N /\ b = (b - 1) + 1
    BY <1>2, <1>6
  <2>2. PICK p, d, e : p = part[b - 1] /\ d = m[b] /\ e = part[b]
    OBVIOUS
  <2>3. Joins(e, p, d)
    <3>1. b - 1 \in 1..Len(m) /\ b \in 1..Len(m)
      BY <2>1 DEF N
    <3> QED
      BY <1>1, <2>1, <2>2, <3>1, FlattenNext
  <2>4. IsList(p) /\ IsList(d)
    BY <1>2, <1>3, <2>1, <2>2
  <2>5. Len(e) = Len(p) + Len(d) /\ \A i \in 1..Len(d) : e[Len(p) + i] = d[i]
    <3>1. e = p \o d
      BY <2>3 DEF Joins
    <3> QED
      BY <2>4, <3>1, ConcatLists
  <2>6. PICK x, y, z, u : x = Len(p) /\ y = Len(d) /\ z = Len(e) /\ u = BlkStart(m, b)
    OBVIOUS
  <2>7. x \in Nat /\ y \in Nat /\ z \in Nat /\ u \in Nat /\ u + y = z + 1 /\ z = x + y
    BY <1>4, <2>1, <2>2, <2>5, <2>6
  <2>8. u = x + 1
    BY <2>7
  <2> QED
    BY <2>1, <2>2, <2>5, <2>6, <2>8
<1>7. part[1] = m[1] /\ 1 \in 1..N /\ N \in 1..N
  <2>1. 1 \in 1..N /\ N \in 1..N
    BY <1>2
  <2> QED
    BY <1>1, <2>1, FlattenTypes DEF N
<1>8. BlkStart(m, 1) = 1
  BY <1>4, <1>7
<1>9. BlkEnd(m, N) = Len(Flat(m)) + 1
  BY <1>4, <1>5, <1>7
<1>10. ASSUME NEW b \in 1..(N - 1) PROVE BlkStart(m, b + 1) = BlkEnd(m, b)
  <2>1. b \in 1..N /\ b + 1 \in 1..N /\ b + 1 # 1 /\ (b + 1) - 1 = b
    BY <1>2
  <2> QED
    BY <1>4, <1>6, <2>1
<1>11. ASSUME NEW b \in 1..N, NEW i \in 1..Len(m[b])
       PROVE  Flat(m)[BlkStart(m, b) + i - 1] = m[b][i]
  <2>1. Len(part[b]) \in Nat /\ BlkStart(m, b) \in Nat \ {0} /\ Len(m[b]) \in Nat
        /\ BlkStart(m, b) + Len(m[b]) = Len(part[b]) + 1
    BY <1>4
  <2>2. BlkStart(m, b) + i - 1 \in 1..Len(part[b])
    BY <2>1
  <2>3. part[b][BlkStart(m, b) + i - 1] = m[b][i]
    <3>1. CASE b = 1
      <4>1. 1 + i - 1 = i
        OBVIOUS
      <4> QED
        BY <1>7, <1>8, <3>1, <4>1
    <3>2. CASE b # 1
      <4>1. b - 1 \in 1..N
        BY <1>6, <3>2
      <4>2. PICK k : k = Len(part[b - 1])
        OBVIOUS
      <4>3. k \in Nat /\ BlkStart(m, b) = k + 1 /\ part[b][k + i] = m[b][i]
        BY <1>4, <1>6, <3>2, <4>1, <4>2
      <4>4. (k + 1) + i - 1 = k + i
        BY <4>3
      <4> QED
        BY <4>3, <4>4
    <3> QED
      BY <3>1, <3>2
  <2>4. N \in b..N
    BY <1>2
  <2>5. \A k \in 1..Len(part[b]) : part[N][k] = part[b][k]
    BY <1>1, <2>4, FlattenPrefix DEF N
  <2> QED
    BY <1>5, <2>2, <2>3, <2>5
<1>12. ASSUME NEW q \in 1..Len(Flat(m))
       PROVE  \E b \in 1..N : \E i \in 1..Len(m[b]) : q = BlkStart(m, b) + i - 1
  <2> DEFINE S == {b \in 1..N : q <= Len(part[b])}
  <2>1. N \in S
    BY <1>4, <1>5, <1>7
  <2>2. S \subseteq Nat /\ S # {}
    BY <2>1
  <2>3. PICK b \in S : \A c \in S : b <= c
    BY <2>2, LeastNatural
  <2>4. b \in 1..N /\ q <= Len(part[b])
    OBVIOUS
  <2>5. q \in Nat \ {0} /\ BlkStart(m, b) \in Nat \ {0} /\ Len(m[b]) \in Nat /\ Len(part[b]) \in Nat
        /\ BlkStart(m, b) + Len(m[b]) = Len(part[b]) + 1
    BY <1>4, <2>4
  <2>6. BlkStart(m, b) <= q
    <3>1. CASE b = 1
      BY <1>8, <2>5, <3>1
    <3>2. CASE b # 1
      <4>1. b - 1 \in 1..N /\ BlkStart(m, b) = Len(part[b - 1]) + 1
        BY <1>6, <2>4, <3>2
      <4>2. ~(q <= Len(part[b - 1]))
        <5>1. ~(b <= b - 1)
          BY <2>4
        <5> QED
          BY <2>3, <4>1, <5>1
      <4>3. Len(part[b - 1]) \in Nat
        BY <1>4, <4>1
      <4> QED
        BY <2>5, <4>1, <4>2, <4>3
    <3> QED
      BY <3>1, <3>2
  <2> DEFINE i == q - BlkStart(m, b) + 1
  <2>7. i \in 1..Len(m[b]) /\ q = BlkStart(m, b) + i - 1
    BY <2>4, <2>5, <2>6
  <2> QED
    BY <2>4, <2>7
<1> QED
  BY <1>8, <1>9, <1>10, <1>11, <1>12 DEF Laid, N

-----------------------------------------------------------------------------
(* What one instruction is rewritten to: the instruction itself, with the  *)
(* branches it had, among loads and stores of fresh registers.             *)
Names(in, v) == v = in.dst \/ v \in Uses(in)
SpillShape(g, in, r) ==
  /\ IsList(g) /\ r \in Nat /\ r + 1 \in 1..Len(g)
  /\ g[r + 1].to = in.to /\ (in.dst \notin spilled => g[r + 1].dst = in.dst)
  /\ \A i \in 1..Len(g) : i # r + 1 => g[i].to = <<>>
  /\ \A i \in 1..Len(g) : \A v : Plain(v) /\ Names(g[i], v) => Names(in, v)

LEMMA SpillNames ==
  ASSUME NEW n, NEW i, NEW x, NEW v, Plain(v)
  PROVE  ~Names(Load(Fresh(n, i), x), v) /\ ~Names(Store(Fresh(n, i), x), v)
<1>1. v # Fresh(n, i) /\ v # NoReg
  BY DEF Plain, Fresh
<1>2. ToSet(<<>>) = {} /\ ToSet(<<Fresh(n, i)>>) = {Fresh(n, i)}
  <2>1. Fresh(n, i) \in {Fresh(n, i)}
    OBVIOUS
  <2> QED
    BY <2>1, NoInstruction, OneElement
<1> QED
  BY <1>1, <1>2 DEF Names, Load, Store, MInstr, Uses

Own(in, n, d) == [Reloaded(in, n) EXCEPT !.dst = IF @ \in spilled THEN Fresh(n, d) ELSE @]

LEMMA OwnInstr ==
  ASSUME NEW in, IsInstr(in), NEW n, NEW d, NEW own, own = Own(in, n, d)
  PROVE  /\ IsInstr(own) /\ own.to = in.to /\ (in.dst \notin spilled => own.dst = in.dst)
         /\ \A v : Plain(v) /\ Names(own, v) => Names(in, v)
<1>1. IsList(in.srcs) /\ Len(in.srcs) \in Nat /\ DOMAIN in.srcs = 1..Len(in.srcs) /\ IsList(in.to)
      /\ in = MInstr(in.op, in.dst, in.srcs, in.to, in.val)
  BY ListFacts DEF IsInstr
<1> DEFINE read == [i \in 1..Len(in.srcs) |-> IF in.srcs[i] \in spilled THEN Fresh(n, i) ELSE in.srcs[i]]
           dst == IF in.dst \in spilled THEN Fresh(n, d) ELSE in.dst
<1>2. Reloaded(in, n) = MInstr(in.op, in.dst, read, in.to, in.val)
  BY <1>1 DEF Reloaded, MInstr
<1>3. read = [i \in 1..Len(in.srcs) |-> read[i]] /\ DOMAIN read = 1..Len(in.srcs)
      /\ \A i \in 1..Len(in.srcs) : read[i] = IF in.srcs[i] \in spilled THEN Fresh(n, i) ELSE in.srcs[i]
  OBVIOUS
<1> HIDE DEF read
<1>4. own = MInstr(in.op, dst, read, in.to, in.val)
  BY <1>2 DEF Own, MInstr
<1>5. IsList(read)
  BY <1>1, <1>3, FunctionIsList
<1> HIDE DEF dst
<1>6. IsInstr(own) /\ own.to = in.to /\ own.dst = dst /\ own.srcs = read
  <2>1. PICK o, t, l : o = in.op /\ t = in.to /\ l = in.val
    OBVIOUS
  <2>2. own = MInstr(o, dst, read, t, l)
    BY <1>4, <2>1
  <2>3. own.op = o /\ own.dst = dst /\ own.srcs = read /\ own.to = t /\ own.val = l
    BY <2>2 DEF MInstr
  <2>4. IsInstr(own)
    BY <1>1, <1>5, <2>1, <2>2, <2>3 DEF IsInstr
  <2> QED
    BY <2>1, <2>3, <2>4
<1>7. ASSUME NEW v, Plain(v), Names(own, v) PROVE Names(in, v)
  <2>1. \A k : v # Fresh(n, k)
    BY <1>7 DEF Plain, Fresh
  <2>2. CASE v = dst
    BY <2>1, <2>2 DEF Names, dst
  <2>3. CASE v \in ToSet(read)
    <3>1. PICK i \in 1..Len(in.srcs) : v = read[i]
      BY <1>3, <2>3 DEF ToSet
    <3>2. v = in.srcs[i]
      BY <1>3, <2>1, <3>1
    <3> QED
      BY <1>1, <3>2 DEF Names, Uses, ToSet
  <2> QED
    BY <1>6, <1>7, <2>2, <2>3 DEF Names, Uses
<1> QED
  BY <1>6, <1>7 DEF dst

LEMMA SpillShapes ==
  ASSUME NEW in, IsInstr(in), NEW n
  PROVE  \E r : SpillShape(Spills(in, n), in, r)
<1>20. PICK d : d = 1 + Len(in.srcs)
  OBVIOUS
<1>1. PICK a, own, after :
        /\ a = Reloads(in, n)
        /\ own = Own(in, n, d)
        /\ after = IF in.dst \in spilled THEN <<Store(Fresh(n, d), in.dst)>> ELSE <<>>
  OBVIOUS
<1>2. Spills(in, n) = (a \o <<own>>) \o after
  BY <1>1, <1>20 DEF Spills, Own
<1>3. IsList(a) /\ \A i \in 1..Len(a) : a[i].to = <<>> /\ \A v : Plain(v) => ~Names(a[i], v)
  <2> DEFINE m == Len(in.srcs)
             K == {i \in 1..m : in.srcs[i] \in spilled}
             positions == [i \in 1..m |-> i]
             reload == Kept(positions, K)
             load(j) == Load(Fresh(n, reload[j]), in.srcs[reload[j]])
  <2>1. a = [j \in 1..Len(reload) |-> load(j)]
    BY <1>1 DEF Reloads
  <2>2. Len(reload) \in Nat
    <3>1. m \in Nat
      BY ListFacts DEF IsInstr
    <3>2. positions \in Seq(1..m)
      BY <3>1
    <3> HIDE DEF K, positions
    <3>3. reload \in Seq(1..m)
      BY <3>2, KeptElements
    <3> QED
      BY <3>3
  <2>3. \A j : load(j).to = <<>> /\ \A v : Plain(v) => ~Names(load(j), v)
    <3>1. \A x, y : Load(x, y).to = <<>>
      BY DEF Load, MInstr
    <3> QED
      BY <3>1, SpillNames
  <2> HIDE DEF load, reload
  <2>4. a = [j \in 1..Len(reload) |-> a[j]] /\ \A j \in 1..Len(reload) : a[j] = load(j)
    BY <2>1
  <2>5. IsList(a) /\ Len(a) = Len(reload)
    BY <2>2, <2>4, FunctionIsList
  <2> QED
    BY <2>3, <2>4, <2>5
<1>4. /\ IsInstr(own) /\ own.to = in.to /\ (in.dst \notin spilled => own.dst = in.dst)
      /\ \A v : Plain(v) /\ Names(own, v) => Names(in, v)
  BY <1>1, OwnInstr
<1>5. IsList(after) /\ \A i \in 1..Len(after) : after[i].to = <<>> /\ \A v : Plain(v) => ~Names(after[i], v)
  <2>1. CASE in.dst \in spilled
    <3>1. PICK s : s = Store(Fresh(n, d), in.dst)
      OBVIOUS
    <3>2. after = <<s>>
      BY <1>1, <2>1, <3>1
    <3>3. s.to = <<>> /\ \A v : Plain(v) => ~Names(s, v)
      BY <3>1, SpillNames DEF Store, MInstr
    <3>4. IsList(after) /\ Len(after) = 1 /\ after[1] = s
      BY <3>2, OneInstruction
    <3> QED
      BY <3>3, <3>4
  <2>2. CASE in.dst \notin spilled
    <3>1. after = <<>> /\ Len(<<>>) = 0
      BY <1>1, <2>2
    <3> QED
      BY <3>1, NoInstruction
  <2> QED
    BY <2>1, <2>2
<1> DEFINE r == Len(a)
           h == a \o <<own>>
           g == h \o after
<1>6. /\ r \in Nat /\ Len(after) \in Nat
      /\ IsList(<<own>>) /\ Len(<<own>>) = 1 /\ <<own>>[1] = own
  BY <1>3, <1>5, ListFacts, OneInstruction
<1>7. /\ IsList(h) /\ Len(h) = r + 1 /\ h[r + 1] = own /\ \A i \in 1..r : h[i] = a[i]
  <2>1. PICK o : o = <<own>>
    OBVIOUS
  <2>2. /\ IsList(a \o o) /\ Len(a \o o) = Len(a) + Len(o)
        /\ \A i \in 1..Len(a) : (a \o o)[i] = a[i]
        /\ \A i \in 1..Len(o) : (a \o o)[Len(a) + i] = o[i]
    BY <1>3, <1>6, <2>1, ConcatLists
  <2>3. Len(o) = 1 /\ o[1] = own /\ 1 \in 1..1
    BY <1>6, <2>1
  <2> QED
    BY <2>1, <2>2, <2>3
<1> HIDE DEF h, r
<1>8. /\ IsList(g) /\ Len(g) = (r + 1) + Len(after)
      /\ \A i \in 1..(r + 1) : g[i] = h[i]
      /\ \A i \in 1..Len(after) : g[(r + 1) + i] = after[i]
  <2>1. PICK k : k = h
    OBVIOUS
  <2>2. /\ IsList(k \o after) /\ Len(k \o after) = Len(k) + Len(after)
        /\ \A i \in 1..Len(k) : (k \o after)[i] = k[i]
        /\ \A i \in 1..Len(after) : (k \o after)[Len(k) + i] = after[i]
    BY <1>5, <1>7, <2>1, ConcatLists
  <2>3. g = k \o after
    BY <2>1
  <2> HIDE DEF g
  <2> QED
    BY <1>7, <2>1, <2>2, <2>3
<1>9. g = Spills(in, n)
  BY <1>2 DEF h
<1> HIDE DEF g
<1>10. r + 1 \in 1..Len(g) /\ g[r + 1] = own
  <2>1. r + 1 \in 1..(r + 1) /\ r + 1 \in 1..((r + 1) + Len(after))
    BY <1>6
  <2> QED
    BY <1>7, <1>8, <2>1
<1>11. ASSUME NEW i \in 1..Len(g), i # r + 1
       PROVE  g[i].to = <<>> /\ \A v : Plain(v) => ~Names(g[i], v)
  <2>1. CASE i \in 1..r
    <3>1. i \in 1..(r + 1)
      BY <1>6, <2>1
    <3>2. g[i] = a[i]
      BY <1>7, <1>8, <2>1, <3>1
    <3> QED
      BY <1>3, <2>1, <3>2 DEF r
  <2>2. CASE i \notin 1..r
    <3>1. i - (r + 1) \in 1..Len(after) /\ (r + 1) + (i - (r + 1)) = i
      BY <1>6, <1>8, <1>11, <2>2
    <3>2. g[i] = after[i - (r + 1)]
      BY <1>8, <3>1
    <3> QED
      BY <1>5, <3>1, <3>2
  <2> QED
    BY <2>1, <2>2
<1>12. SpillShape(g, in, r)
  BY <1>4, <1>6, <1>8, <1>10, <1>11 DEF SpillShape
<1> QED
  BY <1>9, <1>12

-----------------------------------------------------------------------------
(* The rewritten code, group by group: what each instruction became.       *)
Upto(until, p) == IF p = 1 THEN 0 ELSE until[p - 1]
GroupAt(s, until, c, p) ==
  LET g == Spills(c[p], p)
  IN  /\ Upto(until, p) \in Nat /\ until[p] = Upto(until, p) + Len(g)
      /\ \A i \in 1..Len(g) : s[Upto(until, p) + i] = g[i]
Groups(s, until, c) ==
  /\ IsList(s) /\ IsList(until) /\ Len(until) <= Len(c)
  /\ Len(s) = Upto(until, Len(until) + 1)
  /\ \A p \in 1..Len(until) : IsInstr(c[p]) /\ GroupAt(s, until, c, p)

LEMMA GroupsFirst ==
  ASSUME NEW c, Len(c) \in Nat
  PROVE  Groups(<<>>, <<>>, c)
<1>1. IsList(<<>>) /\ Len(<<>>) = 0
  BY NoInstruction
<1>2. Upto(<<>>, 0 + 1) = 0
  BY DEF Upto
<1>3. \A p \in 1..0 : FALSE
  OBVIOUS
<1> QED
  BY <1>1, <1>2, <1>3 DEF Groups

LEMMA GroupLength ==
  ASSUME NEW in, IsInstr(in), NEW n
  PROVE  IsList(Spills(in, n)) /\ Len(Spills(in, n)) \in Nat
<1>1. IsList(Spills(in, n))
  BY SpillShapes DEF SpillShape
<1> QED
  BY <1>1, ListFacts

LEMMA GroupsNext ==
  ASSUME NEW s, NEW until, NEW c, Groups(s, until, c), Len(c) \in Nat,
         NEW p, p = Len(until) + 1, p <= Len(c), IsInstr(c[p]),
         NEW t, t = s \o Spills(c[p], p), NEW u, u = Append(until, Len(t))
  PROVE  Groups(t, u, c)
<1>1. PICK g : g = Spills(c[p], p)
  OBVIOUS
<1>2. IsList(g) /\ Len(g) \in Nat
  BY <1>1, GroupLength
<1>3. /\ IsList(s) /\ IsList(until) /\ Len(s) = Upto(until, p)
      /\ \A k \in 1..Len(until) : IsInstr(c[k]) /\ GroupAt(s, until, c, k)
  BY DEF Groups
<1>4. Len(s) \in Nat /\ Len(until) \in Nat
  BY <1>3, ListFacts
<1>5. /\ IsList(t) /\ Len(t) = Len(s) + Len(g)
      /\ \A i \in 1..Len(s) : t[i] = s[i]
      /\ \A i \in 1..Len(g) : t[Len(s) + i] = g[i]
  <2>1. t = s \o g
    BY <1>1
  <2>2. /\ IsList(s \o g) /\ Len(s \o g) = Len(s) + Len(g)
        /\ \A i \in 1..Len(s) : (s \o g)[i] = s[i]
        /\ \A i \in 1..Len(g) : (s \o g)[Len(s) + i] = g[i]
    <3>1. IsList(s) /\ IsList(g)
      BY <1>2, <1>3
    <3> QED
      BY <3>1, ConcatLists
  <2> QED
    BY <2>1, <2>2
<1>6. /\ IsList(u) /\ Len(u) = p /\ \A k \in 1..Len(until) : u[k] = until[k]
      /\ u[p] = Len(t)
  BY <1>3, AppendList
<1>7. ASSUME NEW k \in 1..p PROVE Upto(u, k) = Upto(until, k)
  <2>1. k # 1 => k - 1 \in 1..Len(until)
    BY <1>4
  <2> QED
    BY <1>6, <2>1 DEF Upto
<1>8. GroupAt(t, u, c, p)
  <2>1. Upto(u, p) = Len(s)
    <3>1. p \in 1..p
      BY <1>4
    <3> QED
      BY <1>3, <1>7, <3>1
  <2>2. u[p] = Upto(u, p) + Len(g) /\ \A i \in 1..Len(g) : t[Upto(u, p) + i] = g[i]
    BY <1>5, <1>6, <2>1
  <2> QED
    BY <1>1, <1>4, <2>1, <2>2 DEF GroupAt
<1>9. ASSUME NEW k \in 1..Len(until) PROVE GroupAt(t, u, c, k)
  <2>1. PICK h, x : h = Spills(c[k], k) /\ x = Upto(until, k)
    OBVIOUS
  <2>2. /\ x \in Nat /\ until[k] = x + Len(h) /\ \A i \in 1..Len(h) : s[x + i] = h[i]
    BY <1>3, <2>1 DEF GroupAt
  <2>3. Len(h) \in Nat
    BY <1>3, <2>1, GroupLength
  <2>4. until[k] <= Len(s)
    <3> DEFINE S == {j \in Nat : k + j \in 1..Len(until) => until[k] <= until[k + j]}
    <3>1. 0 \in S
      <4>1. k + 0 = k /\ until[k] <= until[k]
        BY <2>2, <2>3
      <4> QED
        BY <4>1
    <3>2. ASSUME NEW j \in Nat, j \in S PROVE j + 1 \in S
      <4> SUFFICES ASSUME k + (j + 1) \in 1..Len(until) PROVE until[k] <= until[k + (j + 1)]
        OBVIOUS
      <4>1. PICK m : m = k + (j + 1)
        OBVIOUS
      <4>2. m \in 1..Len(until) /\ m - 1 \in 1..Len(until) /\ m - 1 = k + j /\ m # 1
        BY <1>4, <4>1
      <4>3. until[k] <= until[m - 1]
        BY <3>2, <4>2
      <4>4. until[m] = until[m - 1] + Len(Spills(c[m], m)) /\ until[m - 1] \in Nat
        BY <1>3, <4>2 DEF GroupAt, Upto
      <4>5. Len(Spills(c[m], m)) \in Nat
        BY <1>3, <4>2, GroupLength
      <4>6. until[k] \in Nat
        BY <2>2, <2>3
      <4>7. until[k] <= until[m]
        BY <4>3, <4>4, <4>5, <4>6
      <4> QED
        BY <4>1, <4>7
    <3> HIDE DEF S
    <3>3. Nat \subseteq S
      BY <3>1, <3>2, InductionOnSet
    <3>4. Len(until) - k \in S /\ k + (Len(until) - k) = Len(until) /\ Len(until) \in 1..Len(until)
      BY <1>4, <3>3
    <3>5. until[k] <= until[Len(until)]
      BY <3>4 DEF S
    <3>6. Len(s) = until[Len(until)]
      <4>1. p # 1 /\ p - 1 = Len(until)
        BY <1>4
      <4> QED
        BY <1>3, <4>1 DEF Upto
    <3> QED
      BY <3>5, <3>6
  <2>5. \A i \in 1..Len(h) : x + i \in 1..Len(s)
    BY <1>4, <2>2, <2>3, <2>4
  <2>6. Upto(u, k) = x /\ u[k] = until[k]
    <3>1. k \in 1..p
      BY <1>4
    <3> QED
      BY <1>6, <1>7, <2>1, <3>1
  <2> QED
    BY <1>5, <2>1, <2>2, <2>5, <2>6 DEF GroupAt
<1>10. Len(t) = Upto(u, Len(u) + 1)
  <2>1. p + 1 # 1 /\ (p + 1) - 1 = p
    BY <1>4
  <2> QED
    BY <1>6, <2>1 DEF Upto
<1>11. ASSUME NEW k \in 1..Len(u) PROVE IsInstr(c[k]) /\ GroupAt(t, u, c, k)
  <2>1. k = p \/ k \in 1..Len(until)
    BY <1>4, <1>6
  <2> QED
    BY <1>3, <1>8, <1>9, <2>1
<1> QED
  BY <1>5, <1>6, <1>10, <1>11 DEF Groups

(* The groups follow one another.                                          *)
LEMMA GroupOrder ==
  ASSUME NEW s, NEW until, NEW c, Groups(s, until, c)
  PROVE  LET n == Len(until)
         IN  /\ n \in Nat /\ Len(s) \in Nat
             /\ \A p \in 1..(n + 1) : Upto(until, p) \in 0..Len(s)
             /\ \A p, q \in 1..(n + 1) : p <= q => Upto(until, p) <= Upto(until, q)
             /\ \A k \in 1..Len(s) : \E p \in 1..n : Upto(until, p) < k /\ k <= Upto(until, p + 1)
<1> DEFINE n == Len(until)
           at(p) == Upto(until, p)
<1>1. n \in Nat /\ Len(s) \in Nat
  BY ListFacts DEF Groups
<1>2. ASSUME NEW p \in 1..n PROVE at(p) \in Nat /\ at(p + 1) \in Nat /\ at(p) <= at(p + 1)
  <2>1. p + 1 # 1 /\ (p + 1) - 1 = p
    BY <1>1
  <2>2. at(p) \in Nat /\ at(p + 1) = at(p) + Len(Spills(c[p], p))
    BY <2>1 DEF Groups, GroupAt, Upto
  <2>3. Len(Spills(c[p], p)) \in Nat
    BY GroupLength DEF Groups
  <2> HIDE DEF at
  <2> QED
    BY <2>2, <2>3
<1>3. at(n + 1) = Len(s) /\ at(1) = 0
  BY DEF Groups, Upto
<1> HIDE DEF at, n
<1>4. ASSUME NEW p \in 1..(n + 1) PROVE at(p) \in Nat
  <2>1. p \in 1..n \/ p = n + 1
    BY <1>1
  <2> QED
    BY <1>1, <1>2, <1>3, <2>1
<1>5. ASSUME NEW p \in 1..(n + 1), NEW q \in 1..(n + 1), p <= q PROVE at(p) <= at(q)
  <2> DEFINE S == {j \in Nat : p + j \in 1..(n + 1) => at(p) <= at(p + j)}
  <2>1. 0 \in S
    <3>1. p + 0 = p /\ at(p) <= at(p)
      BY <1>4
    <3> QED
      BY <3>1
  <2>2. ASSUME NEW j \in Nat, j \in S PROVE j + 1 \in S
    <3> SUFFICES ASSUME p + (j + 1) \in 1..(n + 1) PROVE at(p) <= at(p + (j + 1))
      OBVIOUS
    <3>1. PICK m : m = p + j
      OBVIOUS
    <3>2. m \in 1..n /\ m \in 1..(n + 1) /\ p + (j + 1) = m + 1
      BY <1>1, <3>1
    <3>3. at(p) <= at(m) /\ at(m) <= at(m + 1) /\ at(m) \in Nat /\ at(m + 1) \in Nat /\ at(p) \in Nat
      BY <1>2, <1>4, <2>2, <3>1, <3>2
    <3>4. at(p) <= at(m + 1)
      BY <3>3
    <3> QED
      BY <3>2, <3>4
  <2> HIDE DEF S
  <2>3. Nat \subseteq S
    BY <2>1, <2>2, InductionOnSet
  <2>4. q - p \in S /\ p + (q - p) = q
    BY <1>1, <1>5, <2>3
  <2> QED
    BY <2>4 DEF S
<1>6. ASSUME NEW p \in 1..(n + 1) PROVE at(p) \in 0..Len(s)
  <2>1. p <= n + 1 /\ n + 1 \in 1..(n + 1)
    BY <1>1
  <2> QED
    BY <1>1, <1>3, <1>4, <1>5, <2>1
<1>7. ASSUME NEW k \in 1..Len(s) PROVE \E p \in 1..n : at(p) < k /\ k <= at(p + 1)
  <2> DEFINE S == {p \in 1..(n + 1) : k <= at(p)}
  <2>1. S \subseteq Nat /\ n + 1 \in S
    BY <1>1, <1>3
  <2>2. PICK q \in S : \A r \in S : q <= r
    BY <2>1, LeastNatural
  <2>3. q # 1
    BY <1>3
  <2>4. q - 1 \in 1..n /\ q - 1 \in 1..(n + 1) /\ (q - 1) + 1 = q /\ ~(q <= q - 1)
    BY <1>1, <2>3
  <2>5. q - 1 \notin S
    BY <2>2, <2>4
  <2>6. at(q - 1) < k
    BY <1>4, <2>4, <2>5
  <2> QED
    BY <2>4, <2>6
<1> QED
  BY <1>1, <1>5, <1>6, <1>7 DEF at, n

-----------------------------------------------------------------------------
(* The rebuilt blocks are the groups of the blocks' instructions.          *)
BlockGroups(m, s, until, b) ==
  LET from == Upto(until, BlkStart(source, b))
      to == Upto(until, BlkEnd(source, b))
  IN  /\ from \in 0..Len(s) /\ to \in 0..Len(s) /\ from <= to
      /\ Len(m[b]) = to - from
      /\ \A i \in 1..Len(m[b]) : m[b][i] = s[from + i]

LEMMA CutParts ==
  ASSUME NEW s, IsList(s), NEW i \in 0..Len(s), NEW j \in 0..Len(s), i <= j
  PROVE  /\ Len(SubSeq(s, i + 1, j)) = j - i
         /\ \A k \in 1..(j - i) : SubSeq(s, i + 1, j)[k] = s[i + k]
<1>1. s \in Seq(ToSet(s)) /\ Len(s) \in Nat
  BY ListFacts DEF IsList
<1>2. i \in Nat /\ j \in Nat /\ j - i \in Nat
  BY <1>1
<1>3. SubSeq(s, i + 1, j) = [k \in 1..(1 + j - (i + 1)) |-> s[(i + 1) + k - 1]]
  BY <1>1, <1>2
<1>4. 1 + j - (i + 1) = j - i /\ \A k \in Nat : (i + 1) + k - 1 = i + k
  BY <1>2
<1>5. SubSeq(s, i + 1, j) = [k \in 1..(j - i) |-> s[(i + 1) + k - 1]]
  BY <1>3, <1>4
<1>6. PICK c : c = SubSeq(s, i + 1, j)
  OBVIOUS
<1>7. c = [k \in 1..(j - i) |-> s[(i + 1) + k - 1]]
  BY <1>5, <1>6
<1>8. Len(c) = j - i
  BY <1>2, <1>7
<1>9. \A k \in 1..(j - i) : c[k] = s[i + k]
  BY <1>2, <1>4, <1>7
<1> QED
  BY <1>6, <1>8, <1>9

LEMMA BlockOrder ==
  ASSUME NEW m, IsMachine(m), NEW b \in 1..Len(m)
  PROVE  /\ BlkStart(m, b) \in 1..(Len(Flat(m)) + 1) /\ BlkEnd(m, b) \in 1..(Len(Flat(m)) + 1)
         /\ BlkStart(m, b) <= BlkEnd(m, b) /\ Len(m[b]) \in Nat /\ Len(Flat(m)) \in Nat
         /\ BlkEnd(m, b) = BlkStart(m, b) + Len(m[b])
<1>1. BlkStart(m, b) \in 1..(Len(Flat(m)) + 1) /\ BlkEnd(m, b) \in 1..(Len(Flat(m)) + 1)
  BY BlockBounds DEF BlockRange
<1>2. IsList(m) /\ b \in DOMAIN m
  BY ListFacts DEF IsMachine
<1>3. Len(m[b]) \in Nat /\ Len(Flat(m)) \in Nat
  BY <1>2, ListFacts, FlatList DEF IsMachine
<1>4. BlkEnd(m, b) = BlkStart(m, b) + Len(m[b])
  BY DEF BlkEnd
<1> QED
  BY <1>1, <1>3, <1>4

Rewritten(m, s, until) ==
  /\ IsMachine(source) /\ source # <<>> /\ IsMachine(m)
  /\ Groups(s, until, code) /\ Len(until) = Len(code) /\ m = Rebuilt(s, until)

LEMMA RebuiltBlock ==
  ASSUME NEW m, NEW s, NEW until, Rewritten(m, s, until), NEW b \in 1..Len(source)
  PROVE  BlockGroups(m, s, until, b)
<1> USE DEF Rewritten
<1>1. PICK x, y : x = BlkStart(source, b) /\ y = BlkEnd(source, b)
  OBVIOUS
<1>2. x \in 1..(Len(until) + 1) /\ y \in 1..(Len(until) + 1) /\ x <= y
  BY <1>1, BlockOrder DEF code
<1>3. PICK i, j : i = Upto(until, x) /\ j = Upto(until, y)
  OBVIOUS
<1>4. i \in 0..Len(s) /\ j \in 0..Len(s) /\ i <= j
  BY <1>2, <1>3, GroupOrder
<1>5. m[b] = SubSeq(s, i + 1, j)
  BY <1>1, <1>3 DEF Rebuilt, Upto
<1>6. IsList(s)
  BY DEF Groups
<1>7. Len(m[b]) = j - i /\ \A k \in 1..(j - i) : m[b][k] = s[i + k]
  BY <1>4, <1>5, <1>6, CutParts
<1> QED
  BY <1>1, <1>3, <1>4, <1>7 DEF BlockGroups

RebuiltLaid(m, s, until) ==
  /\ Len(m) = Len(source) /\ Len(Flat(m)) = Len(s)
  /\ \A q \in 1..Len(s) : Flat(m)[q] = s[q]
  /\ \A b \in 1..Len(source) : /\ BlkStart(m, b) = Upto(until, BlkStart(source, b)) + 1
                               /\ BlkEnd(m, b) = Upto(until, BlkEnd(source, b)) + 1

LEMMA RebuiltLayout ==
  ASSUME NEW m, NEW s, NEW until, Rewritten(m, s, until)
  PROVE  RebuiltLaid(m, s, until)
<1> USE DEF Rewritten
<1> DEFINE N == Len(source)
<1>1. N \in Nat \ {0}
  <2>1. IsList(source)
    BY DEF IsMachine
  <2>2. Len(source) \in Nat /\ DOMAIN source = 1..Len(source)
    BY <2>1, ListFacts
  <2>3. Len(source) # 0
    BY <2>1, <2>2, EmptyDomain DEF IsList
  <2> QED
    BY <2>2, <2>3
<1>2. Len(m) = N
  <2>1. m = [b \in 1..N |-> m[b]]
    BY DEF Rebuilt
  <2> QED
    BY <1>1, <2>1, FunctionIsList
<1>3. m # <<>>
  <2>1. Len(<<>>) = 0
    OBVIOUS
  <2> QED
    BY <1>1, <1>2, <2>1
<1>4. Laid(source) /\ Laid(m)
  BY <1>3, BlockLayout
<1>5. \A b \in 1..N : BlockGroups(m, s, until, b)
  BY RebuiltBlock
<1> DEFINE at(b) == Upto(until, BlkStart(source, b)) + 1
           past(b) == Upto(until, BlkEnd(source, b)) + 1
<1>6. ASSUME NEW b \in 1..N, BlkStart(m, b) = at(b) PROVE BlkEnd(m, b) = past(b)
  <2>1. PICK i, j : i = Upto(until, BlkStart(source, b)) /\ j = Upto(until, BlkEnd(source, b))
    OBVIOUS
  <2>2. i \in 0..Len(s) /\ j \in 0..Len(s) /\ Len(m[b]) = j - i
    BY <1>5, <2>1 DEF BlockGroups
  <2>3. Len(s) \in Nat
    BY GroupOrder
  <2>4. BlkEnd(m, b) = (i + 1) + (j - i)
    BY <1>6, <2>1, <2>2 DEF BlkEnd
  <2> QED
    BY <2>1, <2>2, <2>3, <2>4
<1>7. BlkStart(m, 1) = at(1)
  <2>1. BlkStart(m, 1) = 1 /\ BlkStart(source, 1) = 1
    BY <1>4 DEF Laid
  <2> QED
    BY <2>1 DEF Upto
<1>8. \A b \in 1..(N - 1) : BlkStart(m, b + 1) = BlkEnd(m, b) /\ BlkStart(source, b + 1) = BlkEnd(source, b)
  BY <1>2, <1>4 DEF Laid
<1>9. ASSUME NEW b \in 1..(N - 1), BlkStart(m, b) = at(b) PROVE BlkStart(m, b + 1) = at(b + 1)
  <2>1. b \in 1..N
    BY <1>1
  <2>2. BlkEnd(m, b) = past(b)
    BY <1>6, <1>9, <2>1
  <2> QED
    BY <1>8, <2>2
<1> HIDE DEF at, past, N
<1>10. ASSUME NEW b \in 1..N PROVE BlkStart(m, b) = at(b)
  <2> DEFINE S == {i \in Nat : i + 1 \in 1..N => BlkStart(m, i + 1) = at(i + 1)}
  <2>1. 0 \in S
    <3>1. 0 + 1 = 1
      OBVIOUS
    <3> QED
      BY <1>7, <3>1
  <2>2. ASSUME NEW i \in Nat, i \in S PROVE i + 1 \in S
    <3> SUFFICES ASSUME (i + 1) + 1 \in 1..N PROVE BlkStart(m, (i + 1) + 1) = at((i + 1) + 1)
      OBVIOUS
    <3>1. i + 1 \in 1..(N - 1) /\ i + 1 \in 1..N
      BY <1>1
    <3>2. BlkStart(m, i + 1) = at(i + 1)
      BY <2>2, <3>1
    <3> QED
      BY <1>9, <3>1, <3>2
  <2> HIDE DEF S
  <2>3. Nat \subseteq S
    BY <2>1, <2>2, InductionOnSet
  <2>4. b - 1 \in S /\ (b - 1) + 1 = b
    BY <1>1, <2>3
  <2> QED
    BY <2>4 DEF S
<1>11. \A b \in 1..N : BlkEnd(m, b) = past(b)
  BY <1>6, <1>10
<1>12. Len(Flat(m)) = Len(s)
  <2>1. N \in 1..N /\ Len(s) \in Nat /\ Len(Flat(m)) \in Nat
    BY <1>1, GroupOrder, FlatList
  <2>2. BlkEnd(m, N) = Len(Flat(m)) + 1 /\ BlkEnd(source, N) = Len(code) + 1
    BY <1>2, <1>4 DEF Laid, N, code
  <2>3. past(N) = Len(s) + 1
    BY <2>2 DEF past, Groups
  <2> QED
    BY <1>11, <2>1, <2>2, <2>3
<1>13. ASSUME NEW q \in 1..Len(s) PROVE Flat(m)[q] = s[q]
  <2>1. PICK b \in 1..N : \E i \in 1..Len(m[b]) : q = BlkStart(m, b) + i - 1
    BY <1>2, <1>4, <1>12 DEF Laid
  <2>2. PICK i \in 1..Len(m[b]) : q = BlkStart(m, b) + i - 1
    BY <2>1
  <2>3. Flat(m)[q] = m[b][i]
    BY <1>2, <1>4, <2>2 DEF Laid
  <2>4. PICK x : x = Upto(until, BlkStart(source, b))
    OBVIOUS
  <2>5. x \in 0..Len(s) /\ m[b][i] = s[x + i] /\ Len(m[b]) \in Nat
    <3>1. Len(m[b]) \in Nat
      BY <1>2, BlockOrder
    <3> QED
      BY <1>5, <2>4, <3>1 DEF BlockGroups
  <2>6. BlkStart(m, b) = x + 1
    BY <1>10, <2>4 DEF at
  <2>7. q = x + i
    BY <2>2, <2>5, <2>6
  <2> QED
    BY <2>3, <2>5, <2>7
<1> QED
  BY <1>2, <1>10, <1>11, <1>12, <1>13 DEF RebuiltLaid, at, past, N

-----------------------------------------------------------------------------
(* The branches of the blocks are what they were, in the same order.       *)
ListChain(h, tt) == Chain(h, tt) /\ Len(tt) \in Nat /\ \A i \in 0..Len(tt) : IsList(h[i])
GroupIn(tt, g, o) ==
  o \in Nat /\ o + Len(g) <= Len(tt) /\ \A i \in 1..Len(g) : tt[o + i] = g[i].to
LEMMA GroupTargets ==
  ASSUME NEW tt, NEW h, ListChain(h, tt),
         NEW in, NEW g, NEW r, SpillShape(g, in, r), NEW o, GroupIn(tt, g, o)
  PROVE  Joins(h[o + Len(g)], h[o], in.to)
<1> DEFINE want(i) == IF i <= r THEN h[o] ELSE h[o] \o in.to
           S == {i \in Nat : i <= Len(g) => h[o + i] = want(i)}
<1> USE DEF ListChain, GroupIn
<1>1. r \in Nat /\ Len(g) \in Nat /\ r + 1 <= Len(g) /\ r + 1 \in 1..Len(g)
  <2>1. IsList(g)
    BY DEF SpillShape
  <2> QED
    BY <2>1, ListFacts DEF SpillShape
<1>2. 0 \in S
  <2>1. o + 0 = o /\ 0 <= r
    BY <1>1
  <2> QED
    BY <2>1
<1>3. ASSUME NEW i \in Nat, i \in S PROVE i + 1 \in S
  <2> SUFFICES ASSUME i + 1 <= Len(g) PROVE h[o + (i + 1)] = want(i + 1)
    OBVIOUS
  <2>1. h[o + i] = want(i)
    BY <1>1, <1>3
  <2>2. PICK k : k = o + i
    OBVIOUS
  <2>3. k \in 0..Len(tt) /\ o \in 0..Len(tt) /\ k + 1 \in 1..Len(tt) /\ k + 1 = o + (i + 1) /\ (k + 1) - 1 = k
    BY <1>1, <2>2
  <2>4. IsList(h[k]) /\ IsList(h[o])
    BY <2>3
  <2>5. i + 1 \in 1..Len(g)
    BY <1>1
  <2>6. h[k + 1] = h[k] \o tt[k + 1]
    BY <2>3 DEF Chain, Joins
  <2>7. tt[k + 1] = g[i + 1].to
    BY <2>3, <2>5
  <2>8. CASE i = r
    <3>1. g[i + 1].to = in.to
      BY <2>8 DEF SpillShape
    <3>2. i <= r /\ ~(i + 1 <= r)
      BY <1>1, <2>8
    <3> QED
      BY <2>1, <2>2, <2>3, <2>6, <2>7, <3>1, <3>2
  <2>9. CASE i # r
    <3>1. g[i + 1].to = <<>>
      BY <1>1, <2>5, <2>9 DEF SpillShape
    <3>2. h[k + 1] = h[k]
      BY <2>4, <2>6, <2>7, <3>1, EmptyConcat
    <3>3. i <= r <=> i + 1 <= r
      BY <1>1, <2>9
    <3> QED
      BY <2>1, <2>2, <2>3, <3>2, <3>3
  <2> QED
    BY <2>8, <2>9
<1> HIDE DEF S
<1>4. Nat \subseteq S
  BY <1>2, <1>3, InductionOnSet
<1>5. Len(g) \in S
  BY <1>1, <1>4
<1>6. Len(g) <= Len(g) /\ ~(Len(g) <= r)
  BY <1>1
<1>7. h[o + Len(g)] = want(Len(g))
  BY <1>5, <1>6 DEF S
<1> QED
  BY <1>6, <1>7 DEF Joins

(* Where the group of the j-th instruction of block b lies in the block.   *)
GroupPlace(m, s, until, b, j) ==
  LET from == Upto(until, BlkStart(source, b))
      p == BlkStart(source, b) + (j - 1)
      g == Spills(code[p], p)
      o == Upto(until, p) - from
  IN  /\ IsInstr(code[p]) /\ code[p] = source[b][j]
      /\ o \in Nat /\ Len(g) \in Nat /\ o + Len(g) <= Len(m[b])
      /\ o + Len(g) = Upto(until, p + 1) - from
      /\ \A i \in 1..Len(g) : m[b][o + i] = g[i]

LEMMA GroupPlaces ==
  ASSUME NEW m, NEW s, NEW until, Rewritten(m, s, until), NEW b \in 1..Len(source),
         NEW j \in 1..Len(source[b])
  PROVE  GroupPlace(m, s, until, b, j)
<1> USE DEF Rewritten
<1> DEFINE n == Len(until)
<1>1. PICK x, y, from : /\ x = BlkStart(source, b) /\ y = BlkEnd(source, b) /\ from = Upto(until, x)
  OBVIOUS
<1>2. Len(m) = Len(source) /\ BlockGroups(m, s, until, b) /\ Laid(source)
  BY RebuiltLayout, RebuiltBlock, BlockLayout DEF RebuiltLaid
<1>3. /\ x \in 1..(n + 1) /\ y \in 1..(n + 1) /\ y = x + Len(source[b]) /\ n \in Nat
      /\ Len(source[b]) \in Nat /\ Len(m[b]) \in Nat
  <2>1. /\ BlkStart(source, b) \in 1..(Len(code) + 1) /\ BlkEnd(source, b) \in 1..(Len(code) + 1)
        /\ BlkEnd(source, b) = BlkStart(source, b) + Len(source[b]) /\ Len(code) \in Nat
        /\ Len(source[b]) \in Nat
    BY BlockOrder DEF code
  <2>2. Len(m[b]) \in Nat
    BY <1>2, BlockOrder
  <2> QED
    BY <1>1, <2>1, <2>2
<1>4. Len(s) \in Nat /\ \A p \in 1..(n + 1) : Upto(until, p) \in 0..Len(s)
  BY GroupOrder
<1>5. \A p, q \in 1..(n + 1) : p <= q => Upto(until, p) <= Upto(until, q)
  BY GroupOrder
<1>6. from \in Nat /\ Len(m[b]) = Upto(until, y) - from /\ \A i \in 1..Len(m[b]) : m[b][i] = s[from + i]
  <2>1. /\ Len(m[b]) = Upto(until, y) - from /\ from \in 0..Len(s)
        /\ \A i \in 1..Len(m[b]) : m[b][i] = s[from + i]
    BY <1>1, <1>2 DEF BlockGroups
  <2> QED
    BY <1>4, <2>1
<1> HIDE DEF n
<1>7. PICK p : p = x + (j - 1)
  OBVIOUS
<1>8. p \in 1..n /\ p \in 1..(n + 1) /\ p + 1 \in 1..(n + 1) /\ x <= p /\ p + 1 <= y /\ p = x + j - 1
  BY <1>3, <1>7
<1>9. code[p] = source[b][j]
  <2>1. Flat(source)[BlkStart(source, b) + j - 1] = source[b][j]
    BY <1>2 DEF Laid
  <2> QED
    BY <1>1, <1>8, <2>1 DEF code
<1>10. PICK g : g = Spills(code[p], p)
  OBVIOUS
<1>11. IsInstr(code[p]) /\ GroupAt(s, until, code, p)
  BY <1>8 DEF Groups, n
<1>12. PICK u, v, o : u = Upto(until, p) /\ v = Upto(until, p + 1) /\ o = u - from
  OBVIOUS
<1>13. u \in Nat /\ v = u + Len(g) /\ \A i \in 1..Len(g) : s[u + i] = g[i]
  <2>1. p + 1 # 1 /\ (p + 1) - 1 = p
    BY <1>8
  <2>2. v = until[p]
    BY <1>12, <2>1 DEF Upto
  <2> QED
    BY <1>10, <1>11, <1>12, <2>2 DEF GroupAt
<1>14. from <= u /\ v <= Upto(until, y) /\ Upto(until, y) \in Nat
  <2>1. Upto(until, x) <= Upto(until, p) /\ Upto(until, p + 1) <= Upto(until, y)
    BY <1>3, <1>5, <1>8
  <2>2. Upto(until, y) \in Nat
    BY <1>3, <1>4
  <2> QED
    BY <1>1, <1>12, <2>1, <2>2
<1>15. Len(g) \in Nat
  BY <1>10, <1>11, GroupLength
<1>16. o \in Nat /\ o + Len(g) <= Len(m[b]) /\ o + Len(g) = v - from
  <2>1. PICK k, z, h : k = Len(g) /\ z = Upto(until, y) /\ h = Len(m[b])
    OBVIOUS
  <2>2. /\ from \in Nat /\ u \in Nat /\ k \in Nat /\ z \in Nat /\ h = z - from
        /\ o = u - from /\ v = u + k /\ from <= u /\ v <= z
    BY <1>6, <1>12, <1>13, <1>14, <1>15, <2>1
  <2>3. o \in Nat /\ o + k <= h /\ o + k = v - from
    BY <2>2
  <2> QED
    BY <2>1, <2>3
<1>17. ASSUME NEW i \in 1..Len(g) PROVE m[b][o + i] = g[i]
  <2>1. o + i \in 1..Len(m[b])
    BY <1>3, <1>15, <1>16
  <2>2. from + (o + i) = u + i
    BY <1>6, <1>12, <1>13, <1>15
  <2> QED
    BY <1>6, <1>13, <2>1, <2>2
<1> QED
  BY <1>1, <1>7, <1>9, <1>10, <1>11, <1>12, <1>15, <1>16, <1>17 DEF GroupPlace

LEMMA BlockTargets ==
  ASSUME NEW m, NEW s, NEW until, Rewritten(m, s, until), NEW b \in 1..Len(source)
  PROVE  FlattenSeq([i \in 1..Len(m[b]) |-> m[b][i].to])
           = FlattenSeq([i \in 1..Len(source[b]) |-> source[b][i].to])
<1> USE DEF Rewritten
<1>1. PICK ss, tt : /\ ss = [i \in 1..Len(source[b]) |-> source[b][i].to]
                    /\ tt = [i \in 1..Len(m[b]) |-> m[b][i].to]
  OBVIOUS
<1>2. Len(m) = Len(source) /\ BlockGroups(m, s, until, b) /\ Laid(source)
  BY RebuiltLayout, RebuiltBlock, BlockLayout DEF RebuiltLaid
<1>3. Len(source[b]) \in Nat /\ Len(m[b]) \in Nat
  BY <1>2, BlockOrder
<1>4. ASSUME NEW n, IsMachine(n), b \in 1..Len(n), Len(n[b]) \in Nat,
             NEW ts, ts = [i \in 1..Len(n[b]) |-> n[b][i].to]
      PROVE  IsList(ts) /\ Len(ts) = Len(n[b]) /\ \A i \in 1..Len(ts) : ts[i] = n[b][i].to /\ IsList(ts[i])
  <2>1. /\ \A i \in 1..Len(n[b]) : ts[i] = n[b][i].to
        /\ ts = [i \in 1..Len(n[b]) |-> ts[i]]
    BY <1>4
  <2>2. IsList(ts) /\ Len(ts) = Len(n[b])
    BY <1>4, <2>1, FunctionIsList
  <2>3. IsList(n) /\ b \in DOMAIN n
    BY <1>4, ListFacts DEF IsMachine
  <2>4. IsList(n[b]) /\ DOMAIN n[b] = 1..Len(n[b])
    BY <1>4, <2>3, ListFacts DEF IsMachine
  <2>5. \A i \in 1..Len(n[b]) : IsList(n[b][i].to)
    BY <1>4, <2>3, <2>4 DEF IsMachine, IsInstr
  <2> QED
    BY <2>1, <2>2, <2>5
<1>5. /\ IsList(ss) /\ Len(ss) = Len(source[b])
      /\ \A i \in 1..Len(ss) : ss[i] = source[b][i].to /\ IsList(ss[i])
  BY <1>1, <1>3, <1>4
<1>6. /\ IsList(tt) /\ Len(tt) = Len(m[b])
      /\ \A i \in 1..Len(tt) : tt[i] = m[b][i].to /\ IsList(tt[i])
  BY <1>1, <1>2, <1>3, <1>4
<1>7. PICK h : /\ Chain(h, tt) /\ FlattenSeq(tt) = h[Len(tt)]
               /\ \A i \in 0..Len(tt) : IsList(h[i])
  BY <1>6, FlattenChain
<1>8. PICK k : Chain(k, ss) /\ FlattenSeq(ss) = k[Len(ss)]
  BY <1>5, FlattenChain
<1>9. PICK x, from : x = BlkStart(source, b) /\ from = Upto(until, x)
  OBVIOUS
<1>10. Len(ss) \in Nat /\ Len(tt) \in Nat /\ x \in Nat /\ from \in Nat /\ Len(tt) = Upto(until, x + Len(ss)) - from
  <2>1. BlkStart(source, b) \in Nat /\ BlkEnd(source, b) = BlkStart(source, b) + Len(source[b])
    BY BlockOrder
  <2>2. Len(m[b]) = Upto(until, BlkEnd(source, b)) - from /\ from \in Nat
    BY <1>2, <1>9 DEF BlockGroups
  <2> QED
    BY <1>3, <1>5, <1>6, <1>9, <2>1, <2>2
<1> DEFINE to(j) == Upto(until, x + j) - from
           H == [j \in 0..Len(ss) |-> h[to(j)]]
<1>14. ASSUME NEW j \in 1..Len(ss) PROVE h[to(j)] = h[to(j - 1)] \o ss[j]
  <2>1. PICK p, g, o : p = x + (j - 1) /\ g = Spills(code[p], p) /\ o = Upto(until, p) - from
    OBVIOUS
  <2>2. GroupPlace(m, s, until, b, j)
    BY <1>5, GroupPlaces
  <2>3. /\ IsInstr(code[p]) /\ code[p] = source[b][j]
        /\ o \in Nat /\ Len(g) \in Nat /\ o + Len(g) <= Len(tt)
        /\ o + Len(g) = Upto(until, p + 1) - from
        /\ \A i \in 1..Len(g) : m[b][o + i] = g[i]
    BY <1>6, <1>9, <2>1, <2>2 DEF GroupPlace
  <2>4. PICK in, r : in = code[p] /\ SpillShape(g, in, r)
    BY <2>1, <2>3, SpillShapes
  <2>5. ASSUME NEW i \in 1..Len(g) PROVE tt[o + i] = g[i].to
    <3>1. o + i \in 1..Len(tt)
      BY <1>10, <2>3
    <3> QED
      BY <1>6, <2>3, <3>1
  <2>6. Joins(h[o + Len(g)], h[o], in.to)
    <3>1. ListChain(h, tt) /\ GroupIn(tt, g, o)
      BY <1>7, <1>10, <2>3, <2>5 DEF ListChain, GroupIn
    <3> QED
      BY <2>4, <3>1, GroupTargets
  <2>7. ss[j] = in.to
    BY <1>5, <2>3, <2>4
  <2>8. to(j) = o + Len(g) /\ to(j - 1) = o
    <3>1. x + j = p + 1
      BY <1>10, <2>1
    <3> QED
      BY <2>1, <2>3, <3>1
  <2> QED
    BY <2>6, <2>7, <2>8 DEF Joins
<1>15. to(0) = 0 /\ to(Len(ss)) = Len(tt)
  <2>1. x + 0 = x /\ from - from = 0
    BY <1>10
  <2> QED
    BY <1>9, <1>10, <2>1
<1> HIDE DEF to
<1>16. Chain(H, ss)
  <2>1. 0 \in 0..Len(ss) /\ \A j \in 1..Len(ss) : j \in 0..Len(ss) /\ j - 1 \in 0..Len(ss)
    BY <1>10
  <2>2. \A j \in 0..Len(ss) : H[j] = h[to(j)]
    OBVIOUS
  <2> HIDE DEF H
  <2>3. H[0] = <<>>
    BY <1>7, <1>15, <2>1, <2>2 DEF Chain
  <2>4. \A j \in 1..Len(ss) : Joins(H[j], H[j - 1], ss[j])
    BY <1>14, <2>1, <2>2 DEF Joins
  <2> QED
    BY <2>3, <2>4 DEF Chain
<1>17. Len(ss) \in 0..Len(ss) /\ H[Len(ss)] = h[Len(tt)]
  BY <1>10, <1>15
<1> HIDE DEF H
<1>18. H[Len(ss)] = k[Len(ss)]
  BY <1>8, <1>10, <1>16, <1>17, ChainOnce
<1> QED
  BY <1>1, <1>7, <1>8, <1>17, <1>18

LEMMA SameTargets ==
  ASSUME NEW m, NEW s, NEW until, Rewritten(m, s, until)
  PROVE  TargetsOf(m) = TargetsOf(source)
<1>1. Len(m) = Len(source)
  BY RebuiltLayout DEF RebuiltLaid
<1>2. \A b \in 1..Len(source) : FlattenSeq([i \in 1..Len(m[b]) |-> m[b][i].to])
           = FlattenSeq([i \in 1..Len(source[b]) |-> source[b][i].to])
  BY BlockTargets
<1> QED
  BY <1>1, <1>2 DEF TargetsOf

-----------------------------------------------------------------------------
(* A register that keeps its name is named in the same groups.             *)
LEMMA PlaceMoves ==
  ASSUME NEW m, NEW s, NEW until, Rewritten(m, s, until), NEW v, Plain(v), NEW q \in Places(Flat(m), v)
  PROVE  \E p \in Places(code, v) : Upto(until, p) + 1 <= q /\ q <= Upto(until, p + 1)
<1> USE DEF Rewritten
<1>1. q \in 1..Len(s) /\ Flat(m)[q] = s[q] /\ Names(s[q], v)
  <2>1. q \in 1..Len(s) /\ Flat(m)[q] = s[q]
    BY RebuiltLayout DEF RebuiltLaid, Places
  <2> QED
    BY <2>1 DEF Places, Names
<1> DEFINE n == Len(until)
<1>2. n \in Nat /\ Len(s) \in Nat /\ \A p \in 1..(n + 1) : Upto(until, p) \in 0..Len(s)
  BY GroupOrder
<1>3. PICK p \in 1..n : Upto(until, p) < q /\ q <= Upto(until, p + 1)
  BY <1>1, GroupOrder
<1>4. PICK g, u, in : g = Spills(code[p], p) /\ u = Upto(until, p) /\ in = code[p]
  OBVIOUS
<1>5. IsInstr(in) /\ GroupAt(s, until, code, p)
  BY <1>4 DEF Groups
<1>6. PICK r : SpillShape(g, in, r)
  BY <1>4, <1>5, SpillShapes
<1>7. u \in Nat /\ Upto(until, p + 1) = u + Len(g) /\ \A i \in 1..Len(g) : s[u + i] = g[i]
  <2>1. p + 1 # 1 /\ (p + 1) - 1 = p
    BY <1>2
  <2>2. Upto(until, p + 1) = until[p]
    BY <2>1 DEF Upto
  <2> QED
    BY <1>4, <1>5, <2>2 DEF GroupAt
<1>8. Len(g) \in Nat
  BY <1>6, ListFacts DEF SpillShape
<1>9. q - u \in 1..Len(g) /\ u + (q - u) = q
  BY <1>1, <1>2, <1>3, <1>4, <1>7, <1>8
<1>10. Names(g[q - u], v)
  BY <1>1, <1>7, <1>9
<1>11. Names(in, v)
  BY <1>6, <1>9, <1>10 DEF SpillShape
<1>12. p \in Places(code, v)
  BY <1>4, <1>11 DEF Places, Names
<1>13. Upto(until, p) + 1 <= q
  BY <1>1, <1>2, <1>3, <1>4, <1>7
<1> QED
  BY <1>3, <1>12, <1>13

Moved(until, p) == Upto(until, p) + 1

LEMMA MovedOrder ==
  ASSUME NEW m, NEW s, NEW until, Rewritten(m, s, until)
  PROVE  LET n == Len(code)
         IN  /\ n \in Nat
             /\ \A p \in 1..(n + 1) : Moved(until, p) \in 1..(Len(Flat(m)) + 1)
             /\ \A p, q \in 1..(n + 1) : p <= q => Moved(until, p) <= Moved(until, q)
<1> USE DEF Rewritten
<1>1. PICK n, k : n = Len(until) /\ k = Len(s)
  OBVIOUS
<1>2. n = Len(code) /\ Len(Flat(m)) = k
  BY <1>1, RebuiltLayout DEF RebuiltLaid
<1>3. /\ n \in Nat /\ k \in Nat
      /\ \A p \in 1..(n + 1) : Upto(until, p) \in 0..k
      /\ \A p, q \in 1..(n + 1) : p <= q => Upto(until, p) <= Upto(until, q)
  BY <1>1, GroupOrder
<1>4. ASSUME NEW p \in 1..(n + 1) PROVE Upto(until, p) + 1 \in 1..(k + 1)
  BY <1>3
<1>5. ASSUME NEW p \in 1..(n + 1), NEW q \in 1..(n + 1), p <= q
      PROVE  Upto(until, p) + 1 <= Upto(until, q) + 1
  <2>1. Upto(until, p) \in Nat /\ Upto(until, q) \in Nat /\ Upto(until, p) <= Upto(until, q)
    BY <1>3, <1>5
  <2> QED
    BY <2>1
<1> QED
  BY <1>2, <1>3, <1>4, <1>5 DEF Moved

LEMMA IntervalMoves ==
  ASSUME NEW m, NEW s, NEW until, Rewritten(m, s, until),
         NEW v, Plain(v), v \in Registers(source), v \in Registers(m)
  PROVE  LET i == ScanInterval(code, v)
             j == ScanInterval(Flat(m), v)
         IN  /\ i \in Span(Len(code)) /\ j \in Span(Len(Flat(m)))
             /\ Moved(until, i.start) <= j.start /\ j.end <= Moved(until, i.end)
<1> USE DEF Rewritten
<1>1. PICK i, j, n : i = ScanInterval(code, v) /\ j = ScanInterval(Flat(m), v) /\ n = Len(code)
  OBVIOUS
<1>2. n \in Nat /\ Len(Flat(m)) \in Nat
  BY <1>1, FlatList DEF code
<1>3. Places(code, v) # {} /\ Places(Flat(m), v) # {}
  BY RegisterPlaces DEF code
<1>4. /\ i \in Span(n) /\ i.start \in Places(code, v)
      /\ \A p \in Places(code, v) : i.start <= p /\ p < i.end
  BY <1>1, <1>2, <1>3, ScanPlaces
<1>5. /\ j \in Span(Len(Flat(m))) /\ j.start \in Places(Flat(m), v)
      /\ \E q \in Places(Flat(m), v) : j.end = q + 1
  BY <1>1, <1>2, <1>3, ScanPlaces
<1>6. /\ \A p \in 1..(n + 1) : Moved(until, p) \in 1..(Len(Flat(m)) + 1)
      /\ \A p, q \in 1..(n + 1) : p <= q => Moved(until, p) <= Moved(until, q)
  BY <1>1, MovedOrder
<1>7. \A p \in Places(code, v) : p \in 1..n
  BY <1>1 DEF Places
<1>8. \A q \in Places(Flat(m), v) : q \in 1..Len(Flat(m))
  BY DEF Places
<1>9. i.start \in 1..(n + 1) /\ i.end \in 1..(n + 1)
  BY <1>4 DEF Span
<1>10. Moved(until, i.start) <= j.start
  <2>1. PICK p \in Places(code, v) : Upto(until, p) + 1 <= j.start
    BY <1>5, PlaceMoves
  <2>2. p \in 1..(n + 1) /\ i.start <= p
    BY <1>2, <1>4, <1>7
  <2>3. Moved(until, i.start) <= Moved(until, p) /\ Moved(until, i.start) \in Nat /\ Moved(until, p) \in Nat
    BY <1>2, <1>6, <1>9, <2>2
  <2>4. Moved(until, p) <= j.start
    BY <2>1 DEF Moved
  <2>5. j.start \in Nat
    BY <1>5, <1>8
  <2> QED
    BY <2>3, <2>4, <2>5
<1>11. j.end <= Moved(until, i.end)
  <2>1. PICK q \in Places(Flat(m), v) : j.end = q + 1
    BY <1>5
  <2>2. PICK p \in Places(code, v) : q <= Upto(until, p + 1)
    BY PlaceMoves
  <2>3. p \in 1..n /\ p < i.end /\ p + 1 <= i.end /\ p + 1 \in 1..(n + 1)
    BY <1>2, <1>4, <1>7, <1>9
  <2>4. Moved(until, p + 1) <= Moved(until, i.end) /\ Moved(until, p + 1) \in Nat /\ Moved(until, i.end) \in Nat
    BY <1>2, <1>6, <1>9, <2>3
  <2>5. Moved(until, p + 1) = Upto(until, p + 1) + 1 /\ Upto(until, p + 1) \in Nat
    <3>1. Len(until) = n /\ \A k \in 1..(Len(until) + 1) : Upto(until, k) \in 0..Len(s)
      BY <1>1, GroupOrder
    <3>2. Upto(until, p + 1) \in 0..Len(s)
      BY <2>3, <3>1
    <3> QED
      BY <3>2 DEF Moved
  <2>6. q \in Nat
    BY <1>8
  <2>7. q + 1 <= Moved(until, p + 1)
    BY <2>2, <2>5, <2>6
  <2> QED
    BY <2>1, <2>4, <2>6, <2>7
<1> QED
  BY <1>1, <1>4, <1>5, <1>10, <1>11

LEMMA DstsKept ==
  ASSUME NEW m, NEW s, NEW until, Rewritten(m, s, until),
         NEW b \in 1..Len(source), NEW v \in Dsts(source, b), v \notin spilled
  PROVE  v \in Dsts(m, b)
<1>1. PICK j \in 1..Len(source[b]) : v = source[b][j].dst
  BY DEF Dsts
<1>2. GroupPlace(m, s, until, b, j)
  BY GroupPlaces
<1>3. PICK p, g, o : /\ p = BlkStart(source, b) + (j - 1) /\ g = Spills(code[p], p)
                     /\ o = Upto(until, p) - Upto(until, BlkStart(source, b))
  OBVIOUS
<1>4. /\ IsInstr(code[p]) /\ code[p] = source[b][j]
      /\ o \in Nat /\ Len(g) \in Nat /\ o + Len(g) <= Len(m[b])
      /\ \A i \in 1..Len(g) : m[b][o + i] = g[i]
  BY <1>2, <1>3 DEF GroupPlace
<1>5. PICK r : SpillShape(g, code[p], r)
  BY <1>3, <1>4, SpillShapes
<1>6. r + 1 \in 1..Len(g) /\ g[r + 1].dst = v
  BY <1>1, <1>4, <1>5 DEF SpillShape
<1>7. o + (r + 1) \in 1..Len(m[b])
  <2>1. b \in 1..Len(m) /\ IsMachine(m)
    BY RebuiltLayout DEF RebuiltLaid, Rewritten
  <2>2. Len(m[b]) \in Nat
    BY <2>1, BlockOrder
  <2> QED
    BY <1>4, <1>6, <2>2
<1>8. m[b][o + (r + 1)].dst = v
  BY <1>4, <1>6
<1> QED
  BY <1>7, <1>8 DEF Dsts

-----------------------------------------------------------------------------
(* An end that fits before spilling fits afterwards, where it has moved to.*)
LEMMA FitsMoves ==
  ASSUME NEW m, NEW s, NEW until, Rewritten(m, s, until), NEW loops, LoopsIn(source, loops),
         NEW v, Plain(v), v \in Registers(source), v \in Registers(m), v \notin spilled,
         NEW x, Fits(source, loops, v, x)
  PROVE  Fits(m, loops, v, Moved(until, x))
<1>1. PICK i, j, n, y : /\ i = ScanInterval(code, v) /\ j = ScanInterval(Flat(m), v)
                        /\ n = Len(code) /\ y = Moved(until, x)
  OBVIOUS
<1>2. /\ i \in Span(n) /\ j \in Span(Len(Flat(m)))
      /\ Moved(until, i.start) <= j.start /\ j.end <= Moved(until, i.end)
  BY <1>1, IntervalMoves
<1>3. /\ n \in Nat
      /\ \A p \in 1..(n + 1) : Moved(until, p) \in 1..(Len(Flat(m)) + 1)
      /\ \A p, q \in 1..(n + 1) : p <= q => Moved(until, p) <= Moved(until, q)
  BY <1>1, MovedOrder
<1>4. /\ x \in 1..(n + 1) /\ i.end <= x /\ \A e \in ToSet(loops) : EdgeFits(source, e, v, x)
  BY <1>1 DEF Fits, code
<1>5. i.start \in 1..(n + 1) /\ i.end \in 1..(n + 1) /\ j.start \in Nat /\ j.end \in Nat
  <2>1. Len(Flat(m)) \in Nat
    BY FlatList DEF Rewritten
  <2> QED
    BY <1>2, <2>1 DEF Span
<1>6. y \in 1..(Len(Flat(m)) + 1)
  BY <1>1, <1>3, <1>4
<1>7. j.end <= y
  <2>1. Moved(until, i.end) <= y /\ Moved(until, i.end) \in Nat /\ y \in Nat
    BY <1>1, <1>3, <1>4, <1>5
  <2> QED
    BY <1>2, <1>5, <2>1
<1>8. ASSUME NEW e \in ToSet(loops) PROVE EdgeFits(m, e, v, y)
  <2> SUFFICES ASSUME v \notin Dsts(m, e[1]), j.start < BlkStart(m, e[2]), BlkStart(m, e[2]) < y
               PROVE  BlkEnd(m, e[1]) <= y
    BY <1>1 DEF EdgeFits
  <2>1. e[1] \in 1..Len(source) /\ e[2] \in 1..Len(source)
    BY DEF LoopsIn
  <2>2. PICK a, z : a = BlkStart(source, e[2]) /\ z = BlkEnd(source, e[1])
    OBVIOUS
  <2>3. a \in 1..(n + 1) /\ z \in 1..(n + 1)
    BY <1>1, <2>1, <2>2, BlockOrder DEF Rewritten, code
  <2>4. BlkStart(m, e[2]) = Moved(until, a) /\ BlkEnd(m, e[1]) = Moved(until, z)
    BY <2>1, <2>2, RebuiltLayout DEF RebuiltLaid, Moved
  <2>5. Moved(until, a) \in Nat /\ Moved(until, i.start) \in Nat /\ y \in Nat
    BY <1>1, <1>3, <1>4, <1>5, <2>3
  <2>6. i.start < a
    <3>1. ~(Moved(until, a) <= Moved(until, i.start))
      BY <1>2, <1>5, <2>4, <2>5
    <3>2. ~(a <= i.start)
      BY <1>3, <1>5, <2>3, <3>1
    <3> QED
      BY <1>5, <2>3, <3>2
  <2>7. a < x
    <3>1. ~(y <= Moved(until, a))
      BY <2>4, <2>5
    <3>2. ~(x <= a)
      BY <1>1, <1>3, <1>4, <2>3, <3>1
    <3> QED
      BY <1>4, <2>3, <3>2
  <2>8. v \notin Dsts(source, e[1])
    BY <2>1, DstsKept
  <2>9. z <= x
    <3>1. EdgeFits(source, e, v, x)
      BY <1>4
    <3> QED
      BY <1>1, <2>2, <2>6, <2>7, <2>8, <3>1 DEF EdgeFits, code
  <2> QED
    BY <1>1, <1>3, <1>4, <2>3, <2>4, <2>9
<1> QED
  BY <1>1, <1>6, <1>7, <1>8 DEF Fits

(* Two registers are parted when an end that fits one does not pass the    *)
(* start of the other.                                                     *)
Parted(m, loops, u, w) == \E x : Fits(m, loops, u, x) /\ x <= ScanInterval(Flat(m), w).start
ApartIn(m, a) ==
  \E loops : /\ LoopList(TargetsOf(m), loops) /\ LoopsIn(m, loops)
             /\ \A u, w \in DOMAIN a \cap Registers(m) :
                  u # w /\ a[u] = a[w] => Parted(m, loops, u, w) \/ Parted(m, loops, w, u)

LEMMA PartedMoves ==
  ASSUME NEW m, NEW s, NEW until, Rewritten(m, s, until), NEW loops, LoopsIn(source, loops),
         NEW u, Plain(u), u \in Registers(source), u \in Registers(m), u \notin spilled,
         NEW w, Plain(w), w \in Registers(source), w \in Registers(m),
         Parted(source, loops, u, w)
  PROVE  Parted(m, loops, u, w)
<1>1. PICK i, j, n : /\ i = ScanInterval(code, w) /\ j = ScanInterval(Flat(m), w) /\ n = Len(code)
  OBVIOUS
<1>2. PICK x : Fits(source, loops, u, x) /\ x <= i.start
  BY <1>1 DEF Parted, code
<1>3. Fits(m, loops, u, Moved(until, x))
  BY <1>2, FitsMoves
<1>4. i \in Span(n) /\ j \in Span(Len(Flat(m))) /\ Moved(until, i.start) <= j.start
  BY <1>1, IntervalMoves
<1>5. /\ n \in Nat
      /\ \A p \in 1..(n + 1) : Moved(until, p) \in 1..(Len(Flat(m)) + 1)
      /\ \A p, q \in 1..(n + 1) : p <= q => Moved(until, p) <= Moved(until, q)
  BY <1>1, MovedOrder
<1>6. x \in 1..(n + 1) /\ i.start \in 1..(n + 1) /\ j.start \in Nat
  <2>1. Len(Flat(m)) \in Nat
    BY FlatList DEF Rewritten
  <2>2. x \in 1..(n + 1)
    BY <1>1, <1>2 DEF Fits, code
  <2> QED
    BY <1>4, <2>1, <2>2 DEF Span
<1>7. Moved(until, x) <= Moved(until, i.start) /\ Moved(until, x) \in Nat /\ Moved(until, i.start) \in Nat
  BY <1>2, <1>5, <1>6
<1>8. Moved(until, x) <= j.start
  BY <1>4, <1>6, <1>7
<1> QED
  BY <1>1, <1>3, <1>8 DEF Parted

LEMMA ApartMoves ==
  ASSUME NEW m, NEW s, NEW until, Rewritten(m, s, until),
         NEW a, ApartIn(source, a), DOMAIN a \subseteq Registers(source) \ spilled,
         \A v \in Registers(source) : Plain(v)
  PROVE  ApartIn(m, a)
<1>1. PICK loops : /\ LoopList(TargetsOf(source), loops) /\ LoopsIn(source, loops)
                   /\ \A u, w \in DOMAIN a \cap Registers(source) :
                        u # w /\ a[u] = a[w] => Parted(source, loops, u, w) \/ Parted(source, loops, w, u)
  BY DEF ApartIn
<1>2. TargetsOf(m) = TargetsOf(source) /\ Len(m) = Len(source)
  BY SameTargets, RebuiltLayout DEF RebuiltLaid
<1>3. LoopList(TargetsOf(m), loops) /\ LoopsIn(m, loops)
  BY <1>1, <1>2 DEF LoopsIn
<1>4. ASSUME NEW u \in DOMAIN a \cap Registers(m), NEW w \in DOMAIN a \cap Registers(m), u # w, a[u] = a[w]
      PROVE  Parted(m, loops, u, w) \/ Parted(m, loops, w, u)
  <2>1. /\ u \in Registers(source) /\ u \notin spilled /\ Plain(u) /\ u \in Registers(m)
        /\ w \in Registers(source) /\ w \notin spilled /\ Plain(w) /\ w \in Registers(m)
    BY <1>4
  <2>2. CASE Parted(source, loops, u, w)
    BY <1>1, <2>1, <2>2, PartedMoves
  <2>3. CASE Parted(source, loops, w, u)
    BY <1>1, <2>1, <2>3, PartedMoves
  <2> QED
    BY <1>1, <1>4, <2>1, <2>2, <2>3
<1> QED
  BY <1>3, <1>4 DEF ApartIn

-----------------------------------------------------------------------------
(* linear_scan, for any intervals.  Between two of them: the lists of free *)
(* registers and of active intervals,                                      *)
ScanLists(s) ==
  /\ s.rest \subseteq DOMAIN interval
  /\ IsList(s.free) /\ IsInjective(s.free) /\ IsList(s.active) /\ IsInjective(s.active)
  /\ ToSet(s.active) \subseteq DOMAIN s.asg /\ DOMAIN s.asg \subseteq DOMAIN interval \ s.rest

(* that every register of the pool is free or an active interval's,        *)
Held(s) ==
  /\ \A u, w \in ToSet(s.active) : s.asg[u] = s.asg[w] => u = w
  /\ \A u \in ToSet(s.active) : s.asg[u] \notin ToSet(s.free)
  /\ \A u \in DOMAIN s.asg : s.asg[u] \in ToSet(pool)
  /\ ToSet(s.free) \subseteq ToSet(pool)
  /\ \A r \in ToSet(pool) : r \in ToSet(s.free) \/ \E u \in ToSet(s.active) : s.asg[u] = r

(* that intervals no longer active are over before any to come starts, and *)
(* that no two of the same register meet.                                  *)
Over(s) ==
  \A u \in DOMAIN s.asg \ ToSet(s.active) : \A w \in s.rest : interval[u].end <= interval[w].start
NoneMeet(a) ==
  \A u, w \in DOMAIN a : u # w /\ a[u] = a[w] => ~Meet(interval[u], interval[w])

Scanning(s) == ScanLists(s) /\ Held(s) /\ Over(s) /\ NoneMeet(s.asg)

(* The intervals are of natural numbers.                                   *)
Timed == \A v \in DOMAIN interval : interval[v].start \in Nat /\ interval[v].end \in Nat

(* No interval to come starts before v's.                                  *)
Earliest(S, v) == v \in S /\ \A u \in S : interval[v].start <= interval[u].start

(* The intervals over before v's leave the active list.                    *)
Ended(s, v) == {u \in ToSet(s.active) : interval[u].end <= interval[v].start}
Expired(s, v) ==
  LET gone == Kept(s.active, Ended(s, v))
  IN  [rest |-> s.rest, free |-> s.free \o [i \in 1..Len(gone) |-> s.asg[gone[i]]],
       active |-> Kept(s.active, ToSet(s.active) \ Ended(s, v)), asg |-> s.asg]

LEMMA ExpireKeeps ==
  ASSUME Timed, NEW s, Scanning(s), NEW v, Earliest(s.rest, v)
  PROVE  Scanning(Expired(s, v))
<1> DEFINE gone == Kept(s.active, Ended(s, v))
           back == [i \in 1..Len(gone) |-> s.asg[gone[i]]]
           t == Expired(s, v)
<1>1. /\ t.rest = s.rest /\ t.free = s.free \o back /\ t.asg = s.asg
      /\ t.active = Kept(s.active, ToSet(s.active) \ Ended(s, v))
  BY DEF Expired
<1>2. ScanLists(s) /\ Held(s) /\ Over(s) /\ NoneMeet(s.asg)
  BY DEF Scanning
<1>3. /\ IsList(gone) /\ IsInjective(gone) /\ ToSet(gone) = Ended(s, v)
      /\ IsList(t.active) /\ IsInjective(t.active)
      /\ ToSet(t.active) = ToSet(s.active) \ Ended(s, v)
  <2> DEFINE X == ToSet(s.active)
             l == s.active
             K == Ended(s, v)
  <2>1. l \in Seq(X) /\ IsInjective(l) /\ X = ToSet(l)
    BY <1>2, ListFacts DEF ScanLists
  <2>2. K \subseteq X
    BY DEF Ended
  <2> HIDE DEF X, l, K
  <2>3. /\ Kept(l, K) \in Seq(X) /\ \A e : e \in ToSet(Kept(l, K)) <=> e \in X /\ e \in K
        /\ IsInjective(Kept(l, K))
    BY <2>1, KeptElements
  <2>4. /\ Kept(l, X \ K) \in Seq(X) /\ \A e : e \in ToSet(Kept(l, X \ K)) <=> e \in X /\ e \in X \ K
        /\ IsInjective(Kept(l, X \ K))
    BY <2>1, KeptElements
  <2>5. IsList(Kept(l, K)) /\ IsList(Kept(l, X \ K))
    BY <2>3, <2>4, SeqIsList
  <2>6. ToSet(Kept(l, K)) = K /\ ToSet(Kept(l, X \ K)) = X \ K
    BY <2>2, <2>3, <2>4
  <2> QED
    BY <1>1, <2>3, <2>4, <2>5, <2>6 DEF X, l, K
<1>4. IsList(back) /\ ToSet(back) = {s.asg[u] : u \in Ended(s, v)} /\ IsInjective(back)
  <2> DEFINE h == s.asg
  <2>1. \A d, e \in ToSet(gone) : h[d] = h[e] => d = e
    BY <1>2, <1>3 DEF Held, Ended
  <2> HIDE DEF gone, h
  <2>2. LET b == [i \in 1..Len(gone) |-> h[gone[i]]]
        IN  /\ IsList(b) /\ ToSet(b) = {h[e] : e \in ToSet(gone)}
            /\ IsInjective(gone) /\ (\A d, e \in ToSet(gone) : h[d] = h[e] => d = e) => IsInjective(b)
    BY <1>3, ImageList
  <2> QED
    BY <1>3, <2>1, <2>2 DEF h
<1> HIDE DEF gone, back
<1>5. /\ IsList(t.free) /\ IsInjective(t.free)
      /\ ToSet(t.free) = ToSet(s.free) \cup {s.asg[u] : u \in Ended(s, v)}
  <2>1. IsList(s.free) /\ IsInjective(s.free)
    BY <1>2 DEF ScanLists
  <2>2. ToSet(s.free) \cap ToSet(back) = {}
    BY <1>2, <1>4 DEF Held, Ended
  <2> DEFINE l == s.free
  <2> HIDE DEF l
  <2>3. IsList(l) /\ IsInjective(l) /\ ToSet(l) \cap ToSet(back) = {}
    BY <2>1, <2>2 DEF l
  <2>4. IsList(l \o back) /\ IsInjective(l \o back) /\ ToSet(l \o back) = ToSet(l) \cup ToSet(back)
    BY <1>4, <2>3, ConcatDistinct, ConcatLists
  <2> QED
    BY <1>1, <1>4, <2>4 DEF l
<1> HIDE DEF t
<1>6. Ended(s, v) \subseteq ToSet(s.active)
  BY DEF Ended
<1>7. ScanLists(t)
  BY <1>1, <1>2, <1>3, <1>5 DEF ScanLists
<1>8. Held(t)
  <2>1. \A u, w \in ToSet(t.active) : t.asg[u] = t.asg[w] => u = w
    BY <1>1, <1>2, <1>3 DEF Held
  <2>2. \A u \in ToSet(t.active) : t.asg[u] \notin ToSet(t.free)
    <3> SUFFICES ASSUME NEW u \in ToSet(t.active) PROVE s.asg[u] \notin ToSet(t.free)
      BY <1>1
    <3>1. u \in ToSet(s.active) /\ u \notin Ended(s, v)
      BY <1>3
    <3>2. s.asg[u] \notin ToSet(s.free) /\ \A w \in Ended(s, v) : s.asg[w] # s.asg[u]
      BY <1>2, <1>6, <3>1 DEF Held
    <3> QED
      BY <1>5, <3>2
  <2>3. \A u \in DOMAIN t.asg : t.asg[u] \in ToSet(pool)
    BY <1>1, <1>2 DEF Held
  <2>4. ToSet(t.free) \subseteq ToSet(pool)
    BY <1>2, <1>5, <1>6 DEF Held, ScanLists
  <2>5. \A r \in ToSet(pool) : r \in ToSet(t.free) \/ \E u \in ToSet(t.active) : t.asg[u] = r
    BY <1>1, <1>2, <1>3, <1>5 DEF Held
  <2> QED
    BY <2>1, <2>2, <2>3, <2>4, <2>5 DEF Held
<1>9. Over(t)
  <2> SUFFICES ASSUME NEW u \in DOMAIN s.asg \ ToSet(t.active), NEW w \in s.rest
               PROVE  interval[u].end <= interval[w].start
    BY <1>1 DEF Over
  <2>1. CASE u \notin ToSet(s.active)
    BY <1>2, <2>1 DEF Over
  <2>2. CASE u \in ToSet(s.active)
    <3>1. u \in Ended(s, v)
      BY <1>3, <2>2
    <3>2. interval[u].end <= interval[v].start /\ interval[v].start <= interval[w].start
      BY <3>1 DEF Ended, Earliest
    <3>3. u \in DOMAIN interval /\ v \in DOMAIN interval /\ w \in DOMAIN interval
      BY <1>2 DEF ScanLists, Earliest
    <3>4. interval[u].end \in Nat /\ interval[v].start \in Nat /\ interval[w].start \in Nat
      BY <3>3 DEF Timed
    <3> QED
      BY <3>2, <3>4
  <2> QED
    BY <2>1, <2>2
<1>10. NoneMeet(t.asg)
  BY <1>1, <1>2
<1> QED
  BY <1>7, <1>8, <1>9, <1>10 DEF Scanning, t

(* Two that are over one before the other do not meet.                     *)
LEMMA OverApart ==
  ASSUME Timed, NEW u \in DOMAIN interval, NEW w \in DOMAIN interval,
         interval[u].end <= interval[w].start
  PROVE  ~Meet(interval[u], interval[w]) /\ ~Meet(interval[w], interval[u])
<1> DEFINE a == interval[u].end
           b == interval[w].start
<1>1. a \in Nat /\ b \in Nat /\ a <= b
  BY DEF Timed
<1>2. ~(b < a)
  BY <1>1
<1> QED
  BY <1>2 DEF Meet

(* v's interval gets the register at the head of the free list,            *)
LEMMA FreeTaken ==
  ASSUME Timed, NEW s, Scanning(s), NEW v \in s.rest, s.free # <<>>,
         NEW l, IsList(l), IsInjective(l), ToSet(l) = ToSet(s.active) \cup {v}
  PROVE  Scanning([rest |-> s.rest \ {v}, free |-> Tail(s.free), active |-> l,
                   asg |-> Extended(s.asg, v, Head(s.free))])
<1> DEFINE r == Head(s.free)
           a == Extended(s.asg, v, r)
           t == [rest |-> s.rest \ {v}, free |-> Tail(s.free), active |-> l, asg |-> a]
<1>1. t.rest = s.rest \ {v} /\ t.free = Tail(s.free) /\ t.active = l /\ t.asg = a
  OBVIOUS
<1>2. ScanLists(s) /\ Held(s) /\ Over(s) /\ NoneMeet(s.asg)
  BY DEF Scanning
<1>3. v \notin DOMAIN s.asg /\ v \notin ToSet(s.active) /\ v \in DOMAIN interval
  BY <1>2 DEF ScanLists
<1>4. DOMAIN a = DOMAIN s.asg \cup {v} /\ a[v] = r /\ \A u \in DOMAIN s.asg : a[u] = s.asg[u]
  BY <1>3 DEF Extended
<1>5. /\ IsList(Tail(s.free)) /\ ToSet(s.free) = {r} \cup ToSet(Tail(s.free))
      /\ IsInjective(Tail(s.free)) /\ r \notin ToSet(Tail(s.free))
  BY <1>2, HeadTail DEF ScanLists
<1> HIDE DEF r, a, t
<1>6. ScanLists(t)
  BY <1>1, <1>2, <1>3, <1>4, <1>5 DEF ScanLists
<1>7. Held(t)
  <2>1. \A u, w \in ToSet(l) : a[u] = a[w] => u = w
    BY <1>2, <1>3, <1>4, <1>5 DEF Held, ScanLists
  <2>2. \A u \in ToSet(l) : a[u] \notin ToSet(Tail(s.free))
    BY <1>2, <1>4, <1>5 DEF Held, ScanLists
  <2>3. \A u \in DOMAIN a : a[u] \in ToSet(pool)
    BY <1>2, <1>4, <1>5 DEF Held
  <2>4. ToSet(Tail(s.free)) \subseteq ToSet(pool)
    BY <1>2, <1>5 DEF Held
  <2>5. ASSUME NEW p \in ToSet(pool)
        PROVE  p \in ToSet(Tail(s.free)) \/ \E u \in ToSet(l) : a[u] = p
    <3>1. CASE p = r
      BY <1>4, <3>1
    <3>2. CASE p # r /\ p \in ToSet(s.free)
      BY <1>5, <3>2
    <3>3. CASE \E u \in ToSet(s.active) : s.asg[u] = p
      BY <1>2, <1>4, <3>3 DEF ScanLists
    <3> QED
      BY <1>2, <3>1, <3>2, <3>3 DEF Held
  <2> QED
    BY <1>1, <2>1, <2>2, <2>3, <2>4, <2>5 DEF Held
<1>8. Over(t)
  BY <1>1, <1>2, <1>4 DEF Over
<1>9. NoneMeet(a)
  <2>1. ASSUME NEW u \in DOMAIN s.asg, s.asg[u] = r
        PROVE  ~Meet(interval[u], interval[v]) /\ ~Meet(interval[v], interval[u])
    <3>1. u \notin ToSet(s.active)
      BY <1>2, <1>5, <2>1 DEF Held
    <3>2. interval[u].end <= interval[v].start /\ u \in DOMAIN interval
      BY <1>2, <2>1, <3>1 DEF Over, ScanLists
    <3> QED
      BY <1>3, <3>2, OverApart
  <2> SUFFICES ASSUME NEW u \in DOMAIN a, NEW w \in DOMAIN a, u # w, a[u] = a[w]
               PROVE  ~Meet(interval[u], interval[w])
    BY DEF NoneMeet
  <2>2. CASE u = v
    BY <1>4, <2>1, <2>2
  <2>3. CASE w = v
    BY <1>4, <2>1, <2>3
  <2>4. CASE u # v /\ w # v
    BY <1>2, <1>4, <2>4 DEF NoneMeet
  <2> QED
    BY <2>2, <2>3, <2>4
<1> QED
  BY <1>1, <1>6, <1>7, <1>8, <1>9 DEF Scanning, t, a, r

(* The register of a moves from last to v.                                 *)
HandedOn(a, last, v) == [u \in (DOMAIN a \ {last}) \cup {v} |-> a[IF u = v THEN last ELSE u]]

(* or the register of an active interval that ends later,                  *)
LEMMA LastTaken ==
  ASSUME Timed, NEW s, Scanning(s), NEW v \in s.rest, s.free = <<>>,
         NEW last \in ToSet(s.active),
         NEW l, IsList(l), IsInjective(l), ToSet(l) = (ToSet(s.active) \ {last}) \cup {v}
  PROVE  Scanning([rest |-> s.rest \ {v}, free |-> <<>>, active |-> l,
                   asg |-> HandedOn(s.asg, last, v)])
<1> DEFINE a == HandedOn(s.asg, last, v)
           t == [rest |-> s.rest \ {v}, free |-> <<>>, active |-> l, asg |-> a]
<1>1. t.rest = s.rest \ {v} /\ t.free = <<>> /\ t.active = l /\ t.asg = a
  OBVIOUS
<1>2. ScanLists(s) /\ Held(s) /\ Over(s) /\ NoneMeet(s.asg)
  BY DEF Scanning
<1>3. /\ v \notin DOMAIN s.asg /\ v \notin ToSet(s.active) /\ v \in DOMAIN interval
      /\ last \in DOMAIN s.asg /\ last # v
  BY <1>2 DEF ScanLists
<1>4. /\ DOMAIN a = (DOMAIN s.asg \ {last}) \cup {v} /\ a[v] = s.asg[last]
      /\ \A u \in DOMAIN s.asg \ {last} : a[u] = s.asg[u]
  BY <1>3 DEF HandedOn
<1>5. IsList(<<>>) /\ IsInjective(<<>>) /\ ToSet(<<>>) = {}
  BY <1>2 DEF ScanLists, ToSet
<1> HIDE DEF a, t
<1>6. ScanLists(t)
  BY <1>1, <1>2, <1>3, <1>4, <1>5 DEF ScanLists
<1>7. Held(t)
  <2>1. \A u, w \in ToSet(l) : a[u] = a[w] => u = w
    BY <1>2, <1>3, <1>4 DEF Held, ScanLists
  <2>2. \A u \in DOMAIN a : a[u] \in ToSet(pool)
    BY <1>2, <1>3, <1>4 DEF Held
  <2>3. ASSUME NEW p \in ToSet(pool) PROVE \E u \in ToSet(l) : a[u] = p
    <3>1. PICK u \in ToSet(s.active) : s.asg[u] = p
      BY <1>2, <1>5 DEF Held
    <3>2. CASE u = last
      BY <1>4, <3>1, <3>2
    <3>3. CASE u # last
      BY <1>2, <1>4, <3>1, <3>3 DEF ScanLists
    <3> QED
      BY <3>2, <3>3
  <2> QED
    BY <1>1, <1>5, <2>1, <2>2, <2>3 DEF Held
<1>8. Over(t)
  BY <1>1, <1>2, <1>4 DEF Over
<1>9. NoneMeet(a)
  <2>1. ASSUME NEW u \in DOMAIN s.asg \ {last}, s.asg[u] = s.asg[last]
        PROVE  ~Meet(interval[u], interval[v]) /\ ~Meet(interval[v], interval[u])
    <3>1. u \notin ToSet(s.active)
      BY <1>2, <2>1 DEF Held
    <3>2. interval[u].end <= interval[v].start /\ u \in DOMAIN interval
      BY <1>2, <2>1, <3>1 DEF Over, ScanLists
    <3> QED
      BY <1>3, <3>2, OverApart
  <2> SUFFICES ASSUME NEW u \in DOMAIN a, NEW w \in DOMAIN a, u # w, a[u] = a[w]
               PROVE  ~Meet(interval[u], interval[w])
    BY DEF NoneMeet
  <2>2. CASE u = v
    BY <1>4, <2>1, <2>2
  <2>3. CASE w = v
    BY <1>4, <2>1, <2>3
  <2>4. CASE u # v /\ w # v
    BY <1>2, <1>4, <2>4 DEF NoneMeet
  <2> QED
    BY <2>2, <2>3, <2>4
<1> QED
  BY <1>1, <1>6, <1>7, <1>8, <1>9 DEF Scanning, t, a

(* or none.                                                                *)
LEMMA NoneTaken ==
  ASSUME NEW s, Scanning(s), NEW v
  PROVE  Scanning([rest |-> s.rest \ {v}, free |-> s.free, active |-> s.active, asg |-> s.asg])
<1> DEFINE t == [rest |-> s.rest \ {v}, free |-> s.free, active |-> s.active, asg |-> s.asg]
<1>1. t.rest = s.rest \ {v} /\ t.free = s.free /\ t.active = s.active /\ t.asg = s.asg
  OBVIOUS
<1> HIDE DEF t
<1>2. ScanLists(t) /\ Held(t) /\ Over(t) /\ NoneMeet(t.asg)
  BY <1>1 DEF Scanning, ScanLists, Held, Over, NoneMeet
<1> QED
  BY <1>2 DEF Scanning, t

-----------------------------------------------------------------------------
(* An interval enters the active list between those that end sooner and    *)
(* later.                                                                  *)
LEMMA InsertedList ==
  ASSUME NEW l, IsList(l), IsInjective(l), NEW v, v \notin ToSet(l), NEW K, K \subseteq ToSet(l)
  PROVE  LET t == Kept(l, K) \o <<v>> \o Kept(l, ToSet(l) \ K)
         IN  IsList(t) /\ IsInjective(t) /\ ToSet(t) = ToSet(l) \cup {v}
<1> DEFINE X == ToSet(l)
           a == Kept(l, K)
           b == <<v>>
           c == Kept(l, X \ K)
<1>1. l \in Seq(X)
  BY ListFacts
<1>2. IsList(a) /\ IsInjective(a) /\ ToSet(a) = K
  <2> HIDE DEF X
  <2>1. a \in Seq(X) /\ (\A e : e \in ToSet(a) <=> e \in ToSet(l) /\ e \in K) /\ IsInjective(a)
    BY <1>1, KeptElements
  <2>2. IsList(a)
    BY <2>1, SeqIsList
  <2> QED
    BY <2>1, <2>2
<1>3. IsList(c) /\ IsInjective(c) /\ ToSet(c) = X \ K
  <2>1. \A e : e \in X \ K => e \in ToSet(l)
    OBVIOUS
  <2> HIDE DEF X
  <2>2. c \in Seq(X) /\ (\A e : e \in ToSet(c) <=> e \in ToSet(l) /\ e \in X \ K) /\ IsInjective(c)
    BY <1>1, KeptElements
  <2>3. IsList(c)
    BY <2>2, SeqIsList
  <2> QED
    BY <2>1, <2>2, <2>3
<1>4. IsList(b) /\ ToSet(b) = {v} /\ IsInjective(b)
  <2>1. b \in Seq({v}) /\ ToSet(b) = {v}
    BY OneElement
  <2>2. DOMAIN b = {1}
    OBVIOUS
  <2> HIDE DEF b
  <2> QED
    BY <2>1, <2>2, SeqIsList DEF IsInjective
<1> HIDE DEF a, b, c
<1>5. IsList(a \o b) /\ IsInjective(a \o b) /\ ToSet(a \o b) = K \cup {v}
  <2>1. ToSet(a) \cap ToSet(b) = {}
    BY <1>2, <1>4
  <2> QED
    BY <1>2, <1>4, <2>1, ConcatLists, ConcatDistinct
<1> DEFINE d == a \o b
<1>6. ToSet(d) \cap ToSet(c) = {}
  BY <1>3, <1>5
<1> HIDE DEF d
<1>7. IsList(d \o c) /\ IsInjective(d \o c) /\ ToSet(d \o c) = ToSet(d) \cup ToSet(c)
  BY <1>3, <1>5, <1>6, ConcatLists, ConcatDistinct DEF d
<1>8. ToSet(d) \cup ToSet(c) = ToSet(l) \cup {v}
  BY <1>3, <1>5 DEF d
<1> QED
  BY <1>7, <1>8 DEF a, b, c, d

Inserted(l, v) ==
  LET sooner == {u \in ToSet(l) : interval[u].end <= interval[v].end}
  IN  Kept(l, sooner) \o <<v>> \o Kept(l, ToSet(l) \ sooner)

LEMMA InsertedFacts ==
  ASSUME NEW l, IsList(l), IsInjective(l), NEW v, v \notin ToSet(l)
  PROVE  /\ IsList(Inserted(l, v)) /\ IsInjective(Inserted(l, v))
         /\ ToSet(Inserted(l, v)) = ToSet(l) \cup {v}
<1> DEFINE K == {u \in ToSet(l) : interval[u].end <= interval[v].end}
<1>1. K \subseteq ToSet(l) /\ Inserted(l, v) = Kept(l, K) \o <<v>> \o Kept(l, ToSet(l) \ K)
  BY DEF Inserted
<1> HIDE DEF K
<1> QED
  BY <1>1, InsertedList

(* One interval: what becomes of the state e, when those ended are gone.   *)
GetsFree(t, e, v) ==
  /\ e.free # <<>>
  /\ t = [rest |-> e.rest \ {v}, free |-> Tail(e.free), active |-> Inserted(e.active, v),
          asg |-> Extended(e.asg, v, Head(e.free))]
GetsLast(t, e, v) ==
  /\ e.free = <<>>
  /\ t = [rest |-> e.rest \ {v}, free |-> <<>>, active |-> Inserted(Front(e.active), v),
          asg |-> [u \in (DOMAIN e.asg \ {Last(e.active)}) \cup {v} |->
                     e.asg[IF u = v THEN Last(e.active) ELSE u]]]
GetsNone(t, e, v) ==
  t = [rest |-> e.rest \ {v}, free |-> e.free, active |-> e.active, asg |-> e.asg]

LEMMA ScannedOutcome ==
  ASSUME NEW s, NEW v, NEW e, e = Expired(s, v)
  PROVE  GetsFree(Scanned(s, v), e, v) \/ GetsLast(Scanned(s, v), e, v) \/ GetsNone(Scanned(s, v), e, v)
<1>1. /\ e.rest = s.rest /\ e.asg = s.asg
      /\ e.free = s.free \o [i \in 1..Len(Kept(s.active, Ended(s, v))) |->
                               s.asg[Kept(s.active, Ended(s, v))[i]]]
      /\ e.active = Kept(s.active, ToSet(s.active) \ Ended(s, v))
  BY DEF Expired
<1> DEFINE c == interval[Last(e.active)].end > interval[v].end
<1>2. Scanned(s, v) =
        CASE e.free # <<>> ->
               [rest |-> e.rest \ {v}, free |-> Tail(e.free), active |-> Inserted(e.active, v),
                asg |-> Extended(e.asg, v, Head(e.free))]
          [] e.free = <<>> /\ c ->
               [rest |-> e.rest \ {v}, free |-> <<>>, active |-> Inserted(Front(e.active), v),
                asg |-> [u \in (DOMAIN e.asg \ {Last(e.active)}) \cup {v} |->
                           e.asg[IF u = v THEN Last(e.active) ELSE u]]]
          [] OTHER -> [rest |-> e.rest \ {v}, free |-> e.free, active |-> e.active, asg |-> e.asg]
  BY <1>1, Zenon DEF Scanned, Inserted, Ended
<1>3. CASE e.free # <<>>
  BY <1>2, <1>3 DEF GetsFree
<1>4. CASE e.free = <<>> /\ c
  BY <1>2, <1>4 DEF GetsLast
<1>5. CASE e.free = <<>> /\ ~c
  BY <1>2, <1>5 DEF GetsNone
<1> QED
  BY <1>3, <1>4, <1>5

LEMMA ScannedKeeps ==
  ASSUME Timed, ToSet(pool) # {}, NEW s, Scanning(s), NEW v, Earliest(s.rest, v)
  PROVE  Scanning(Scanned(s, v)) /\ Scanned(s, v).rest = s.rest \ {v}
<1>7. PICK e : e = Expired(s, v)
  OBVIOUS
<1> DEFINE l == e.active
<1>1. Scanning(e) /\ e.rest = s.rest /\ v \in e.rest
  BY <1>7, ExpireKeeps DEF Expired, Earliest
<1>2. IsList(l) /\ IsInjective(l) /\ v \notin ToSet(l)
  BY <1>1 DEF Scanning, ScanLists
<1> HIDE DEF l
<1>3. ASSUME e.free = <<>>
      PROVE  l # <<>>
  <2>1. ToSet(e.free) = {}
    BY <1>3 DEF ToSet
  <2>2. ToSet(l) # {}
    BY <1>1, <2>1 DEF Scanning, Held, l
  <2> QED
    BY <2>2 DEF ToSet
<1>4. CASE GetsFree(Scanned(s, v), e, v)
  <2> DEFINE t == Inserted(l, v)
  <2>1. IsList(t) /\ IsInjective(t) /\ ToSet(t) = ToSet(e.active) \cup {v}
    BY <1>2, InsertedFacts DEF l
  <2>2. /\ e.free # <<>>
        /\ Scanned(s, v) = [rest |-> e.rest \ {v}, free |-> Tail(e.free), active |-> t,
                            asg |-> Extended(e.asg, v, Head(e.free))]
    BY <1>4, Zenon DEF GetsFree, l
  <2> HIDE DEF t
  <2>3. Scanning([rest |-> e.rest \ {v}, free |-> Tail(e.free), active |-> t,
                  asg |-> Extended(e.asg, v, Head(e.free))])
    BY <1>1, <2>1, <2>2, FreeTaken
  <2> QED
    BY <1>1, <2>2, <2>3
<1>5. CASE GetsLast(Scanned(s, v), e, v)
  <2> DEFINE t == Inserted(Front(l), v)
             last == Last(l)
  <2>1. /\ IsList(Front(l)) /\ ToSet(l) = ToSet(Front(l)) \cup {last}
        /\ IsInjective(Front(l)) /\ last \notin ToSet(Front(l))
    BY <1>2, <1>3, <1>5, LastFront DEF GetsLast
  <2>2. IsList(t) /\ IsInjective(t) /\ ToSet(t) = ToSet(Front(l)) \cup {v}
    BY <1>2, <2>1, InsertedFacts
  <2>3. last \in ToSet(e.active) /\ ToSet(t) = (ToSet(e.active) \ {last}) \cup {v}
    BY <2>1, <2>2 DEF l
  <2>4. /\ e.free = <<>>
        /\ Scanned(s, v) = [rest |-> e.rest \ {v}, free |-> <<>>, active |-> t,
                            asg |-> HandedOn(e.asg, last, v)]
    BY <1>5, Zenon DEF GetsLast, HandedOn, l
  <2> HIDE DEF t, last
  <2>5. Scanning([rest |-> e.rest \ {v}, free |-> <<>>, active |-> t,
                  asg |-> HandedOn(e.asg, last, v)])
    <3>1. Scanning(e) /\ v \in e.rest /\ e.free = <<>> /\ last \in ToSet(e.active)
      BY <1>1, <2>3, <2>4
    <3>2. IsList(t) /\ IsInjective(t) /\ ToSet(t) = (ToSet(e.active) \ {last}) \cup {v}
      BY <2>2, <2>3
    <3> QED
      BY <3>1, <3>2, LastTaken
  <2>6. Scanned(s, v).rest = e.rest \ {v}
    BY <2>4
  <2> QED
    BY <1>1, <2>4, <2>5, <2>6, Zenon
<1>6. CASE GetsNone(Scanned(s, v), e, v)
  <2>1. Scanned(s, v) = [rest |-> e.rest \ {v}, free |-> e.free, active |-> e.active, asg |-> e.asg]
    BY <1>6 DEF GetsNone
  <2>2. Scanning([rest |-> e.rest \ {v}, free |-> e.free, active |-> e.active, asg |-> e.asg])
    BY <1>1, NoneTaken
  <2> QED
    BY <1>1, <2>1, <2>2
<1> QED
  BY <1>4, <1>5, <1>6, <1>7, ScannedOutcome

(* The next interval of the sorted list is there, and is the earliest.     *)
First(S) == CHOOSE v \in S : \A u \in S : ~Younger(u, v)

LEMMA FirstIsEarliest ==
  ASSUME Timed, NEW S, S \subseteq DOMAIN interval, S # {}
  PROVE  Earliest(S, First(S))
<1> DEFINE starts == {interval[u].start : u \in S}
<1>1. \A u \in S : interval[u].start \in Nat /\ interval[u].end \in Nat
  BY DEF Timed
<1>2. PICK m \in starts : \A n \in starts : m <= n
  <2>1. starts \subseteq Nat /\ starts # {}
    BY <1>1
  <2> HIDE DEF starts
  <2> QED
    BY <2>1, LeastNatural
<1> DEFINE T == {u \in S : interval[u].start = m}
           last == {interval[u].end : u \in T}
<1>3. PICK k \in last : \A n \in last : k <= n
  <2>1. last \subseteq Nat /\ last # {}
    BY <1>1, <1>2
  <2> HIDE DEF last
  <2> QED
    BY <2>1, LeastNatural
<1>4. PICK w \in S : interval[w].start = m /\ interval[w].end = k
  BY <1>3
<1>5. ASSUME NEW u \in S PROVE ~Younger(u, w)
  <2>1. m <= interval[u].start /\ (interval[u].start = m => k <= interval[u].end)
    BY <1>2, <1>3
  <2> DEFINE a == interval[u].start
             b == interval[u].end
  <2>2. a \in Nat /\ b \in Nat /\ m \in Nat /\ k \in Nat
    BY <1>1, <1>4
  <2> HIDE DEF a, b
  <2>3. ~(a < m) /\ ~(a = m /\ b < k)
    BY <2>1, <2>2 DEF a, b
  <2> QED
    BY <1>4, <2>3 DEF Younger, a, b
<1>6. First(S) \in S /\ \A u \in S : ~Younger(u, First(S))
  BY <1>5 DEF First
<1> DEFINE v == First(S)
<1> HIDE DEF v
<1>7. ASSUME NEW u \in S PROVE interval[v].start <= interval[u].start
  <2>1. ~(interval[u].start < interval[v].start) /\ v \in S
    BY <1>6 DEF Younger, v
  <2> DEFINE a == interval[u].start
             b == interval[v].start
  <2>2. a \in Nat /\ b \in Nat /\ ~(a < b)
    BY <1>1, <2>1
  <2> HIDE DEF a, b
  <2> QED
    BY <2>2 DEF a, b
<1> QED
  BY <1>6, <1>7 DEF Earliest, v

(* What linear_scan returns: registers of the pool, and none that two      *)
(* meeting intervals share.                                                *)
Shared(a) == DOMAIN a \subseteq DOMAIN interval /\ (\A u \in DOMAIN a : a[u] \in ToSet(pool)) /\ NoneMeet(a)

LEMMA ScanningStarts ==
  ASSUME IsList(pool), IsInjective(pool)
  PROVE  Scanning([rest |-> DOMAIN interval, free |-> pool, active |-> <<>>, asg |-> <<>>])
<1> DEFINE t == [rest |-> DOMAIN interval, free |-> pool, active |-> <<>>, asg |-> <<>>]
<1>1. t.rest = DOMAIN interval /\ t.free = pool /\ t.active = <<>> /\ t.asg = <<>>
  OBVIOUS
<1>2. ToSet(<<>>) = {} /\ DOMAIN <<>> = {} /\ IsInjective(<<>>)
  BY DEF ToSet, IsInjective
<1>3. IsList(<<>>)
  BY <1>2 DEF IsList
<1> HIDE DEF t
<1>4. ScanLists(t)
  BY <1>1, <1>2, <1>3 DEF ScanLists
<1>5. Held(t) /\ Over(t) /\ NoneMeet(t.asg)
  BY <1>1, <1>2 DEF Held, Over, NoneMeet
<1> QED
  BY <1>4, <1>5 DEF Scanning, t

LEMMA LinearScanSound ==
  ASSUME Timed, IsFiniteSet(DOMAIN interval), IsList(pool), IsInjective(pool), ToSet(pool) # {}
  PROVE  Shared(LinearScan)
<1> DEFINE n == Cardinality(DOMAIN interval)
           s0 == [rest |-> DOMAIN interval, free |-> pool, active |-> <<>>, asg |-> <<>>]
           Next1(s) == Scanned(s, First(s.rest))
           Rec(h) == h = [i \in 0..n |-> IF i = 0 THEN s0 ELSE Next1(h[i - 1])]
           after == CHOOSE h : Rec(h)
           Todo(i, s) == /\ Scanning(s) /\ IsFiniteSet(s.rest) /\ Cardinality(s.rest) = n - i
<1>1. n \in Nat
  BY FS_CardinalityType
<1>2. Todo(0, s0)
  BY <1>1, ScanningStarts
<1>3. LinearScan = after[n].asg
  BY Zenon DEF LinearScan, First
<1> HIDE DEF n, s0
<1>4. ASSUME NEW i \in 1..n, NEW s, Todo(i - 1, s) PROVE Todo(i, Next1(s))
  <2> DEFINE v == First(s.rest)
             t == Scanned(s, v)
  <2>1. s.rest # {} /\ s.rest \subseteq DOMAIN interval /\ Scanning(s)
    BY <1>1, <1>4, FS_EmptySet DEF Scanning, ScanLists
  <2>2. Earliest(s.rest, v)
    BY <2>1, FirstIsEarliest
  <2> HIDE DEF v
  <2>3. Scanning(t) /\ t.rest = s.rest \ {v} /\ v \in s.rest
    BY <2>1, <2>2, ScannedKeeps DEF Earliest
  <2> HIDE DEF t
  <2>4. IsFiniteSet(t.rest) /\ Cardinality(t.rest) = Cardinality(s.rest) - 1
    BY <1>4, <2>3, FS_RemoveElement
  <2> QED
    BY <1>1, <1>4, <2>3, <2>4 DEF t, v
<1> HIDE DEF Next1
<1>5. \E h : Rec(h)
  <2> DEFINE Prefix(k, h) == h = [i \in 0..k |-> IF i = 0 THEN s0 ELSE Next1(h[i - 1])]
             S == {k \in Nat : \E h : Prefix(k, h)}
  <2>1. 0 \in S
    <3> DEFINE h == [i \in 0..0 |-> s0]
    <3>1. h = [i \in 0..0 |-> IF i = 0 THEN s0 ELSE Next1(h[i - 1])]
      OBVIOUS
    <3> QED
      BY <3>1
  <2>2. \A k \in Nat : k \in S => k + 1 \in S
    <3> SUFFICES ASSUME NEW k \in Nat, k \in S PROVE k + 1 \in S
      OBVIOUS
    <3>1. PICK h : Prefix(k, h)
      OBVIOUS
    <3> DEFINE g == [i \in 0..(k + 1) |-> IF i = 0 THEN s0 ELSE Next1(h[i - 1])]
    <3>2. \A i \in 0..k : g[i] = h[i]
      <4> SUFFICES ASSUME NEW i \in 0..k PROVE g[i] = h[i]
        OBVIOUS
      <4>1. i \in 0..(k + 1)
        OBVIOUS
      <4>2. h[i] = IF i = 0 THEN s0 ELSE Next1(h[i - 1])
        BY <3>1
      <4> QED
        BY <4>1, <4>2
    <3>3. \A i \in 0..(k + 1) : i # 0 => i - 1 \in 0..k
      OBVIOUS
    <3>4. Prefix(k + 1, g)
      BY <3>2, <3>3
    <3> HIDE DEF g, Prefix
    <3> QED
      BY <3>4
  <2>3. n \in S
    <3> HIDE DEF S
    <3> QED
      BY <1>1, <2>1, <2>2, InductionOnSet
  <2> QED
    BY <2>3
<1> HIDE DEF Todo
<1>6. Rec(after)
  <2> HIDE DEF Rec
  <2> QED
    BY <1>5
<1> HIDE DEF after
<1>7. after[0] = s0 /\ \A i \in 1..n : after[i] = Next1(after[i - 1])
  <2>1. \A i \in 0..n : after[i] = IF i = 0 THEN s0 ELSE Next1(after[i - 1])
    BY <1>6
  <2> HIDE DEF Rec
  <2>2. 0 \in 0..n /\ \A i \in 1..n : i \in 0..n /\ i # 0
    BY <1>1
  <2> QED
    BY <2>1, <2>2
<1> HIDE DEF Rec
<1> DEFINE S == {i \in Nat : i \in 0..n => Todo(i, after[i])}
<1>8. 0 \in S
  BY <1>2, <1>7
<1>9. \A i \in Nat : i \in S => i + 1 \in S
  <2> SUFFICES ASSUME NEW i \in Nat, i \in S, i + 1 \in 0..n PROVE Todo(i + 1, after[i + 1])
    OBVIOUS
  <2>1. i \in 0..n /\ i + 1 \in 1..n /\ (i + 1) - 1 = i
    BY <1>1
  <2>2. Todo((i + 1) - 1, after[i]) /\ after[i + 1] = Next1(after[i])
    BY <1>7, <2>1
  <2> QED
    BY <1>4, <2>1, <2>2
<1>10. n \in S
  <2> HIDE DEF S
  <2> QED
    BY <1>1, <1>8, <1>9, InductionOnSet
<1>11. Scanning(after[n])
  BY <1>1, <1>10 DEF Todo
<1> QED
  BY <1>3, <1>11 DEF Shared, Scanning, ScanLists, Held

-----------------------------------------------------------------------------
(* Few registers, and those of lowered code none that spilling makes.      *)
LEMMA ImageFinite ==
  ASSUME NEW g, IsFiniteSet(DOMAIN g)
  PROVE  IsFiniteSet({g[x] : x \in DOMAIN g})
<1> DEFINE T == {g[x] : x \in DOMAIN g}
           h == [x \in DOMAIN g |-> g[x]]
<1>1. h \in Surjection(DOMAIN g, T)
  BY DEF Surjection
<1> HIDE DEF h, T
<1> QED
  BY <1>1, FS_Surjection DEF T

LEMMA ListFinite ==
  ASSUME NEW s, IsList(s)
  PROVE  IsFiniteSet(ToSet(s))
<1>1. DOMAIN s = 1..Len(s) /\ Len(s) \in Nat
  BY ListFacts
<1>2. IsFiniteSet(1..Len(s))
  BY <1>1, FS_Interval
<1> QED
  BY <1>1, <1>2, ImageFinite DEF ToSet

LEMMA RegistersFinite ==
  ASSUME NEW m, IsMachine(m)
  PROVE  IsFiniteSet(Registers(m))
<1> DEFINE c == Flat(m)
           n == Len(c)
           named == [p \in 1..n |-> Uses(c[p]) \cup ({c[p].dst} \ {NoReg})]
<1>1. n \in Nat /\ \A p \in 1..n : IsInstr(c[p])
  BY FlatList
<1>2. ASSUME NEW p \in 1..n PROVE IsFiniteSet(named[p])
  <2>1. IsFiniteSet(Uses(c[p]))
    BY <1>1, ListFinite DEF IsInstr, Uses
  <2>2. IsFiniteSet({c[p].dst} \ {NoReg})
    <3>1. PICK d : d = c[p].dst
      OBVIOUS
    <3>2. IsFiniteSet({d} \ {NoReg})
      <4>1. IsFiniteSet({}) /\ IsFiniteSet({d})
        BY FS_EmptySet, FS_Singleton
      <4>2. {d} \ {NoReg} = {} \/ {d} \ {NoReg} = {d}
        OBVIOUS
      <4> QED
        BY <4>1, <4>2
    <3> QED
      BY <3>1, <3>2
  <2> QED
    BY <2>1, <2>2, FS_Union
<1>3. DOMAIN named = 1..n /\ Registers(m) = UNION {named[p] : p \in DOMAIN named}
  BY DEF Registers
<1> HIDE DEF named, n
<1>4. IsFiniteSet({named[p] : p \in DOMAIN named})
  <2>1. 1 \in Int /\ n \in Int
    BY <1>1
  <2>2. IsFiniteSet(1..n)
    BY <2>1, FS_Interval
  <2> QED
    BY <1>3, <2>2, ImageFinite
<1>5. \A T \in {named[p] : p \in DOMAIN named} : IsFiniteSet(T)
  BY <1>2, <1>3
<1> QED
  BY <1>3, <1>4, <1>5, FS_UNION

LEMMA LoweredPlain ==
  ASSUME NEW g, WellFormed(g)
  PROVE  \A v \in Registers(LowerFunction(g)) : Plain(v)
<1> DEFINE m == LowerFunction(g)
           X == UNION {ToSet(m[j]) : j \in DOMAIN m}
           c == Flat(m)
<1>1. IsList(m) /\ DOMAIN m = 1..Len(m)
  BY LoweredBlocks, ListFacts
<1>2. \A j \in DOMAIN m : IsList(m[j])
  BY <1>1, BlockCode
<1>3. m # <<>>
  BY <1>1, LoweredBlocks, FunctionShape
<1>4. m \in Seq(Seq(X))
  <2> HIDE DEF m
  <2> QED
    BY <1>1, <1>2, <1>3, NestedLists
<1>5. ASSUME NEW p \in 1..Len(c) PROVE NamesPlain(c[p])
  <2>1. c[p] \in ToSet(c)
    <3>1. c \in Seq(X)
      <4> HIDE DEF m, X
      <4> QED
        BY <1>3, <1>4, FlattenElements DEF Flat
    <3>2. DOMAIN c = 1..Len(c)
      BY <3>1, SeqIsList, ListFacts
    <3> QED
      BY <3>2 DEF ToSet
  <2>2. PICK j \in 1..Len(m) : c[p] \in ToSet(m[j])
    <3> HIDE DEF m, X
    <3> QED
      BY <1>3, <1>4, <2>1, FlattenElements DEF Flat
  <2>3. Emitted(c[p], Len(m))
    BY <2>2, BlockCode
  <2>4. ASSUME NEW t PROVE NamesPlain(Jump(t)) /\ NamesPlain(Call(t))
    BY NoInstruction DEF Jump, Call, MInstr, NamesPlain, Uses
  <2> QED
    BY <2>3, <2>4 DEF Emitted, Straight
<1>6. \A v \in Registers(m) : \E p \in 1..Len(c) : v \in Uses(c[p]) \cup ({c[p].dst} \ {NoReg})
  BY DEF Registers
<1> QED
  BY <1>5, <1>6 DEF NamesPlain

-----------------------------------------------------------------------------
(* What an allocation gives and what a round of colours needs.             *)
LEMMA StillGrown ==
  ASSUME GrowInv, ListInv, UNCHANGED liveVars
  PROVE  GrowInv' /\ ListInv'
<1>1. /\ mf' = mf /\ phase' = phase /\ color' = color /\ stack' = stack /\ backEdges' = backEdges
      /\ interval' = interval /\ edge' = edge /\ changed' = changed
  BY DEF liveVars
<1>2. Searched' = Searched
  BY <1>1 DEF Searched
<1>3. ListInv'
  BY <1>1, <1>2 DEF ListInv
<1>4. \A k : Quiet(k)' <=> Quiet(k)
  BY <1>1 DEF Quiet
<1>5. GrowInv'
  BY <1>1, <1>4 DEF GrowInv
<1> QED
  BY <1>3, <1>5

LEMMA DoneTimes ==
  ASSUME IsMachine(mf), phase = "done", GrowInv
  PROVE  /\ DOMAIN interval = Registers(mf)
         /\ \A v \in Registers(mf) : /\ interval[v].start \in Nat /\ interval[v].end \in Nat
                                     /\ interval[v].start = ScanInterval(Flat(mf), v).start
<1>1. Grown(mf, backEdges, interval) /\ Len(Flat(mf)) \in Nat
  BY FlatList DEF GrowInv
<1>2. ASSUME NEW n \in Nat, NEW i \in Span(n) PROVE i.start \in Nat /\ i.end \in Nat
  BY <1>2 DEF Span
<1> QED
  BY <1>1, <1>2 DEF Grown

LEMMA PoolFacts ==
  ASSUME pool \in Pools
  PROVE  IsList(pool) /\ IsInjective(pool) /\ ToSet(pool) # {} /\ pool # <<>>
<1>1. IsList(pool) /\ IsInjective(pool) /\ pool # <<>>
  BY PoolAssumption
<1>2. Head(pool) \in ToSet(pool)
  BY <1>1, HeadTail
<1> QED
  BY <1>1, <1>2

LEMMA AllocationShared ==
  ASSUME IsMachine(mf), phase = "done", GrowInv, pool \in Pools, NEW a \in Allocations
  PROVE  Shared(a)
<1>1. CASE Cardinality(DOMAIN interval) > MaxFree
  <2>1. a = LinearScan
    BY <1>1 DEF Allocations
  <2>2. Timed /\ IsFiniteSet(DOMAIN interval)
    BY DoneTimes, RegistersFinite DEF Timed
  <2> QED
    BY <2>1, <2>2, PoolFacts, LinearScanSound
<1>2. CASE ~(Cardinality(DOMAIN interval) > MaxFree)
  <2>1. a \in UNION {[S -> ToSet(pool)] : S \in SUBSET DOMAIN interval} /\ Sound(a)
    BY <1>2 DEF Allocations
  <2>2. PICK S \in SUBSET DOMAIN interval : a \in [S -> ToSet(pool)]
    BY <2>1
  <2>3. DOMAIN a \subseteq DOMAIN interval /\ \A u \in DOMAIN a : a[u] \in ToSet(pool)
    BY <2>2
  <2>4. NoneMeet(a)
    BY <2>1 DEF Sound, NoneMeet
  <2> QED
    BY <2>3, <2>4 DEF Shared
<1> QED
  BY <1>1, <1>2

(* Intervals that do not meet: one has ended when the other starts.        *)
LEMMA SharedApart ==
  ASSUME IsMachine(mf), phase = "done", GrowInv, ListInv, NEW a, Shared(a)
  PROVE  ApartIn(mf, a)
<1>1. LoopList(TargetsOf(mf), backEdges) /\ LoopsIn(mf, backEdges)
  BY DEF GrowInv, ListInv
<1>2. ASSUME NEW u \in DOMAIN a \cap Registers(mf), NEW w \in DOMAIN a \cap Registers(mf),
             interval[u].end <= interval[w].start
      PROVE  Parted(mf, backEdges, u, w)
  <2>1. Fits(mf, backEdges, u, interval[u].end)
    BY DEF GrowInv
  <2>2. interval[u].end <= ScanInterval(Flat(mf), w).start
    BY <1>2, DoneTimes
  <2> QED
    BY <2>1, <2>2 DEF Parted
<1>3. ASSUME NEW u \in DOMAIN a \cap Registers(mf), NEW w \in DOMAIN a \cap Registers(mf),
             u # w, a[u] = a[w]
      PROVE  Parted(mf, backEdges, u, w) \/ Parted(mf, backEdges, w, u)
  <2>1. ~Meet(interval[u], interval[w])
    BY <1>3 DEF Shared, NoneMeet
  <2>2. interval[u].end <= interval[w].start \/ interval[w].end <= interval[u].start
    BY <2>1, DoneTimes DEF Meet
  <2> QED
    BY <1>2, <2>2
<1> QED
  BY <1>1, <1>3 DEF ApartIn

AsgApart ==
  \A u, v \in DOMAIN asg \cap DOMAIN interval : u # v /\ asg[u] = asg[v] => ~Meet(interval[u], interval[v])

LEMMA ApartStays ==
  ASSUME IsMachine(mf), phase = "done", GrowInv, ListInv, ApartIn(mf, asg)
  PROVE  AsgApart
<1>1. PICK loops : /\ LoopList(TargetsOf(mf), loops)
                   /\ \A u, w \in DOMAIN asg \cap Registers(mf) :
                        u # w /\ asg[u] = asg[w] => Parted(mf, loops, u, w) \/ Parted(mf, loops, w, u)
  BY DEF ApartIn
<1>2. loops = backEdges
  <2>1. PICK tl : tl = TargetsOf(mf)
    OBVIOUS
  <2>2. LoopList(tl, loops) /\ LoopList(tl, backEdges)
    BY <1>1, <2>1 DEF ListInv
  <2> QED
    BY <2>2, LoopListOnce
<1>3. ASSUME NEW u \in Registers(mf), NEW w \in Registers(mf), Parted(mf, backEdges, u, w)
      PROVE  interval[u].end <= interval[w].start
  <2>1. PICK x : Fits(mf, backEdges, u, x) /\ x <= ScanInterval(Flat(mf), w).start
    BY <1>3 DEF Parted
  <2>2. interval[u].end <= x
    BY <2>1 DEF GrowInv, Grown, Least
  <2>3. x \in Nat
    <3>1. Len(Flat(mf)) \in Nat
      BY FlatList
    <3> QED
      BY <2>1, <3>1 DEF Fits
  <2>4. x <= interval[w].start /\ interval[w].start \in Nat /\ interval[u].end \in Nat
    BY <2>1, DoneTimes
  <2> QED
    BY <2>2, <2>3, <2>4
<1>4. ASSUME NEW u \in DOMAIN asg \cap DOMAIN interval, NEW w \in DOMAIN asg \cap DOMAIN interval,
             u # w, asg[u] = asg[w]
      PROVE  ~Meet(interval[u], interval[w])
  <2>1. u \in Registers(mf) /\ w \in Registers(mf)
    BY DoneTimes
  <2>2. interval[u].end <= interval[w].start \/ interval[w].end <= interval[u].start
    BY <1>1, <1>2, <1>3, <1>4, <2>1
  <2> QED
    BY <2>1, <2>2, DoneTimes DEF Meet
<1> QED
  BY <1>4 DEF AsgApart

LEMMA ColorApart ==
  ASSUME pool \in Pools, Color, starved \/ AsgApart
  PROVE  starved' \/ (AsgApart' /\ (stage' = "apply" => DOMAIN interval \subseteq DOMAIN asg'))
<1> DEFINE fresh == DOMAIN interval \ DOMAIN asg
<1>1. interval' = interval
  BY DEF Color, liveVars
<1>2. CASE fresh = {}
  <2>1. asg' = asg /\ starved' = starved
    BY <1>2 DEF Color
  <2> QED
    BY <1>1, <1>2, <2>1 DEF AsgApart
<1>3. CASE fresh # {}
  <2>1. PICK v, free : /\ free = Kept(pool, ToSet(pool) \ Occupied(v))
                       /\ asg' = Extended(asg, v, IF free = <<>> THEN Head(pool) ELSE Head(free))
                       /\ starved' = (starved \/ free = <<>>) /\ stage' = stage /\ stage = "color"
    BY <1>3 DEF Color
  <2>2. CASE starved \/ free = <<>>
    BY <2>1, <2>2
  <2>3. CASE ~starved /\ free # <<>>
    <3>1. asg' = Extended(asg, v, Head(free))
      BY <2>1, <2>3
    <3>2. Head(free) \notin Occupied(v)
      <4>1. IsList(pool) /\ pool \in Seq(ToSet(pool))
        BY PoolFacts DEF IsList
      <4>2. PICK K : K = ToSet(pool) \ Occupied(v)
        OBVIOUS
      <4>3. free \in Seq(ToSet(pool)) /\ \A e : e \in ToSet(free) <=> e \in ToSet(pool) /\ e \in K
        BY <2>1, <4>1, <4>2, KeptElements
      <4>4. Head(free) \in ToSet(free)
        BY <2>3, <4>3, SeqIsList, HeadTail
      <4> QED
        BY <4>2, <4>3, <4>4
    <3>3. \A u \in DOMAIN asg \cap DOMAIN interval :
            asg[u] = Head(free) => ~Meet(interval[u], interval[v])
      BY <3>2 DEF Occupied
    <3>4. /\ DOMAIN asg' = DOMAIN asg \cup {v}
          /\ \A u \in DOMAIN asg : asg'[u] = asg[u]
          /\ v \notin DOMAIN asg => asg'[v] = Head(free)
      BY <3>1 DEF Extended
    <3>5. ASSUME NEW u \in DOMAIN asg' \cap DOMAIN interval, NEW w \in DOMAIN asg' \cap DOMAIN interval,
                 u # w, asg'[u] = asg'[w]
          PROVE  ~Meet(interval[u], interval[w])
      <4>1. CASE u \in DOMAIN asg /\ w \in DOMAIN asg
        <5>1. asg[u] = asg[w]
          BY <3>4, <3>5, <4>1
        <5> QED
          BY <2>3, <3>5, <4>1, <5>1 DEF AsgApart
      <4>2. CASE u \in DOMAIN asg /\ w = v /\ v \notin DOMAIN asg
        BY <3>3, <3>4, <3>5, <4>2
      <4>3. CASE w \in DOMAIN asg /\ u = v /\ v \notin DOMAIN asg
        <5>1. ~Meet(interval[w], interval[u])
          BY <3>3, <3>4, <3>5, <4>3
        <5> QED
          BY <5>1 DEF Meet
      <4> QED
        BY <3>4, <3>5, <4>1, <4>2, <4>3
    <3>6. AsgApart'
      BY <1>1, <3>5 DEF AsgApart
    <3>7. stage' # "apply"
      BY <2>1
    <3> QED
      BY <3>6, <3>7
  <2> QED
    BY <2>2, <2>3
<1> QED
  BY <1>2, <1>3

-----------------------------------------------------------------------------
(* From an allocation to the registers of the rewritten code.              *)
Placed ==
  /\ source # <<>> /\ ApartIn(source, asg) /\ DOMAIN asg \subseteq Registers(source) \ spilled
  /\ Groups(out, ends, code) /\ Len(ends) < Len(code)

(* Once nothing is left to colour every register has its place.            *)
ApartInv ==
  /\ stage = "rewrite" => Placed
  /\ stage = "intervals" /\ ends # <<>> => ApartIn(mf, asg)
  /\ stage = "color" => starved \/ AsgApart
  /\ FreshApartUnlessStarved

StageInv ==
  /\ stage = "lower" => source = <<>> /\ ends = <<>>
  /\ stage \in {"intervals", "allocate"} /\ ends = <<>> => mf = source
  /\ stage = "allocate" => ends = <<>>
  /\ stage \in {"allocate", "color"} => phase = "done"

SpillInv ==
  /\ pool \in Pools /\ \A v \in Registers(source) : Plain(v)
  /\ GrowInv /\ ListInv /\ StageInv /\ ApartInv

LEMMA ApartSame ==
  ASSUME SpillInv, UNCHANGED <<source, pool, stage, liveVars, asg, spilled, ends, starved, out>>
  PROVE  SpillInv'
<1>1. /\ source' = source /\ mf' = mf /\ stage' = stage /\ asg' = asg /\ spilled' = spilled
      /\ ends' = ends /\ starved' = starved /\ out' = out /\ interval' = interval
      /\ phase' = phase /\ pool' = pool
  BY DEF liveVars
<1>2. GrowInv' /\ ListInv'
  BY StillGrown DEF SpillInv
<1>3. StageInv'
  BY <1>1 DEF SpillInv, StageInv
<1>4. AsgApart' <=> AsgApart
  BY <1>1 DEF AsgApart
<1>5. FreshApartUnlessStarved'
  BY <1>1 DEF SpillInv, ApartInv, FreshApartUnlessStarved
<1>6. Placed' <=> Placed
  <2>1. \A c, n, p : Spills(c[p], n)' = Spills(c[p], n)
    BY <1>1 DEF Spills, Reloads, Reloaded
  <2>2. Groups(out, ends, code)' <=> Groups(out, ends, code)
    BY <1>1 DEF Groups, GroupAt, code, Spills, Reloads, Reloaded
  <2> QED
    BY <1>1, <2>2 DEF Placed, code
<1>7. ApartInv'
  BY <1>1, <1>4, <1>5, <1>6 DEF SpillInv, ApartInv
<1>8. pool' \in Pools /\ \A v \in Registers(source') : Plain(v)
  BY <1>1 DEF SpillInv
<1> QED
  BY <1>2, <1>3, <1>7, <1>8 DEF SpillInv

LEMMA IntervalsApart ==
  ASSUME CodeInv, SpillInv, Intervals
  PROVE  SpillInv'
<1>1. /\ stage = "intervals" /\ UNCHANGED <<source, pool, asg, ends, starved>>
      /\ IF phase = "done" THEN /\ stage' = (IF ends = <<>> THEN "allocate" ELSE "color")
                                /\ UNCHANGED liveVars
         ELSE Compute /\ stage' = stage
  BY DEF Intervals, ComputeIntervals
<1>2. pool' \in Pools /\ \A v \in Registers(source') : Plain(v)
  BY <1>1 DEF SpillInv
<1>3. mf' = mf
  BY <1>1 DEF Compute, Scan, Visit, Finish, StartExtend, Extend, EndRound, liveVars
<1>4. CASE phase = "done"
  <2>1. GrowInv' /\ ListInv'
    BY <1>1, <1>4, StillGrown DEF SpillInv
  <2>2. StageInv'
    BY <1>1, <1>4 DEF StageInv, SpillInv, liveVars
  <2>3. CASE ends = <<>>
    BY <1>1, <1>2, <1>4, <2>1, <2>2, <2>3 DEF SpillInv, ApartInv, FreshApartUnlessStarved
  <2>4. CASE ends # <<>>
    <3>1. AsgApart
      BY <1>1, <1>4, <2>4, ApartStays DEF SpillInv, ApartInv, CodeInv
    <3>2. asg' = asg /\ interval' = interval /\ stage' = "color"
      BY <1>1, <1>4, <2>4 DEF liveVars
    <3>3. AsgApart'
      BY <3>1, <3>2 DEF AsgApart
    <3> QED
      BY <1>2, <2>1, <2>2, <3>2, <3>3 DEF SpillInv, ApartInv, FreshApartUnlessStarved
  <2> QED
    BY <2>3, <2>4
<1>5. CASE phase # "done"
  <2>1. Compute /\ stage' = stage
    BY <1>1, <1>5
  <2>2. GrowInv' /\ ListInv'
    BY <2>1, GrowCompute, ListCompute DEF CodeInv, SpillInv
  <2>3. StageInv'
    BY <1>1, <1>3, <2>1 DEF SpillInv, StageInv
  <2>4. ends # <<>> => ApartIn(mf', asg')
    BY <1>1, <1>3 DEF SpillInv, ApartInv
  <2>5. ApartInv'
    BY <1>1, <2>1, <2>4 DEF ApartInv, FreshApartUnlessStarved
  <2> QED
    BY <1>2, <2>2, <2>3, <2>5 DEF SpillInv
<1> QED
  BY <1>4, <1>5

LEMMA AllocateApart ==
  ASSUME CodeInv, SpillInv, Allocate
  PROVE  SpillInv'
<1>1. /\ stage = "allocate" /\ UNCHANGED <<source, pool, liveVars, starved>>
      /\ asg' \in Allocations /\ spilled' = DOMAIN interval \ DOMAIN asg'
      /\ stage' = (IF spilled' = {} THEN "apply" ELSE "rewrite")
      /\ spilled' # {} => out' = <<>> /\ ends' = <<>>
  BY DEF Allocate
<1>2. IsMachine(mf) /\ phase = "done" /\ mf = source /\ ends = <<>>
  BY <1>1 DEF CodeInv, SpillInv, StageInv
<1>3. /\ mf' = mf /\ interval' = interval /\ phase' = phase /\ GrowInv' /\ ListInv'
      /\ pool' \in Pools /\ \A v \in Registers(source') : Plain(v)
  BY <1>1, StillGrown DEF SpillInv, liveVars
<1>4. Shared(asg')
  BY <1>1, <1>2, AllocationShared DEF SpillInv
<1>5. StageInv'
  BY <1>1 DEF StageInv
<1>6. CASE spilled' = {}
  <2>1. DOMAIN interval \subseteq DOMAIN asg'
    BY <1>1, <1>6
  <2>2. FreshApartUnlessStarved'
    BY <1>3, <1>4, <2>1 DEF FreshApartUnlessStarved, Shared, NoneMeet
  <2> QED
    BY <1>1, <1>3, <1>5, <1>6, <2>2 DEF SpillInv, ApartInv
<1>7. CASE spilled' # {}
  <2>1. ApartIn(source, asg')
    BY <1>2, <1>4, SharedApart DEF SpillInv
  <2>2. DOMAIN asg' \subseteq Registers(source) \ spilled' /\ Registers(source) # {}
    BY <1>1, <1>2, <1>4, <1>7, DoneTimes DEF Shared, SpillInv
  <2>3. source # <<>>
    <3>1. ASSUME source = <<>> PROVE Registers(source) = {}
      <4>1. Flat(source) = <<>>
        BY <3>1 DEF Flat, FlattenSeq
      <4>2. Registers(source) = UNION {Uses(<<>>[p]) \cup ({<<>>[p].dst} \ {NoReg}) : p \in 1..0}
        BY <4>1 DEF Registers
      <4>3. 1..0 = {}
        OBVIOUS
      <4> QED
        BY <4>2, <4>3
    <3> QED
      BY <2>2, <3>1
  <2>4. Groups(<<>>, <<>>, code)' 
    <3>1. Len(code') \in Nat
      BY <1>1, <1>2, FlatList DEF code
    <3>2. IsList(<<>>) /\ Len(<<>>) = 0
      BY NoInstruction
    <3>3. \A p \in 1..0 : FALSE
      OBVIOUS
    <3>4. Upto(<<>>, 0 + 1) = 0
      BY DEF Upto
    <3> QED
      BY <3>1, <3>2, <3>3, <3>4 DEF Groups
  <2>5. Len(<<>>) < Len(code')
    <3>1. Len(code) \in Nat /\ code' = code
      BY <1>1, <1>2, FlatList DEF code
    <3>2. Len(code) # 0
      <4>1. ASSUME Len(code) = 0 PROVE Registers(source) = {}
        <5>1. 1..0 = {}
          OBVIOUS
        <5> QED
          BY <4>1, <5>1 DEF Registers, code
      <4> QED
        BY <2>2, <4>1
    <3> QED
      BY <3>1, <3>2
  <2>6. Placed'
    BY <1>1, <1>7, <2>1, <2>2, <2>3, <2>4, <2>5 DEF Placed
  <2> QED
    BY <1>1, <1>3, <1>5, <1>7, <2>6 DEF SpillInv, ApartInv, FreshApartUnlessStarved
<1> QED
  BY <1>6, <1>7

LEMMA RewriteApart ==
  ASSUME CodeInv, SpillInv, Rewrite
  PROVE  SpillInv'
<1>1. /\ stage = "rewrite" /\ UNCHANGED <<source, pool, asg, spilled, starved>>
      /\ out' = out \o Spills(code[Len(ends) + 1], Len(ends) + 1)
      /\ ends' = Append(ends, Len(out'))
      /\ IF Len(ends) + 1 = Len(code) THEN stage' = "intervals" /\ Recompute(Rebuilt(out', ends'))
                                      ELSE stage' = stage /\ UNCHANGED liveVars
  BY DEF Rewrite
<1>2. PICK p, s, u : p = Len(ends) + 1 /\ s = out' /\ u = ends'
  OBVIOUS
<1>3. Placed /\ IsMachine(source)
  BY <1>1 DEF SpillInv, ApartInv, CodeInv
<1>4. Len(code) \in Nat /\ Len(ends) \in Nat /\ p <= Len(code) /\ IsInstr(code[p])
  <2>1. Len(code) \in Nat /\ \A q \in 1..Len(code) : IsInstr(code[q])
    BY <1>3, FlatList DEF code
  <2>2. Len(ends) \in Nat /\ Len(ends) < Len(code)
    BY <1>3, ListFacts DEF Placed, Groups
  <2>3. p \in 1..Len(code)
    BY <1>2, <2>1, <2>2
  <2> QED
    BY <2>1, <2>2, <2>3
<1>5. Groups(s, u, code)
  BY <1>1, <1>2, <1>3, <1>4, GroupsNext DEF Placed
<1>6. Len(u) = p /\ u # <<>>
  <2>1. IsList(ends)
    BY <1>3 DEF Placed, Groups
  <2>2. Len(u) = Len(ends) + 1 /\ u # <<>>
    <3>1. u = Append(ends, Len(s))
      BY <1>1, <1>2
    <3> QED
      BY <2>1, <3>1, AppendList
  <2> QED
    BY <1>2, <2>2
<1>7. pool' \in Pools /\ \A v \in Registers(source') : Plain(v)
  BY <1>1 DEF SpillInv
<1>8. CASE p = Len(code)
  <2>1. stage' = "intervals" /\ mf' = Rebuilt(out', ends') /\ phase' = "scan"
    BY <1>1, <1>2, <1>8 DEF Recompute
  <2>2. GrowInv' /\ ListInv'
    BY <2>1 DEF GrowInv, ListInv
  <2>3. PICK m : m = mf'
    OBVIOUS
  <2>4. Rewritten(m, s, u)
    <3>1. IsMachine(m)
      BY <2>3, RewriteKeeps DEF CodeInv
    <3> QED
      BY <1>2, <1>3, <1>5, <1>6, <1>8, <2>1, <2>3, <3>1 DEF Rewritten, Placed
  <2>5. ApartIn(m, asg)
    BY <1>3, <2>4, ApartMoves DEF Placed, SpillInv
  <2>6. ApartIn(mf, asg)'
    BY <1>1, <2>3, <2>5
  <2>7. StageInv'
    BY <1>2, <1>6, <2>1 DEF StageInv
  <2>8. ApartInv'
    BY <2>1, <2>6 DEF ApartInv, FreshApartUnlessStarved
  <2> QED
    BY <1>7, <2>2, <2>7, <2>8 DEF SpillInv
<1>9. CASE p # Len(code)
  <2>1. stage' = "rewrite" /\ UNCHANGED liveVars
    BY <1>1, <1>2, <1>9
  <2>2. GrowInv' /\ ListInv'
    BY <2>1, StillGrown DEF SpillInv
  <2>3. Groups(out, ends, code)'
    <3>1. Groups(s, u, code)'
      <4>1. source' = source /\ spilled' = spilled
        BY <1>1
      <4>2. code' = code
        BY <4>1 DEF code
      <4>3. ASSUME NEW in, NEW n PROVE Spills(in, n)' = Spills(in, n)
        BY <4>1 DEF Spills, Reloads, Reloaded
      <4>4. ASSUME NEW q PROVE GroupAt(s, u, code, q)' <=> GroupAt(s, u, code, q)
        BY <4>1, <4>2, <4>3 DEF GroupAt
      <4> QED
        BY <1>5, <4>2, <4>4 DEF Groups
    <3>2. s = out' /\ u = ends'
      BY <1>2
    <3> QED
      BY <3>1, <3>2 DEF Groups, GroupAt
  <2>4. Len(ends') < Len(code')
    <3>1. code' = code
      BY <1>1 DEF code
    <3>2. Len(ends') = p /\ p < Len(code)
      BY <1>2, <1>4, <1>6, <1>9
    <3> QED
      BY <3>1, <3>2
  <2>5. Placed'
    BY <1>1, <1>3, <2>3, <2>4 DEF Placed
  <2>6. StageInv' /\ ApartInv'
    BY <2>1, <2>5 DEF StageInv, ApartInv, FreshApartUnlessStarved
  <2> QED
    BY <1>7, <2>2, <2>6 DEF SpillInv
<1> QED
  BY <1>8, <1>9

LEMMA ColorKeepsApart ==
  ASSUME SpillInv, Color
  PROVE  SpillInv'
<1>1. /\ stage = "color" /\ stage' \in {"color", "apply"}
      /\ UNCHANGED <<source, pool, liveVars, spilled, out, ends>>
  BY DEF Color
<1>2. /\ pool' \in Pools /\ \A v \in Registers(source') : Plain(v)
      /\ GrowInv' /\ ListInv' /\ phase' = phase /\ interval' = interval
  BY <1>1, StillGrown DEF SpillInv, liveVars
<1>3. starved' \/ (AsgApart' /\ (stage' = "apply" => DOMAIN interval \subseteq DOMAIN asg'))
  BY <1>1, ColorApart DEF SpillInv, ApartInv
<1>4. StageInv'
  BY <1>1, <1>2 DEF SpillInv, StageInv
<1>5. FreshApartUnlessStarved'
  BY <1>2, <1>3 DEF FreshApartUnlessStarved, AsgApart
<1>6. ApartInv'
  BY <1>1, <1>3, <1>5 DEF ApartInv
<1> QED
  BY <1>2, <1>4, <1>6 DEF SpillInv

LEMMA SpillStep == LowerInv /\ CodeInv /\ SpillInv /\ [Next]_vars => SpillInv'
<1> SUFFICES ASSUME LowerInv, CodeInv, SpillInv, [Next]_vars PROVE SpillInv'
  OBVIOUS
<1>1. ASSUME UNCHANGED <<source, pool, liveVars>>, stage' = "run" PROVE SpillInv'
  <2>1. GrowInv' /\ ListInv'
    BY <1>1, StillGrown DEF SpillInv
  <2>2. StageInv' /\ ApartInv'
    BY <1>1 DEF StageInv, ApartInv, FreshApartUnlessStarved
  <2>3. pool' \in Pools /\ \A v \in Registers(source') : Plain(v)
    BY <1>1 DEF SpillInv
  <2> QED
    BY <2>1, <2>2, <2>3 DEF SpillInv
<1>2. CASE RunLowered
  BY <1>2, ApartSame DEF RunLowered, spillVars
<1>3. CASE Generate
  <2>1. /\ stage' = "intervals" /\ source' = lowered /\ mf' = lowered /\ phase' = phase
        /\ stage = "lower" /\ lowered # <<>> /\ ends' = ends /\ pool' = pool
    BY <1>3 DEF Generate
  <2>2. f \in Functions /\ lowered = LowerFunction(f) /\ phase = "scan" /\ ends = <<>>
    BY <2>1 DEF LowerInv, CodeInv, SpillInv, StageInv
  <2>3. \A v \in Registers(lowered) : Plain(v)
    BY <2>2, FunctionsAssumption, LoweredPlain
  <2>4. GrowInv' /\ ListInv'
    BY <2>1, <2>2 DEF GrowInv, ListInv
  <2>5. StageInv' /\ ApartInv'
    BY <2>1, <2>2 DEF StageInv, ApartInv, FreshApartUnlessStarved
  <2> QED
    BY <2>1, <2>3, <2>4, <2>5 DEF SpillInv
<1>4. CASE Intervals
  BY <1>4, IntervalsApart
<1>5. CASE Allocate
  BY <1>5, AllocateApart
<1>6. CASE Rewrite
  BY <1>6, RewriteApart
<1>7. CASE Color
  BY <1>7, ColorKeepsApart
<1>8. CASE Apply
  BY <1>1, <1>8 DEF Apply
<1>9. CASE \E q \in 1..Len(code) : Run(q)
  <2>1. UNCHANGED <<source, pool, liveVars>> /\ stage' = "run"
    BY <1>9, Zenon DEF Run
  <2> QED
    BY <1>1, <2>1
<1>10. CASE SpillDone \/ UNCHANGED vars
  BY <1>10, ApartSame DEF SpillDone, vars, spillVars
<1> QED
  BY <1>2, <1>3, <1>4, <1>5, <1>6, <1>7, <1>8, <1>9, <1>10 DEF Next, BackEnd, SpillNext

(* Whatever is spilled, of whatever code: when no reload or store found    *)
(* every register occupied, registers whose intervals meet in the code     *)
(* that is renamed are apart, those of the first allocation too, although  *)
(* the intervals they were kept apart by are those of other code.          *)
THEOREM FreshApartUnlessStarvedAlways == Spec => []FreshApartUnlessStarved
<1>1. Init => CodeInv /\ SpillInv
  <2> SUFFICES ASSUME Init PROVE CodeInv /\ SpillInv
    OBVIOUS
  <2>1. /\ IsMachine(source) /\ mf = source /\ phase = "scan" /\ stage \in {"lower", "intervals"}
        /\ pool \in Pools /\ ends = <<>> /\ (stage = "lower" => source = <<>>)
        /\ \A v \in Registers(source) : Plain(v)
    <3>1. CASE InitLower
      <4>1. IsMachine(<<>>)
        BY NoInstruction DEF IsMachine
      <4>2. Registers(<<>>) = {}
        <5>1. Flat(<<>>) = <<>> /\ 1..0 = {}
          BY DEF Flat, FlattenSeq
        <5> QED
          BY <5>1 DEF Registers
      <4> QED
        BY <3>1, <4>1, <4>2 DEF InitLower
    <3>2. CASE InitBack
      BY <3>2, ProgramsAssumption DEF InitBack, SpillInit, Plain
    <3> QED
      BY <3>1, <3>2 DEF Init
  <2>2. CodeInv
    BY <2>1 DEF CodeInv, RewriteInv
  <2>3. GrowInv /\ ListInv
    BY <2>1 DEF GrowInv, ListInv
  <2>4. StageInv /\ ApartInv
    BY <2>1 DEF StageInv, ApartInv, FreshApartUnlessStarved
  <2> QED
    BY <2>1, <2>2, <2>3, <2>4 DEF SpillInv
<1>2. LowerInv /\ CodeInv /\ SpillInv /\ [Next]_vars => CodeInv' /\ SpillInv'
  BY CodeStep, SpillStep
<1>3. SpillInv => FreshApartUnlessStarved
  BY DEF SpillInv, ApartInv
<1> QED
  BY <1>1, <1>2, <1>3, LoweredOnce, PTL DEF Spec
=============================================================================
