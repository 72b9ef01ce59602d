--------------------------- MODULE GraphColorProofs --------------------------
(***************************************************************************)
(* Theorems about graph_color, for every set of virtual registers, every   *)
(* pool of physical registers and every choice of live intervals.          *)
(***************************************************************************)
EXTENDS GraphColor, FiniteSetTheorems, SequenceTheorems, DataLemmas, TLAPS

K == Cardinality(pool)

(* The nodes removed before the i-th of the stack.                         *)
Below(i) == {stack[j] : j \in 1..(i - 1)}

(* The stack lists the removed nodes, each once; they are undecided until  *)
(* they are popped.                                                        *)
StackInv ==
  /\ \A i, j \in 1..Len(stack) : i # j => stack[i] # stack[j]
  /\ phase = "simplify" => /\ work = VReg \ OnStack
                           /\ spilled = {}
                           /\ asg = [v \in VReg |-> None]
  /\ phase # "simplify" /\ pool # {} => work = {}
  /\ \A v \in OnStack : asg[v] = None
  /\ \A v \in OnStack : phase = "select" => v \notin spilled

(* What is off the stack after simplify has been decided.                  *)
Decided ==
  phase # "simplify" =>
    \A v \in VReg \ OnStack : asg[v] # None <=> v \notin spilled

(* An empty pool assigns nothing; otherwise done means an empty stack.     *)
PoolInv ==
  /\ pool = {} => phase \in {"simplify", "done"} /\ stack = <<>>
  /\ phase = "done" => stack = <<>>

(* A node that is not a potential spill had, among itself and the nodes    *)
(* removed after it, fewer than k neighbours.                              *)
LowWhenPushed ==
  \A i \in 1..Len(stack) :
    stack[i] \in potential \/ Degree(stack[i], VReg \ Below(i)) < K

IInv ==
  TypeOK /\ NoShare /\ OnlyPotentialSpill /\ StackInv /\ Decided /\ PoolInv
         /\ LowWhenPushed

-----------------------------------------------------------------------------
(* The pool is one of registers, and finite.                               *)
LEMMA PoolFacts ==
  ASSUME TypeOK
  PROVE  IsFiniteSet(pool) /\ None \notin pool /\ Cardinality(pool) \in Nat
<1>1. pool \subseteq PReg
  BY DEF TypeOK
<1> QED
  BY <1>1, PRegAssumption, FS_Subset, FS_CardinalityType

LEMMA PushFacts ==
  ASSUME stack \in Seq(VReg), NEW v \in VReg, stack' = Append(stack, v)
  PROVE  /\ stack' \in Seq(VReg) /\ Len(stack) \in Nat
         /\ Len(stack') = Len(stack) + 1
         /\ \A i \in 1..Len(stack) : stack'[i] = stack[i]
         /\ stack'[Len(stack')] = v
         /\ OnStack' = OnStack \cup {v}
<1>1. /\ stack' \in Seq(VReg) /\ Len(stack) \in Nat
      /\ Len(stack') = Len(stack) + 1
      /\ \A i \in 1..Len(stack) : stack'[i] = stack[i]
      /\ stack'[Len(stack')] = v
  OBVIOUS
<1>2. OnStack' = OnStack \cup {v}
  <2>1. \A x \in OnStack' : x \in OnStack \cup {v}
    BY <1>1 DEF OnStack
  <2>2. \A x \in OnStack : x \in OnStack'
    BY <1>1 DEF OnStack
  <2>3. v \in OnStack'
    BY <1>1 DEF OnStack
  <2> QED
    BY <2>1, <2>2, <2>3
<1> QED
  BY <1>1, <1>2

LEMMA PopFacts ==
  ASSUME stack \in Seq(VReg), stack # <<>>, Pop,
         \A i, j \in 1..Len(stack) : i # j => stack[i] # stack[j]
  PROVE  /\ stack' \in Seq(VReg) /\ Len(stack) \in Nat \ {0}
         /\ Len(stack') = Len(stack) - 1
         /\ \A i \in 1..Len(stack') : stack'[i] = stack[i]
         /\ Top \in VReg /\ Top \in OnStack
         /\ OnStack' = OnStack \ {Top}
<1>1. /\ stack' \in Seq(VReg) /\ Len(stack) \in Nat \ {0}
      /\ Len(stack') = Len(stack) - 1
      /\ \A i \in 1..Len(stack') : stack'[i] = stack[i]
  <2> DEFINE m == Len(stack) - 1
  <2>1. Len(stack) \in Nat \ {0} /\ m \in Nat
    BY EmptySeq
  <2>2. \A i \in 1..m : stack[i] \in VReg
    BY <2>1
  <2>3. stack' = SubSeq(stack, 1, m)
    BY DEF Pop
  <2>4. /\ SubSeq(stack, 1, m) \in Seq(VReg)
        /\ Len(SubSeq(stack, 1, m)) = IF 1 <= m THEN m - 1 + 1 ELSE 0
        /\ \A i \in 1..(m - 1 + 1) : SubSeq(stack, 1, m)[i] = stack[1 + i - 1]
    BY <2>1, <2>2, SubSeqProperties
  <2>5. Len(stack') = m
    <3> HIDE DEF m
    <3>1. CASE 1 <= m
      BY <2>1, <2>3, <2>4, <3>1
    <3>2. CASE m = 0
      BY <2>1, <2>3, <2>4, <3>2
    <3> QED
      BY <2>1, <3>1, <3>2
  <2>6. ASSUME NEW i \in 1..m PROVE stack'[i] = stack[i]
    <3>1. i \in 1..(m - 1 + 1) /\ 1 + i - 1 = i
      BY <2>1
    <3> QED
      BY <2>3, <2>4, <3>1
  <2> QED
    BY <2>1, <2>3, <2>4, <2>5, <2>6
<1>2. Top \in VReg /\ Top \in OnStack
  BY <1>1 DEF Top, OnStack
<1>3. OnStack' = OnStack \ {Top}
  <2>1. \A x \in OnStack' : x \in OnStack \ {Top}
    BY <1>1 DEF OnStack, Top
  <2>2. \A x \in OnStack \ {Top} : x \in OnStack'
    BY <1>1 DEF OnStack, Top
  <2> QED
    BY <2>1, <2>2
<1> QED
  BY <1>1, <1>2, <1>3

LEMMA InitIInv == Init => IInv
<1> SUFFICES ASSUME Init PROVE IInv
  OBVIOUS
<1>1. TypeOK /\ NoShare /\ OnlyPotentialSpill
  BY DEF Init, TypeOK, NoShare, OnlyPotentialSpill
<1>2. stack = <<>> /\ Len(stack) = 0 /\ OnStack = {}
  BY DEF Init, OnStack
<1>3. StackInv /\ Decided /\ PoolInv /\ LowWhenPushed
  BY <1>2 DEF Init, StackInv, Decided, PoolInv, LowWhenPushed
<1> QED
  BY <1>1, <1>3 DEF IInv

(* Both simplify steps push a node; only its own entry of LowWhenPushed is *)
(* new.                                                                    *)
LEMMA RemoveIInv ==
  ASSUME IInv, NEW v \in VReg, v \in work, phase = "simplify", pool # {}, RemoveNode(v),
         potential \subseteq potential', potential' \subseteq VReg,
         v \in potential' \/ Degree(v, work) < K
  PROVE  IInv'
<1>0. /\ stack' = Append(stack, v) /\ work' = work \ {v}
      /\ iv' = iv /\ pool' = pool /\ phase' = phase /\ asg' = asg /\ spilled' = spilled
      /\ work = VReg \ OnStack /\ v \notin OnStack
      /\ spilled = {} /\ asg = [w \in VReg |-> None]
  BY DEF RemoveNode, IInv, StackInv
<1>s. stack \in Seq(VReg)
  BY DEF IInv, TypeOK
<1>1. TypeOK' /\ NoShare' /\ OnlyPotentialSpill'
  BY <1>0, <1>s, PushFacts DEF IInv, TypeOK, NoShare, OnlyPotentialSpill
<1>2. StackInv'
  <2>1. \A i, j \in 1..Len(stack') : i # j => stack'[i] # stack'[j]
    <3>1. \A i \in 1..Len(stack) : stack'[i] # v
      BY <1>0, <1>s, PushFacts DEF OnStack
    <3>2. \A i \in 1..Len(stack') : i \in 1..Len(stack) \/ i = Len(stack')
      BY <1>0, <1>s, PushFacts
    <3> QED
      BY <1>0, <1>s, <3>1, <3>2, PushFacts DEF IInv, StackInv
  <2>2. work' = VReg \ OnStack'
    BY <1>0, <1>s, PushFacts
  <2>3. \A w \in OnStack' : asg'[w] = None
    BY <1>0, <1>s, PushFacts DEF IInv, StackInv
  <2> QED
    BY <2>1, <2>2, <2>3, <1>0 DEF StackInv
<1>3. Decided' /\ PoolInv'
  BY <1>0 DEF Decided, PoolInv
<1>4. LowWhenPushed'
  <2> SUFFICES ASSUME NEW i \in 1..Len(stack')
               PROVE  (stack[i] \in potential \/ Degree(stack[i], VReg \ Below(i)) < K)'
    BY DEF LowWhenPushed, K
  <2>1. Len(stack) \in Nat /\ Len(stack') = Len(stack) + 1
    BY <1>0, <1>s, PushFacts
  <2>2. Below(i)' = Below(i)
    BY <1>0, <1>s, <2>1, PushFacts DEF Below
  <2>4. CASE i \in 1..Len(stack)
    <3>1. stack'[i] = stack[i]
      BY <2>4, <1>0, <1>s, PushFacts
    <3>2. Degree(stack[i], VReg \ Below(i))' = Degree(stack[i], VReg \ Below(i))
      BY <3>1, <2>2, <1>0 DEF Degree, Neighbours, Overlaps
    <3>3. stack[i] \in potential \/ Degree(stack[i], VReg \ Below(i)) < K
      BY <2>4 DEF IInv, LowWhenPushed
    <3>4. K' = K
      BY <1>0 DEF K
    <3> QED
      BY <3>1, <3>2, <3>3, <3>4
  <2>5. CASE i = Len(stack')
    <3>1. Below(i) = OnStack
      BY <2>1, <2>5 DEF Below, OnStack
    <3>2. stack'[i] = v
      BY <1>0, <1>s, <2>5, PushFacts
    <3>3. Degree(stack[i], VReg \ Below(i))' = Degree(v, work)
      BY <3>1, <3>2, <2>2, <1>0 DEF Degree, Neighbours, Overlaps
    <3> QED
      BY <3>2, <3>3, <1>0 DEF K
  <2> QED
    BY <2>1, <2>4, <2>5
<1> QED
  BY <1>1, <1>2, <1>3, <1>4 DEF IInv

(* The colours of the neighbours of a node that was low when pushed cannot *)
(* exhaust the pool.                                                       *)
LEMMA LowFindsColour ==
  ASSUME IInv, phase = "select", stack # <<>>, pool \subseteq Forbidden(Top)
  PROVE  Top \in potential
<1> DEFINE n == Len(stack)
           N == Neighbours(Top, VReg \ Below(n))
           C == {u \in N : asg[u] \in pool}
           f == [u \in C |-> asg[u]]
<1>1. stack \in Seq(VReg) /\ n \in Nat \ {0} /\ Top = stack[n]
  BY DEF IInv, TypeOK, Top
<1>2. \A u \in VReg : asg[u] # None => u \notin Below(n)
  <2>1. Below(n) \subseteq OnStack
    BY <1>1 DEF Below, OnStack
  <2> QED
    BY <2>1 DEF IInv, StackInv
<1>3. f \in Surjection(C, pool)
  <2>1. f \in [C -> pool]
    OBVIOUS
  <2>2. \A r \in pool : \E u \in C : f[u] = r
    <3> SUFFICES ASSUME NEW r \in pool PROVE \E u \in C : asg[u] = r
      OBVIOUS
    <3>1. PICK u \in Neighbours(Top, VReg) : asg[u] = r
      BY DEF Forbidden
    <3>2. u \in VReg /\ asg[u] # None
      BY <3>1, PoolFacts DEF Neighbours, IInv
    <3>3. u \in N
      BY <3>1, <3>2, <1>2 DEF Neighbours
    <3> QED
      BY <3>1, <3>3
  <2> QED
    BY <2>1, <2>2 DEF Surjection
<1>4. IsFiniteSet(N) /\ IsFiniteSet(C)
  <2>1. N \subseteq VReg /\ C \subseteq VReg
    BY DEF Neighbours
  <2> QED
    BY <2>1, VRegAssumption, FS_Subset
<1>5. Cardinality(C) <= Cardinality(N)
  BY <1>4, FS_Subset
<1>6. Cardinality(pool) <= Cardinality(C)
  BY <1>3, <1>4, FS_Surjection
<1>7. Cardinality(pool) \in Nat /\ Cardinality(C) \in Nat /\ Cardinality(N) \in Nat
  BY <1>4, PoolFacts, FS_CardinalityType DEF IInv
<1>8. ~(Degree(Top, VReg \ Below(n)) < K)
  BY <1>5, <1>6, <1>7 DEF Degree, K
<1>9. n \in 1..Len(stack) /\ ~(Degree(stack[n], VReg \ Below(n)) < K)
  BY <1>1, <1>8
<1> HIDE DEF n
<1> QED
  BY <1>1, <1>9 DEF IInv, LowWhenPushed

(* What both select steps have in common.                                  *)
LEMMA PopIInv ==
  ASSUME IInv, phase = "select", stack # <<>>, Pop,
         UNCHANGED <<iv, pool, phase, work, potential>>
  PROVE  /\ \A i, j \in 1..Len(stack') : i # j => stack'[i] # stack'[j]
         /\ LowWhenPushed' /\ PoolInv' /\ pool # {}
<1>s. /\ stack \in Seq(VReg)
      /\ \A i, j \in 1..Len(stack) : i # j => stack[i] # stack[j]
  BY DEF IInv, TypeOK, StackInv
<1>0. /\ Len(stack) \in Nat \ {0} /\ Len(stack') = Len(stack) - 1
      /\ \A i \in 1..Len(stack') : stack'[i] = stack[i]
  BY <1>s, PopFacts
<1>1. \A i, j \in 1..Len(stack') : i # j => stack'[i] # stack'[j]
  BY <1>s, <1>0
<1>2. LowWhenPushed'
  <2> SUFFICES ASSUME NEW i \in 1..Len(stack')
               PROVE  (stack[i] \in potential \/ Degree(stack[i], VReg \ Below(i)) < K)'
    BY DEF LowWhenPushed, K
  <2>1. Below(i)' = Below(i)
    BY <1>0 DEF Below
  <2>2. Degree(stack[i], VReg \ Below(i))' = Degree(stack[i], VReg \ Below(i))
    BY <2>1, <1>0 DEF Degree, Neighbours, Overlaps
  <2>3. i \in 1..Len(stack) /\ stack'[i] = stack[i] /\ potential' = potential
    BY <1>0
  <2>4. stack[i] \in potential \/ Degree(stack[i], VReg \ Below(i)) < K
    BY <2>3 DEF IInv, LowWhenPushed
  <2>5. (stack[i] \in potential)' <=> stack[i] \in potential
    BY <2>3
  <2>6. K' = K
    BY DEF K
  <2> QED
    BY <2>2, <2>4, <2>5, <2>6
<1>3. PoolInv' /\ pool # {}
  BY DEF IInv, PoolInv
<1> QED
  BY <1>1, <1>2, <1>3

LEMMA SelectAssignIInv ==
  ASSUME IInv, SelectAssign
  PROVE  IInv'
<1>0. /\ phase = "select" /\ stack # <<>> /\ Pop
      /\ UNCHANGED <<iv, pool, phase, work, potential, spilled>>
  BY DEF SelectAssign
<1>r. PICK r \in pool \ Forbidden(Top) : asg' = [asg EXCEPT ![Top] = r]
  BY DEF SelectAssign
<1>t. /\ Top \in VReg /\ Top \in OnStack /\ OnStack' = OnStack \ {Top}
      /\ stack' \in Seq(VReg)
  BY <1>0, PopFacts DEF IInv, TypeOK, StackInv
<1>v. OnStack \subseteq VReg
  BY DEF OnStack, IInv, TypeOK
<1>a. /\ asg'[Top] = r /\ r # None /\ asg[Top] = None /\ Top \notin spilled
      /\ \A u \in VReg : u # Top => asg'[u] = asg[u]
  BY <1>0, <1>r, <1>t, PoolFacts DEF IInv, TypeOK, StackInv
<1>1. TypeOK' /\ OnlyPotentialSpill'
  BY <1>0, <1>r, <1>t DEF IInv, TypeOK, OnlyPotentialSpill
<1>2. NoShare'
  <2>1. \A u \in VReg : u # Top /\ asg[u] = r
          => ~Overlaps(iv[u], iv[Top]) /\ ~Overlaps(iv[Top], iv[u])
    BY <1>r, <1>a DEF Forbidden, Neighbours, Overlaps
  <2> QED
    BY <2>1, <1>0, <1>a, <1>t DEF IInv, NoShare
<1>3. StackInv'
  <2>1. \A w \in OnStack' : asg'[w] = None /\ w \notin spilled'
    BY <1>0, <1>a, <1>t, <1>v DEF IInv, StackInv
  <2> QED
    BY <2>1, <1>0, PopIInv DEF IInv, StackInv
<1>4. Decided'
  BY <1>0, <1>a, <1>t DEF IInv, Decided
<1> QED
  BY <1>0, <1>1, <1>2, <1>3, <1>4, PopIInv DEF IInv

LEMMA SelectSpillIInv ==
  ASSUME IInv, SelectSpill
  PROVE  IInv'
<1>0. /\ phase = "select" /\ stack # <<>> /\ Pop
      /\ pool \subseteq Forbidden(Top) /\ spilled' = spilled \cup {Top}
      /\ UNCHANGED <<iv, pool, phase, work, potential, asg>>
  BY DEF SelectSpill
<1>t. /\ Top \in VReg /\ Top \in OnStack /\ OnStack' = OnStack \ {Top}
      /\ stack' \in Seq(VReg) /\ asg[Top] = None
  BY <1>0, PopFacts DEF IInv, TypeOK, StackInv
<1>1. TypeOK' /\ NoShare'
  BY <1>0, <1>t DEF IInv, TypeOK, NoShare
<1>2. OnlyPotentialSpill'
  BY <1>0, LowFindsColour DEF IInv, OnlyPotentialSpill
<1>3. StackInv'
  BY <1>0, <1>t, PopIInv DEF IInv, StackInv
<1>4. Decided'
  BY <1>0, <1>t DEF IInv, Decided
<1> QED
  BY <1>0, <1>1, <1>2, <1>3, <1>4, PopIInv DEF IInv

LEMMA FinishIInv ==
  ASSUME IInv, Finish
  PROVE  IInv' /\ spilled' = spilled
<1>0. /\ phase = "select" /\ stack = <<>> /\ phase' = "done"
      /\ spilled' = spilled \cup {v \in potential : asg[v] = None}
      /\ UNCHANGED <<iv, pool, work, stack, potential, asg>>
  BY DEF Finish
<1>1. OnStack = {} /\ OnStack' = {}
  BY <1>0 DEF OnStack
<1>2. spilled' = spilled
  BY <1>0, <1>1 DEF IInv, TypeOK, Decided
<1>3. TypeOK' /\ NoShare' /\ OnlyPotentialSpill'
  BY <1>0, <1>2 DEF IInv, TypeOK, NoShare, OnlyPotentialSpill
<1>4. StackInv' /\ Decided' /\ PoolInv'
  BY <1>0, <1>1, <1>2 DEF IInv, StackInv, Decided, PoolInv
<1>5. LowWhenPushed'
  BY <1>0 DEF LowWhenPushed
<1> QED
  BY <1>2, <1>3, <1>4, <1>5 DEF IInv

LEMMA NextIInv == IInv /\ [Next]_vars => IInv'
<1> SUFFICES ASSUME IInv, [Next]_vars PROVE IInv'
  OBVIOUS
<1>1. ASSUME NEW v \in VReg, SimplifyLow(v) PROVE IInv'
  <2>1. v \in work /\ Degree(v, work) < K
    BY <1>1 DEF SimplifyLow, LowDegree, K
  <2> QED
    BY <1>1, <2>1, RemoveIInv DEF SimplifyLow, IInv, TypeOK
<1>2. ASSUME NEW v \in VReg, SimplifySpill(v) PROVE IInv'
  BY <1>2, RemoveIInv DEF SimplifySpill, IInv, TypeOK
<1>3. CASE StartSelect
  <2>1. TypeOK' /\ NoShare' /\ OnlyPotentialSpill'
    BY <1>3 DEF StartSelect, IInv, TypeOK, NoShare, OnlyPotentialSpill
  <2>2. OnStack' = OnStack /\ VReg \subseteq OnStack
    BY <1>3 DEF StartSelect, OnStack, IInv, StackInv
  <2>3. StackInv' /\ Decided' /\ PoolInv'
    BY <1>3, <2>2 DEF StartSelect, IInv, StackInv, Decided, PoolInv
  <2>4. LowWhenPushed'
    BY <1>3 DEF StartSelect, IInv, LowWhenPushed, Degree, Neighbours, Overlaps, Below, K
  <2> QED
    BY <2>1, <2>3, <2>4 DEF IInv
<1>4. CASE SelectAssign
  BY <1>4, SelectAssignIInv
<1>5. CASE SelectSpill
  BY <1>5, SelectSpillIInv
<1>6. CASE Finish
  BY <1>6, FinishIInv
<1>7. CASE SpillAll
  <2>1. TypeOK' /\ NoShare' /\ OnlyPotentialSpill'
    BY <1>7 DEF SpillAll, IInv, TypeOK, NoShare, OnlyPotentialSpill
  <2>2. stack = <<>> /\ stack' = <<>> /\ OnStack' = {}
    BY <1>7 DEF SpillAll, IInv, PoolInv, OnStack
  <2>3. StackInv' /\ Decided' /\ PoolInv' /\ LowWhenPushed'
    BY <1>7, <2>2 DEF SpillAll, IInv, StackInv, Decided, PoolInv, LowWhenPushed
  <2> QED
    BY <2>1, <2>3 DEF IInv
<1>8. CASE UNCHANGED vars
  BY <1>8 DEF vars, IInv, TypeOK, NoShare, OnlyPotentialSpill, StackInv, Decided,
              PoolInv, LowWhenPushed, OnStack, Below, Degree, Neighbours, Overlaps, K
<1> QED
  BY <1>1, <1>2, <1>3, <1>4, <1>5, <1>6, <1>7, <1>8 DEF Next, Done

(* IInv: what simplify and select maintain together holds throughout       *)
(* graph_color.                                                            *)
THEOREM IInvariance == Spec => []IInv
<1> QED
  BY InitIInv, NextIInv, PTL DEF Spec

(* TypeOK: the work graph, the stack and the sets graph_color returns      *)
(* range over the function's registers, and colours are those of the pool. *)
THEOREM TypeCorrect == Spec => []TypeOK
<1>1. IInv => TypeOK
  BY DEF IInv
<1> QED
  BY <1>1, IInvariance, PTL

(* NoShare: graph_color never gives one physical register to two virtual   *)
(* registers whose live intervals overlap.                                 *)
THEOREM NeverShares == Spec => []NoShare
<1>1. IInv => NoShare
  BY DEF IInv
<1> QED
  BY <1>1, IInvariance, PTL

(* OnlyPotentialSpill: a node removed with degree below k finds a register *)
(* when it is popped, so only potential spills are spilled.                *)
THEOREM LowDegreeIsColoured == Spec => []OnlyPotentialSpill
<1>1. IInv => OnlyPotentialSpill
  BY DEF IInv
<1> QED
  BY <1>1, IInvariance, PTL

(* Complete: when graph_color returns, every interval is either assigned   *)
(* or spilled.                                                             *)
THEOREM EveryFate == Spec => []Complete
<1>1. IInv => Complete
  BY DEF IInv, Complete, Decided, PoolInv, OnStack
<1> QED
  BY <1>1, IInvariance, PTL

(* KeepsPromise: graph_color implements the abstract allocator RegAssign:  *)
(* a popped node is placed or spilled, and simplify decides nothing.       *)
THEOREM ImplementsPromise == Spec => KeepsPromise
<1>1. Init => Promise!Init
  BY DEF Init, Promise!Init, LiveInterval, Promise!LiveInterval
<1>2. ASSUME IInv, [Next]_vars PROVE [Promise!Next]_(Promise!vars)
  <2>1. ASSUME NEW v \in VReg, SimplifyLow(v) \/ SimplifySpill(v)
        PROVE  UNCHANGED Promise!vars
    BY <2>1 DEF SimplifyLow, SimplifySpill, RemoveNode, Promise!vars
  <2>2. CASE StartSelect
    BY <2>2 DEF StartSelect, Promise!vars
  <2>3. ASSUME phase = "select", stack # <<>>, Pop
        PROVE  Top \in VReg /\ Top \in Promise!Undecided
    <3>1. Top \in VReg /\ Top \in OnStack
      BY <1>2, <2>3, PopFacts DEF IInv, TypeOK, StackInv
    <3> QED
      BY <1>2, <2>3, <3>1 DEF IInv, StackInv, Promise!Undecided
  <2>4. CASE SelectAssign
    <3>1. PICK r \in pool \ Forbidden(Top) : asg' = [asg EXCEPT ![Top] = r]
      BY <2>4 DEF SelectAssign
    <3>2. Top \in VReg /\ Top \in Promise!Undecided
      BY <2>3, <2>4 DEF SelectAssign
    <3>3. Promise!Compatible(Top, r, {})
      BY <1>2, <3>1, PoolFacts
         DEF IInv, Promise!Compatible, Promise!Overlaps, Forbidden, Neighbours, Overlaps
    <3>4. Promise!Place(Top, r)
      BY <2>4, <3>1, <3>2, <3>3 DEF SelectAssign, Promise!Place
    <3> QED
      BY <3>2, <3>4 DEF Promise!Next
  <2>5. CASE SelectSpill
    <3>1. Top \in VReg /\ Top \in Promise!Undecided
      BY <2>3, <2>5 DEF SelectSpill
    <3>2. Promise!Spill(Top)
      BY <2>5, <3>1 DEF SelectSpill, Promise!Spill
    <3> QED
      BY <3>1, <3>2 DEF Promise!Next
  <2>6. CASE Finish
    BY <1>2, <2>6, FinishIInv DEF Finish, Promise!vars
  <2>7. CASE SpillAll
    BY <2>7 DEF SpillAll, Promise!SpillAll, Promise!Next
  <2>8. CASE UNCHANGED vars
    BY <2>8 DEF vars, Promise!vars
  <2> QED
    BY <1>2, <2>1, <2>2, <2>4, <2>5, <2>6, <2>7, <2>8 DEF Next, Done
<1> QED
  BY <1>1, <1>2, IInvariance, PTL DEF Spec, KeepsPromise, Promise!Spec

-----------------------------------------------------------------------------
Pressed == \E p \in 0..MaxPos : Pressure(iv, p) > Cardinality(pool)

(* Of the nodes left, take one whose interval ends first: every neighbour  *)
(* contains its last position, so a degree of k means a pressure above k.  *)
LEMMA NoLowDegreePressed ==
  ASSUME TypeOK, work # {}, LowDegree(work) = {}
  PROVE  Pressed
<1>0. /\ MaxPos \in Nat
      /\ \A u \in VReg : /\ iv[u].start \in Nat /\ iv[u].end \in 0..MaxPos
                          /\ iv[u].start < iv[u].end
  BY MaxPosAssumption DEF TypeOK, LiveInterval
<1> DEFINE S == {iv[u].end : u \in work}
<1>1. S \subseteq Nat /\ S # {}
  BY <1>0 DEF TypeOK
<1>2. \E m \in S : \A n \in S : m <= n
  <2> HIDE DEF S
  <2> QED
    BY <1>1, LeastNatural
<1>3. PICK u \in work : \A w \in work : iv[u].end <= iv[w].end
  BY <1>2
<1> DEFINE p == iv[u].end - 1
           L == {v \in VReg : iv[v].start <= p /\ p < iv[v].end}
           N == Neighbours(u, work)
<1>4. u \in VReg /\ work \subseteq VReg
  BY DEF TypeOK
<1>5. p \in 0..MaxPos
  BY <1>0, <1>4
<1>6. N \cup {u} \subseteq L
  <2>1. u \in L
    BY <1>0, <1>4
  <2>2. ASSUME NEW w \in N PROVE w \in L
    <3>1. w \in work /\ w \in VReg /\ iv[w].start < iv[u].end /\ iv[u].end <= iv[w].end
      BY <2>2, <1>3, <1>4 DEF Neighbours, Overlaps
    <3> QED
      BY <3>1, <1>0, <1>4
  <2> QED
    BY <2>1, <2>2
<1>7. IsFiniteSet(N) /\ IsFiniteSet(L) /\ u \notin N
  <2>1. N \subseteq VReg /\ L \subseteq VReg /\ u \notin N
    BY <1>4 DEF Neighbours
  <2> QED
    BY <2>1, VRegAssumption, FS_Subset
<1>8. ~(Cardinality(N) < Cardinality(pool))
  BY <1>3 DEF LowDegree, Degree
<1>9. Cardinality(N \cup {u}) = Cardinality(N) + 1 /\ IsFiniteSet(N \cup {u})
  BY <1>7, FS_AddElement
<1>10. Cardinality(N \cup {u}) <= Cardinality(L)
  BY <1>6, <1>7, FS_Subset
<1>11. Cardinality(N) \in Nat /\ Cardinality(L) \in Nat /\ Cardinality(pool) \in Nat
  BY <1>7, PoolFacts, FS_CardinalityType
<1>12. Pressure(iv, p) = Cardinality(L)
  BY DEF Pressure
<1> HIDE DEF p, L, N
<1>13. Pressure(iv, p) > Cardinality(pool)
  BY <1>8, <1>9, <1>10, <1>11, <1>12
<1> QED
  BY <1>5, <1>13 DEF Pressed

(* Nothing is a potential spill but under pressure.                        *)
PotentialPressed == potential # {} => Pressed

LEMMA NextPotentialPressed ==
  ASSUME IInv, PotentialPressed, [Next]_vars
  PROVE  PotentialPressed'
<1>1. CASE \E v \in VReg : SimplifySpill(v)
  <2>1. Pressed
    BY <1>1, NoLowDegreePressed DEF IInv, SimplifySpill
  <2>2. UNCHANGED <<iv, pool>>
    BY <1>1 DEF SimplifySpill, RemoveNode
  <2> QED
    BY <2>1, <2>2 DEF PotentialPressed, Pressed, Pressure
<1>2. CASE ~\E v \in VReg : SimplifySpill(v)
  <2>1. UNCHANGED <<iv, pool, potential>>
    BY <1>2 DEF Next, vars, SimplifyLow, RemoveNode, StartSelect, SelectAssign, SelectSpill,
                Finish, SpillAll, Done
  <2> QED
    BY <2>1 DEF PotentialPressed, Pressed, Pressure
<1> QED
  BY <1>1, <1>2

(* The empty pool: whatever is live presses.                               *)
LEMMA EmptyPoolPressed ==
  ASSUME TypeOK, pool = {}, spilled # {}
  PROVE  Pressed
<1>1. PICK v \in VReg : v \in spilled
  BY DEF TypeOK
<1> DEFINE p == iv[v].start
           L == {u \in VReg : iv[u].start <= p /\ p < iv[u].end}
<1>2. p \in 0..MaxPos /\ v \in L
  BY <1>1, MaxPosAssumption DEF TypeOK, LiveInterval
<1>3. IsFiniteSet(L)
  BY VRegAssumption, FS_Subset
<1>4. Cardinality(L) \in Nat /\ Cardinality(L) # 0 /\ Cardinality(pool) = 0
  BY <1>2, <1>3, FS_CardinalityType, FS_EmptySet
<1>5. Pressure(iv, p) = Cardinality(L)
  BY DEF Pressure
<1> HIDE DEF p, L
<1> QED
  BY <1>2, <1>4, <1>5 DEF Pressed

(* SpillNeedsPressure: graph_color spills only if at some position more    *)
(* intervals are live than there are registers.                            *)
THEOREM SpillsOnlyUnderPressure == Spec => []SpillNeedsPressure
<1>1. Init => PotentialPressed
  BY DEF Init, PotentialPressed
<1>2. IInv /\ PotentialPressed /\ [Next]_vars => PotentialPressed'
  BY NextPotentialPressed
<1>3. IInv /\ PotentialPressed => SpillNeedsPressure
  <2> SUFFICES ASSUME IInv, PotentialPressed, spilled # {} PROVE Pressed
    BY DEF SpillNeedsPressure, Pressed
  <2>1. CASE pool = {}
    BY <2>1, EmptyPoolPressed DEF IInv
  <2>2. CASE pool # {}
    BY <2>2 DEF IInv, OnlyPotentialSpill, PotentialPressed
  <2> QED
    BY <2>1, <2>2
<1> QED
  BY <1>1, <1>2, <1>3, IInvariance, PTL DEF Spec
=============================================================================
