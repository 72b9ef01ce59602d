--------------------------- MODULE LinearScanProofs --------------------------
(***************************************************************************)
(* Theorems about linear_scan, for every set of virtual registers, every   *)
(* pool of physical registers and every choice of live intervals.          *)
(***************************************************************************)
EXTENDS LinearScan, FiniteSetTheorems, DataLemmas, TLAPS

(* What the loop maintains: the active intervals own their registers, the  *)
(* free registers are owned by none, the visited intervals come before the *)
(* waiting ones, and a register that has been given back belonged to an    *)
(* interval that ends before every waiting one starts.                     *)
ActiveOwns ==
  /\ \A u \in active : u \notin todo /\ asg[u] # None /\ asg[u] \notin free
  /\ \A u, w \in active : u # w => asg[u] # asg[w]

ScanOrder == \A u \in VReg \ todo, v \in todo : iv[u].start <= iv[v].start

GivenBack ==
  \A u \in VReg \ (todo \cup active), v \in todo :
    asg[u] # None => iv[u].end <= iv[v].start

(* No register is lost: each is free or owned by an active interval.       *)
NoneLost == \A r \in pool : r \in free \/ \E u \in active : asg[u] = r

IInv ==
  TypeOK /\ OneFate /\ NoShare /\ ActiveOwns /\ ScanOrder /\ GivenBack /\ NoneLost

-----------------------------------------------------------------------------
(* The pool is one of registers, and finite.                               *)
LEMMA PoolFacts ==
  ASSUME TypeOK
  PROVE  IsFiniteSet(pool) /\ None \notin pool /\ Cardinality(pool) \in Nat
<1>1. pool \subseteq PReg
  BY DEF TypeOK
<1> QED
  BY <1>1, PRegAssumption, FS_Subset, FS_CardinalityType

(* The lists left by the expiry at the head of an iteration.               *)
LEMMA ExpiryFacts ==
  ASSUME IInv, NEW v \in VReg, IsNext(v)
  PROVE  /\ asg[v] = None /\ v \notin spilled /\ v \notin active
         /\ LiveAt(v) \subseteq active
         /\ FreeAt(v) \subseteq pool
         /\ \A u \in LiveAt(v) : asg[u] \in pool /\ asg[u] \notin FreeAt(v)
         /\ \A u \in LiveAt(v) : iv[u].start <= iv[v].start /\ iv[v].start < iv[u].end
         /\ \A r \in pool : r \in FreeAt(v) \/ \E u \in LiveAt(v) : asg[u] = r
         /\ \A w \in todo : iv[v].start <= iv[w].start
<1> USE DEF IInv, TypeOK, OneFate, ActiveOwns, ScanOrder, NoneLost, IsNext,
            LiveAt, FreeAt, Expired, LiveInterval
<1> USE VRegAssumption, PRegAssumption, MaxPosAssumption
<1>1. asg[v] = None /\ v \notin spilled /\ v \notin active
  OBVIOUS
<1>2. LiveAt(v) \subseteq active
  OBVIOUS
<1>3. FreeAt(v) \subseteq pool
  OBVIOUS
<1>4. \A u \in LiveAt(v) : asg[u] \in pool /\ asg[u] \notin FreeAt(v)
  OBVIOUS
<1>5. \A u \in LiveAt(v) : iv[u].start <= iv[v].start /\ iv[v].start < iv[u].end
  OBVIOUS
<1>6. \A r \in pool : r \in FreeAt(v) \/ \E u \in LiveAt(v) : asg[u] = r
  OBVIOUS
<1>7. \A w \in todo : iv[v].start <= iv[w].start
  BY DEF StartsBefore
<1> QED
  BY <1>1, <1>2, <1>3, <1>4, <1>5, <1>6, <1>7

(* A register in FreeAt(v) is held by no interval that overlaps v's.       *)
LEMMA FreeIsCompatible ==
  ASSUME IInv, NEW v \in VReg, IsNext(v), NEW r \in FreeAt(v),
         NEW u \in VReg, u # v, asg[u] = r
  PROVE  ~Overlaps(iv[u], iv[v])
<1> USE VRegAssumption, PRegAssumption, MaxPosAssumption
<1>1. r # None /\ u \notin todo
  BY PoolFacts, ExpiryFacts DEF IInv, OneFate
<1>2. CASE u \in active
  <2>1. u \in Expired(v)
    BY <1>2, ExpiryFacts DEF LiveAt
  <2> QED
    BY <2>1 DEF Expired, Overlaps, IInv, TypeOK, LiveInterval
<1>3. CASE u \notin active
  <2>1. iv[u].end <= iv[v].start
    BY <1>1, <1>3 DEF IInv, GivenBack, IsNext
  <2> QED
    BY <2>1 DEF Overlaps, IInv, TypeOK, LiveInterval
<1> QED
  BY <1>2, <1>3

-----------------------------------------------------------------------------
LEMMA InitIInv == Init => IInv
<1> USE VRegAssumption, PRegAssumption, MaxPosAssumption
<1> SUFFICES ASSUME Init PROVE IInv
  OBVIOUS
<1>1. TypeOK
  BY DEF Init, TypeOK
<1>2. OneFate /\ NoShare
  BY DEF Init, OneFate, NoShare
<1>3. ActiveOwns /\ ScanOrder /\ GivenBack /\ NoneLost
  BY DEF Init, ActiveOwns, ScanOrder, GivenBack, NoneLost
<1> QED
  BY <1>1, <1>2, <1>3 DEF IInv

(* A free register is taken.                                               *)
LEMMA AssignIInv ==
  ASSUME IInv, NEW v \in VReg, Assign(v)
  PROVE  IInv'
<1> USE VRegAssumption, PRegAssumption, MaxPosAssumption
<1>0. PICK r \in FreeAt(v) : asg' = [asg EXCEPT ![v] = r] /\ free' = FreeAt(v) \ {r}
  BY DEF Assign
<1>n. IsNext(v) /\ active' = LiveAt(v) \cup {v} /\ todo' = todo \ {v}
      /\ iv' = iv /\ pool' = pool /\ spilled' = spilled
  BY DEF Assign
<1>e. r \in pool /\ r # None /\ asg[v] = None /\ v \in todo
  BY <1>n, ExpiryFacts, PoolFacts DEF IsNext, IInv
<1>a. /\ asg'[v] = r
      /\ \A u \in VReg : u # v => asg'[u] = asg[u]
  BY <1>0 DEF IInv, TypeOK
<1>1. TypeOK'
  BY <1>0, <1>n, <1>e, ExpiryFacts DEF IInv, TypeOK
<1>2. OneFate'
  BY <1>n, <1>e, <1>a DEF IInv, OneFate
<1>3. NoShare'
  <2> SUFFICES ASSUME NEW u \in VReg, NEW w \in VReg, u # w,
                      asg'[u] # None, asg'[u] = asg'[w]
               PROVE  ~Overlaps(iv[u], iv[w])
    BY <1>n DEF NoShare
  <2>1. CASE u = v
    BY <2>1, <1>n, <1>a, FreeIsCompatible DEF Overlaps
  <2>2. CASE w = v
    BY <2>2, <1>n, <1>a, FreeIsCompatible DEF Overlaps
  <2>3. CASE u # v /\ w # v
    BY <2>3, <1>a DEF IInv, NoShare
  <2> QED
    BY <2>1, <2>2, <2>3
<1>4. ActiveOwns'
  <2>1. \A u \in LiveAt(v) : /\ u \in VReg /\ u # v /\ u \notin todo /\ u \in active
                           /\ asg[u] # None /\ asg[u] \notin FreeAt(v)
    BY <1>n, <1>e, ExpiryFacts DEF IInv, ActiveOwns, TypeOK
  <2>2. \A u \in active' : u \notin todo' /\ asg'[u] # None /\ asg'[u] \notin free'
    BY <2>1, <1>0, <1>n, <1>e, <1>a
  <2>3. \A u, w \in active' : u # w => asg'[u] # asg'[w]
    BY <2>1, <1>n, <1>a DEF IInv, ActiveOwns
  <2> QED
    BY <2>2, <2>3 DEF ActiveOwns
<1>5. ScanOrder'
  BY <1>n, ExpiryFacts DEF IInv, ScanOrder
<1>6. GivenBack'
  <2> SUFFICES ASSUME NEW u \in VReg \ (todo' \cup active'), NEW w \in todo',
                      asg'[u] # None
               PROVE  iv[u].end <= iv[w].start
    BY <1>n DEF GivenBack
  <2>1. u # v /\ u \notin todo /\ asg[u] # None /\ w \in todo
    BY <1>n, <1>a
  <2>2. CASE u \in active
    <3>1. iv[u].end <= iv[v].start
      BY <2>1, <2>2, <1>n DEF LiveAt, Expired
    <3> QED
      BY <3>1, <2>1, <1>n, ExpiryFacts DEF IInv, TypeOK, LiveInterval
  <2>3. CASE u \notin active
    BY <2>1, <2>3 DEF IInv, GivenBack
  <2> QED
    BY <2>2, <2>3
<1>7. NoneLost'
  <2> SUFFICES ASSUME NEW q \in pool PROVE q \in free' \/ \E u \in active' : asg'[u] = q
    BY <1>n DEF NoneLost
  <2>1. CASE q = r
    BY <2>1, <1>n, <1>a
  <2>2. CASE q # r /\ q \in FreeAt(v)
    BY <2>2, <1>0
  <2>3. CASE q # r /\ q \notin FreeAt(v)
    <3>1. PICK u \in LiveAt(v) : asg[u] = q
      BY <2>3, <1>n, ExpiryFacts
    <3>2. u # v /\ u \in VReg
      BY <1>n, ExpiryFacts DEF IInv, TypeOK
    <3> QED
      BY <3>1, <3>2, <1>n, <1>a
  <2> QED
    BY <2>1, <2>2, <2>3
<1> QED
  BY <1>1, <1>2, <1>3, <1>4, <1>5, <1>6, <1>7 DEF IInv

(* The furthest active interval is spilled and hands its register over.    *)
LEMMA SpillActiveIInv ==
  ASSUME IInv, NEW v \in VReg, SpillActive(v)
  PROVE  IInv'
<1> USE VRegAssumption, PRegAssumption, MaxPosAssumption
<1>0. PICK u \in LiveAt(v) :
        /\ active' = (LiveAt(v) \ {u}) \cup {v}
        /\ asg' = [asg EXCEPT ![u] = None, ![v] = asg[u]]
        /\ spilled' = spilled \cup {u}
  BY DEF SpillActive
<1>n. IsNext(v) /\ FreeAt(v) = {} /\ free' = {} /\ todo' = todo \ {v}
      /\ iv' = iv /\ pool' = pool
  BY DEF SpillActive
<1>e. asg[v] = None /\ v \in todo /\ v \notin active /\ v \notin spilled
  BY <1>n, ExpiryFacts DEF IsNext
<1>u. u \in VReg /\ u \in active /\ u \notin todo /\ u # v
      /\ asg[u] \in pool /\ asg[u] # None
  BY <1>n, <1>e, ExpiryFacts DEF IInv, TypeOK, ActiveOwns
<1>a. /\ asg'[v] = asg[u] /\ asg'[u] = None
      /\ \A w \in VReg : w # v /\ w # u => asg'[w] = asg[w]
  BY <1>0, <1>u DEF IInv, TypeOK
<1>1. TypeOK'
  BY <1>0, <1>n, <1>u, ExpiryFacts DEF IInv, TypeOK
<1>2. OneFate'
  BY <1>0, <1>n, <1>e, <1>u, <1>a DEF IInv, OneFate
<1>3. NoShare'
  <2>1. \A w \in VReg : w # v /\ w # u /\ asg[w] = asg[u] => ~Overlaps(iv[w], iv[v])
    <3> SUFFICES ASSUME NEW w \in VReg, w # v, w # u, asg[w] = asg[u]
                 PROVE  iv[w].end <= iv[v].start
      BY DEF IInv, TypeOK, LiveInterval, Overlaps
    <3>1. w \notin todo /\ w \notin active /\ asg[w] # None
      BY <1>u DEF IInv, OneFate, ActiveOwns
    <3> QED
      BY <3>1, <1>e DEF IInv, GivenBack
  <2> SUFFICES ASSUME NEW w \in VReg, NEW x \in VReg, w # x,
                      asg'[w] # None, asg'[w] = asg'[x]
               PROVE  ~Overlaps(iv[w], iv[x])
    BY <1>n DEF NoShare
  <2>2. w # u /\ x # u
    BY <1>a
  <2>3. CASE w = v
    BY <2>1, <2>2, <2>3, <1>a DEF Overlaps
  <2>4. CASE x = v
    BY <2>1, <2>2, <2>4, <1>a DEF Overlaps
  <2>5. CASE w # v /\ x # v
    BY <2>2, <2>5, <1>a DEF IInv, NoShare
  <2> QED
    BY <2>3, <2>4, <2>5
<1>4. ActiveOwns'
  <2>1. \A w \in LiveAt(v) \ {u} : /\ w \in VReg /\ w # v /\ w \notin todo
                                   /\ asg'[w] = asg[w] /\ asg[w] # None
                                   /\ asg[w] # asg[u]
    BY <1>n, <1>e, <1>u, <1>a, ExpiryFacts DEF IInv, ActiveOwns, TypeOK
  <2>2. \A w \in active' : w \notin todo' /\ asg'[w] # None /\ asg'[w] \notin free'
    BY <2>1, <1>0, <1>n, <1>u, <1>a
  <2>3. \A w, x \in LiveAt(v) \ {u} : w # x => asg'[w] # asg'[x]
    BY <2>1, <1>n, ExpiryFacts DEF IInv, ActiveOwns
  <2>4. ASSUME NEW w \in active', NEW x \in active', w # x PROVE asg'[w] # asg'[x]
    <3>1. w \in LiveAt(v) \ {u} \/ w = v
      BY <1>0
    <3>2. x \in LiveAt(v) \ {u} \/ x = v
      BY <1>0
    <3>3. CASE w = v
      BY <3>2, <3>3, <2>1, <2>4, <1>a
    <3>4. CASE x = v
      BY <3>1, <3>4, <2>1, <2>4, <1>a
    <3> QED
      BY <3>1, <3>2, <3>3, <3>4, <2>3, <2>4
  <2> QED
    BY <2>2, <2>4 DEF ActiveOwns
<1>5. ScanOrder'
  BY <1>n, ExpiryFacts DEF IInv, ScanOrder
<1>6. GivenBack'
  <2> SUFFICES ASSUME NEW w \in VReg \ (todo' \cup active'), NEW x \in todo',
                      asg'[w] # None
               PROVE  iv[w].end <= iv[x].start
    BY <1>n DEF GivenBack
  <2>1. w # v /\ w # u /\ w \notin todo /\ asg[w] # None /\ x \in todo
    BY <1>0, <1>n, <1>a
  <2>2. CASE w \in active
    <3>1. iv[w].end <= iv[v].start
      BY <2>1, <2>2, <1>0 DEF LiveAt, Expired
    <3> QED
      BY <3>1, <2>1, <1>n, ExpiryFacts DEF IInv, TypeOK, LiveInterval
  <2>3. CASE w \notin active
    BY <2>1, <2>3 DEF IInv, GivenBack
  <2> QED
    BY <2>2, <2>3
<1>7. NoneLost'
  <2> SUFFICES ASSUME NEW q \in pool PROVE \E w \in active' : asg'[w] = q
    BY <1>n DEF NoneLost
  <2>1. PICK w \in LiveAt(v) : asg[w] = q
    BY <1>n, ExpiryFacts
  <2>2. w # v /\ w \in VReg
    BY <1>n, <1>e, ExpiryFacts DEF IInv, TypeOK
  <2> QED
    BY <2>1, <2>2, <1>0, <1>a
<1> QED
  BY <1>1, <1>2, <1>3, <1>4, <1>5, <1>6, <1>7 DEF IInv

(* The interval itself is spilled.                                         *)
LEMMA SpillCurrentIInv ==
  ASSUME IInv, NEW v \in VReg, SpillCurrent(v)
  PROVE  IInv'
<1> USE VRegAssumption, PRegAssumption, MaxPosAssumption
<1>n. IsNext(v) /\ FreeAt(v) = {} /\ free' = {} /\ todo' = todo \ {v}
      /\ iv' = iv /\ pool' = pool
      /\ asg' = asg /\ active' = LiveAt(v) /\ spilled' = spilled \cup {v}
  BY DEF SpillCurrent
<1>e. asg[v] = None /\ v \in todo /\ v \notin active
  BY <1>n, ExpiryFacts DEF IsNext
<1>1. TypeOK'
  BY <1>n, ExpiryFacts DEF IInv, TypeOK
<1>2. OneFate'
  BY <1>n, <1>e DEF IInv, OneFate
<1>3. NoShare'
  BY <1>n DEF IInv, NoShare
<1>4. ActiveOwns'
  BY <1>n, <1>e, ExpiryFacts DEF IInv, ActiveOwns, TypeOK
<1>5. ScanOrder'
  BY <1>n, ExpiryFacts DEF IInv, ScanOrder
<1>6. GivenBack'
  <2> SUFFICES ASSUME NEW w \in VReg \ (todo' \cup active'), NEW x \in todo',
                      asg[w] # None
               PROVE  iv[w].end <= iv[x].start
    BY <1>n DEF GivenBack
  <2>1. w # v /\ w \notin todo /\ x \in todo
    BY <1>n, <1>e
  <2>2. CASE w \in active
    <3>1. iv[w].end <= iv[v].start
      BY <2>1, <2>2, <1>n DEF LiveAt, Expired
    <3> QED
      BY <3>1, <2>1, <1>n, ExpiryFacts DEF IInv, TypeOK, LiveInterval
  <2>3. CASE w \notin active
    BY <2>1, <2>3 DEF IInv, GivenBack
  <2> QED
    BY <2>2, <2>3
<1>7. NoneLost'
  BY <1>n, ExpiryFacts DEF NoneLost
<1> QED
  BY <1>1, <1>2, <1>3, <1>4, <1>5, <1>6, <1>7 DEF IInv

(* Nothing to share, own or give back when the pool is empty.              *)
LEMMA SpillAllIInv ==
  ASSUME IInv, SpillAll
  PROVE  IInv'
<1>1. asg = [v \in VReg |-> None]
  BY PRegAssumption DEF SpillAll, IInv, TypeOK
<1>2. TypeOK' /\ OneFate' /\ NoShare'
  BY <1>1 DEF SpillAll, IInv, TypeOK, OneFate, NoShare
<1>3. ActiveOwns' /\ ScanOrder' /\ GivenBack' /\ NoneLost'
  BY <1>1 DEF SpillAll, IInv, TypeOK, ActiveOwns, ScanOrder, GivenBack, NoneLost
<1> QED
  BY <1>2, <1>3 DEF IInv

LEMMA NextIInv == IInv /\ [Next]_vars => IInv'
<1> SUFFICES ASSUME IInv, [Next]_vars PROVE IInv'
  OBVIOUS
<1>1. ASSUME NEW v \in VReg, Assign(v) PROVE IInv'
  BY <1>1, AssignIInv
<1>2. ASSUME NEW v \in VReg, SpillActive(v) PROVE IInv'
  BY <1>2, SpillActiveIInv
<1>3. ASSUME NEW v \in VReg, SpillCurrent(v) PROVE IInv'
  BY <1>3, SpillCurrentIInv
<1>4. CASE SpillAll
  BY <1>4, SpillAllIInv
<1>5. CASE UNCHANGED vars
  BY <1>5 DEF vars, IInv, TypeOK, OneFate, NoShare, ActiveOwns, ScanOrder,
              GivenBack, NoneLost
<1> QED
  BY <1>1, <1>2, <1>3, <1>4, <1>5 DEF Next, Done

(* IInv: what the loop maintains holds throughout linear_scan.             *)
THEOREM IInvariance == Spec => []IInv
<1> QED
  BY InitIInv, NextIInv, PTL DEF Spec

(* TypeOK: every list of the scan ranges over the function's registers.    *)
THEOREM TypeCorrect == Spec => []TypeOK
<1>1. IInv => TypeOK
  BY DEF IInv
<1> QED
  BY <1>1, IInvariance, PTL

(* NoShare: linear_scan never gives one physical register to two virtual   *)
(* registers whose live intervals overlap.                                 *)
THEOREM NeverShares == Spec => []NoShare
<1>1. IInv => NoShare
  BY DEF IInv
<1> QED
  BY <1>1, IInvariance, PTL

(* OneFate: every interval linear_scan has visited is either assigned or   *)
(* spilled, never both and never neither.                                  *)
THEOREM EveryFate == Spec => []OneFate
<1>1. IInv => OneFate
  BY DEF IInv
<1> QED
  BY <1>1, IInvariance, PTL

-----------------------------------------------------------------------------
(* When no register is free, every register belongs to an interval that    *)
(* contains the scan position, and so does the waiting interval.           *)
LEMMA FullIsPressed ==
  ASSUME IInv, NEW v \in VReg, IsNext(v), FreeAt(v) = {}
  PROVE  Pressure(iv, iv[v].start) > Cardinality(pool)
<1> DEFINE L == LiveAt(v)
           P == {u \in VReg : iv[u].start <= iv[v].start /\ iv[v].start < iv[u].end}
           f == [u \in L |-> asg[u]]
<1>1. v \notin L /\ L \subseteq P /\ L \subseteq VReg
  BY ExpiryFacts DEF IInv, TypeOK
<1>2. v \in P
  BY VRegAssumption, MaxPosAssumption DEF IInv, TypeOK, LiveInterval
<1>3. f \in Surjection(L, pool)
  BY ExpiryFacts DEF Surjection
<1>4. IsFiniteSet(P) /\ IsFiniteSet(L)
  BY <1>1, VRegAssumption, FS_Subset
<1>5. Cardinality(pool) <= Cardinality(L)
  BY <1>3, <1>4, FS_Surjection
<1>6. Cardinality(L \cup {v}) = Cardinality(L) + 1 /\ IsFiniteSet(L \cup {v})
  BY <1>1, <1>4, FS_AddElement
<1>7. Cardinality(L \cup {v}) <= Cardinality(P)
  BY <1>1, <1>2, <1>4, FS_Subset
<1>8. Cardinality(L) \in Nat /\ Cardinality(P) \in Nat /\ Cardinality(pool) \in Nat
  BY <1>4, PoolFacts, FS_CardinalityType DEF IInv
<1> HIDE DEF L, P
<1>9. Cardinality(P) > Cardinality(pool)
  BY <1>5, <1>6, <1>7, <1>8
<1> QED
  BY <1>9 DEF Pressure, P

(* SpillNeedsPressure: linear_scan spills only at a position that more     *)
(* intervals contain than there are registers in the pool.                 *)
THEOREM SpillsOnlyUnderPressure == Spec => SpillNeedsPressure
<1>1. ASSUME IInv, Next, spilled' # spilled
      PROVE  \E v \in todo \ todo' : Pressure(iv, iv[v].start) > Cardinality(pool)
  <2>1. CASE SpillAll
    <3>1. PICK v \in todo : TRUE
      BY <2>1 DEF SpillAll
    <3> DEFINE P == {u \in VReg : iv[u].start <= iv[v].start /\ iv[v].start < iv[u].end}
    <3>2. v \in VReg /\ v \in P
      BY <1>1, MaxPosAssumption DEF IInv, TypeOK, LiveInterval
    <3>3. IsFiniteSet(P)
      BY VRegAssumption, FS_Subset
    <3>4. Cardinality(P) \in Nat /\ Cardinality(P) # 0
      BY <3>2, <3>3, FS_CardinalityType, FS_EmptySet
    <3>5. Cardinality(pool) = 0 /\ v \in todo \ todo'
      BY <2>1, FS_EmptySet DEF SpillAll
    <3> QED
      BY <3>4, <3>5 DEF Pressure
  <2>2. CASE ~SpillAll
    <3>1. PICK v \in VReg : SpillActive(v) \/ SpillCurrent(v)
      BY <1>1, <2>2 DEF Next, Assign, Done, vars
    <3>2. IsNext(v) /\ FreeAt(v) = {} /\ v \in todo \ todo'
      BY <3>1 DEF SpillActive, SpillCurrent, IsNext
    <3> QED
      BY <3>2, <1>1, FullIsPressed
  <2> QED
    BY <2>1, <2>2
<1>2. IInv /\ [Next]_vars
        => [spilled' # spilled =>
              \E v \in todo \ todo' : Pressure(iv, iv[v].start) > Cardinality(pool)]_vars
  BY <1>1
<1>3. Spec => []IInv
  BY IInvariance
<1> QED
  BY <1>2, <1>3, PTL DEF Spec, SpillNeedsPressure

(* The active list has a last element: of those in it, the one that the    *)
(* fewest come after.                                                      *)
LEMMA FurthestExists ==
  ASSUME TypeOK, NEW A, A \subseteq active, A # {}
  PROVE  \E u \in A : Furthest(A, u)
<1> DEFINE After(u) == {w \in A : EndsBefore(iv, u, w)}
           S == {Cardinality(After(u)) : u \in A}
<1>1. A \subseteq VReg /\ \A u \in A : u \in Nat /\ iv[u].end \in Nat
  BY VRegAssumption, MaxPosAssumption DEF TypeOK, LiveInterval
<1>2. \A u \in A : IsFiniteSet(After(u)) /\ Cardinality(After(u)) \in Nat
  <2> SUFFICES ASSUME NEW u \in A
               PROVE  IsFiniteSet(After(u)) /\ Cardinality(After(u)) \in Nat
    OBVIOUS
  <2>1. After(u) \subseteq VReg
    BY <1>1
  <2> QED
    BY <2>1, VRegAssumption, FS_Subset, FS_CardinalityType
<1>3. \E m \in S : \A n \in S : m <= n
  <2>1. S \subseteq Nat /\ S # {}
    BY <1>2
  <2> HIDE DEF S
  <2> QED
    BY <2>1, LeastNatural
<1>4. PICK u \in A : \A w \in A : Cardinality(After(u)) <= Cardinality(After(w))
  BY <1>3
<1>5. ASSUME NEW w \in A, EndsBefore(iv, u, w) PROVE FALSE
  <2>1. ASSUME NEW x \in A, EndsBefore(iv, w, x) PROVE EndsBefore(iv, u, x)
    <3>1. /\ u \in Nat /\ w \in Nat /\ x \in Nat
          /\ iv[u].end \in Nat /\ iv[w].end \in Nat /\ iv[x].end \in Nat
      BY <1>1
    <3> QED
      BY <2>1, <3>1, <1>5 DEF EndsBefore
  <2>2. w \in After(u) /\ w \notin After(w)
    BY <1>1, <1>5 DEF EndsBefore
  <2>3. After(w) \subseteq After(u)
    BY <2>1
  <2> HIDE DEF After
  <2>4. Cardinality(After(w)) < Cardinality(After(u))
    BY <2>3, <2>2, <1>2, FS_Subset
  <2> QED
    BY <2>4, <1>2, <1>4
<1>6. ASSUME NEW w \in A \ {u} PROVE EndsBefore(iv, w, u)
  <2>1. u \in Nat /\ w \in Nat /\ iv[u].end \in Nat /\ iv[w].end \in Nat /\ u # w
    BY <1>1
  <2>2. ~EndsBefore(iv, u, w)
    BY <1>5
  <2> QED
    BY <2>1, <2>2 DEF EndsBefore
<1> QED
  BY <1>6 DEF Furthest

(* SpillsLongest: the interval linear_scan spills ends no earlier than any *)
(* that keeps its register where the scan stands.                          *)
THEOREM SpillsTheLongest == Spec => SpillsLongest
<1>1. ASSUME IInv, Next, NEW u \in spilled' \ spilled, NEW w \in active'
      PROVE  iv[w].end <= iv[u].end
  <2>0. \A x \in VReg : iv[x].end \in Nat
    BY <1>1, MaxPosAssumption DEF IInv, TypeOK, LiveInterval
  <2>1. ASSUME NEW v \in VReg, SpillActive(v) PROVE iv[w].end <= iv[u].end
    <3>1. PICK x \in LiveAt(v) : /\ Furthest(LiveAt(v), x) /\ iv[x].end > iv[v].end
                                /\ active' = (LiveAt(v) \ {x}) \cup {v}
                                /\ spilled' = spilled \cup {x}
      BY <2>1 DEF SpillActive
    <3>2. u = x /\ LiveAt(v) \subseteq VReg
      BY <3>1, <1>1 DEF IInv, TypeOK, LiveAt
    <3>3. CASE w = v
      BY <3>1, <3>2, <3>3, <2>0
    <3>4. CASE w \in LiveAt(v) \ {x}
      BY <3>1, <3>2, <3>4, <2>0 DEF Furthest, EndsBefore
    <3> QED
      BY <3>1, <3>3, <3>4
  <2>2. ASSUME NEW v \in VReg, SpillCurrent(v) PROVE iv[w].end <= iv[u].end
    <3>1. /\ u = v /\ w \in LiveAt(v) /\ LiveAt(v) \subseteq active
          /\ \A x \in LiveAt(v) : Furthest(LiveAt(v), x) => iv[x].end <= iv[v].end
      BY <2>2, <1>1 DEF SpillCurrent, LiveAt
    <3>2. PICK x \in LiveAt(v) : Furthest(LiveAt(v), x)
      BY <3>1, <1>1, FurthestExists DEF IInv
    <3>3. iv[w].end <= iv[x].end
      BY <3>1, <3>2, <2>0, <1>1 DEF Furthest, EndsBefore, IInv, TypeOK
    <3> QED
      BY <3>1, <3>2, <3>3, <2>0, <1>1 DEF IInv, TypeOK
  <2>3. ASSUME SpillAll PROVE FALSE
    <3>1. w \in active /\ pool = {}
      BY <2>3, <1>1 DEF SpillAll
    <3>2. asg[w] # None /\ asg[w] \in pool \cup {None}
      BY <3>1, <1>1 DEF IInv, ActiveOwns, TypeOK
    <3> QED
      BY <3>1, <3>2
  <2> QED
    BY <2>1, <2>2, <2>3, <1>1 DEF Next, Assign, Done, vars
<1>2. IInv /\ [Next]_vars
        => [\A u \in spilled' \ spilled : \A w \in active' : iv[w].end <= iv[u].end]_vars
  BY <1>1
<1>3. Spec => []IInv
  BY IInvariance
<1> QED
  BY <1>2, <1>3, PTL DEF Spec, SpillsLongest

(* KeepsPromise: linear_scan implements the abstract allocator RegAssign;  *)
(* each of its iterations is a placement, an eviction or a spill of it.    *)
THEOREM ImplementsPromise == Spec => KeepsPromise
<1> USE VRegAssumption, PRegAssumption, MaxPosAssumption
<1>1. Init => Promise!Init
  BY DEF Init, Promise!Init, LiveInterval, Promise!LiveInterval
<1>2. ASSUME IInv, [Next]_vars PROVE [Promise!Next]_(Promise!vars)
  <2>1. ASSUME NEW v \in VReg, Assign(v) PROVE Promise!Next
    <3>1. PICK r \in FreeAt(v) : asg' = [asg EXCEPT ![v] = r]
      BY <2>1 DEF Assign
    <3>2. IsNext(v) /\ iv' = iv /\ pool' = pool /\ spilled' = spilled
      BY <2>1 DEF Assign
    <3>3. r \in pool /\ v \in Promise!Undecided
      BY <1>2, <3>2, ExpiryFacts DEF Promise!Undecided
    <3>4. Promise!Compatible(v, r, {})
      BY <1>2, <3>2, FreeIsCompatible DEF Promise!Compatible, Promise!Overlaps, Overlaps
    <3>5. Promise!Place(v, r)
      BY <3>1, <3>2, <3>3, <3>4 DEF Promise!Place
    <3> QED
      BY <3>3, <3>5 DEF Promise!Next
  <2>2. ASSUME NEW v \in VReg, SpillActive(v) PROVE Promise!Next
    <3>1. PICK u \in LiveAt(v) :
            /\ asg' = [asg EXCEPT ![u] = None, ![v] = asg[u]]
            /\ spilled' = spilled \cup {u}
      BY <2>2 DEF SpillActive
    <3>2. IsNext(v) /\ iv' = iv /\ pool' = pool
      BY <2>2 DEF SpillActive
    <3>3. u \in VReg /\ u \in active /\ asg[u] # None /\ v \in todo
          /\ v \in Promise!Undecided
      BY <1>2, <3>2, ExpiryFacts DEF IInv, TypeOK, Promise!Undecided, IsNext
    <3>4. \A w \in VReg \ {u} : w # v /\ asg[w] = asg[u] => iv[w].end <= iv[v].start
      <4> SUFFICES ASSUME NEW w \in VReg \ {u}, w # v, asg[w] = asg[u]
                   PROVE  iv[w].end <= iv[v].start
        OBVIOUS
      <4>1. w \notin todo /\ w \notin active
        BY <1>2, <3>3 DEF IInv, OneFate, ActiveOwns
      <4> QED
        BY <1>2, <3>3, <4>1 DEF IInv, GivenBack
    <3>5. Promise!Compatible(v, asg[u], {u})
      BY <1>2, <3>4 DEF Promise!Compatible, Promise!Overlaps, IInv, TypeOK, LiveInterval
    <3>6. Promise!Evict(u, v)
      BY <3>1, <3>2, <3>3, <3>5 DEF Promise!Evict
    <3> QED
      BY <3>3, <3>6 DEF Promise!Next
  <2>3. ASSUME NEW v \in VReg, SpillCurrent(v) PROVE Promise!Next
    <3>1. v \in Promise!Undecided
      BY <1>2, <2>3, ExpiryFacts DEF SpillCurrent, Promise!Undecided
    <3> QED
      BY <2>3, <3>1 DEF SpillCurrent, Promise!Spill, Promise!Next
  <2>4. CASE SpillAll
    BY <2>4 DEF SpillAll, Promise!SpillAll, Promise!Next
  <2>5. CASE UNCHANGED vars
    BY <2>5 DEF vars, Promise!vars
  <2> QED
    BY <1>2, <2>1, <2>2, <2>3, <2>4, <2>5 DEF Next, Done
<1> QED
  BY <1>1, <1>2, IInvariance, PTL DEF Spec, KeepsPromise, Promise!Spec

=============================================================================
