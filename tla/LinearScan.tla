------------------------------ MODULE LinearScan -----------------------------
(***************************************************************************)
(* linear_scan of llvm-codegen/src/regalloc.rs: one step per iteration of  *)
(* the loop over the sorted intervals.  Every iteration first expires the  *)
(* active intervals that ended and then takes one of three branches.       *)
(*                                                                         *)
(* The free list is a set: its order decides only which of the free        *)
(* registers is taken, and nothing below depends on that.  The active list *)
(* is the set of its members: the code keeps it sorted by (end, vreg), and *)
(* Furthest is its last element.                                           *)
(***************************************************************************)
EXTENDS Intervals

VARIABLES
  iv,        \* the live intervals, one per virtual register (input)
  pool,      \* allocatable (input)
  todo,      \* the intervals the loop has not visited
  free,      \* free: registers held by no active interval
  active,    \* active: assigned registers whose interval has not expired
  asg,       \* result.vreg_to_preg (None: no entry)
  spilled    \* result.spilled

vars == <<iv, pool, todo, free, active, asg, spilled>>

Init ==
  /\ iv \in [VReg -> LiveInterval]
  /\ pool \in SUBSET PReg
  /\ todo = VReg
  /\ free = pool
  /\ active = {}
  /\ asg = [v \in VReg |-> None]
  /\ spilled = {}

(* v is the interval the loop visits next.                                 *)
IsNext(v) == v \in todo /\ \A u \in todo \ {v} : StartsBefore(iv, v, u)

(* Mutant: an interval that ends one position later expires already.       *)
Expired_OneEarly(v) == {u \in active : iv[u].end <= iv[v].start + 1}

Expired(v) == {u \in active : iv[u].end <= iv[v].start}

(* The lists after active.retain(..) and free.extend(returned).            *)
LiveAt(v) == active \ Expired(v)

(* Mutant: the expired registers are not returned.                         *)
FreeAt_Lost(v) == free
FreeAt(v) == free \cup {asg[u] : u \in Expired(v)}

(* Mutant: the first element of the list instead of the last.              *)
Furthest_First(A, u) == u \in A /\ \A w \in A \ {u} : EndsBefore(iv, u, w)
Furthest(A, u) == u \in A /\ \A w \in A \ {u} : EndsBefore(iv, w, u)

(* A register is free: the interval takes it.                              *)
Assign(v) ==
  /\ pool # {}
  /\ IsNext(v)
  /\ \E r \in FreeAt(v) :
       /\ asg' = [asg EXCEPT ![v] = r]
       /\ free' = FreeAt(v) \ {r}
  /\ active' = LiveAt(v) \cup {v}
  /\ todo' = todo \ {v}
  /\ UNCHANGED <<iv, pool, spilled>>

(* Mutants: the spilled interval keeps its entry in vreg_to_preg; it is    *)
(* not recorded in spilled.                                                *)
SpillActive_KeepsEntry(v) ==
  /\ pool # {} /\ IsNext(v) /\ FreeAt(v) = {}
  /\ \E u \in LiveAt(v) :
       /\ Furthest(LiveAt(v), u)
       /\ iv[u].end > iv[v].end
       /\ active' = (LiveAt(v) \ {u}) \cup {v}
       /\ asg' = [asg EXCEPT ![v] = asg[u]]
       /\ spilled' = spilled \cup {u}
  /\ free' = {} /\ todo' = todo \ {v}
  /\ UNCHANGED <<iv, pool>>

SpillActive_NotRecorded(v) ==
  /\ pool # {} /\ IsNext(v) /\ FreeAt(v) = {}
  /\ \E u \in LiveAt(v) :
       /\ Furthest(LiveAt(v), u)
       /\ iv[u].end > iv[v].end
       /\ active' = (LiveAt(v) \ {u}) \cup {v}
       /\ asg' = [asg EXCEPT ![u] = None, ![v] = asg[u]]
  /\ free' = {} /\ todo' = todo \ {v}
  /\ UNCHANGED <<iv, pool, spilled>>

(* None is free and an active interval ends later: it is spilled and the   *)
(* current one takes over its register.                                    *)
SpillActive(v) ==
  /\ pool # {}
  /\ IsNext(v)
  /\ FreeAt(v) = {}
  /\ \E u \in LiveAt(v) :
       /\ Furthest(LiveAt(v), u)
       /\ iv[u].end > iv[v].end
       /\ active' = (LiveAt(v) \ {u}) \cup {v}
       /\ asg' = [asg EXCEPT ![u] = None, ![v] = asg[u]]
       /\ spilled' = spilled \cup {u}
  /\ free' = {}
  /\ todo' = todo \ {v}
  /\ UNCHANGED <<iv, pool>>

(* None is free and no active interval ends later: the current one is      *)
(* spilled.                                                                *)
SpillCurrent(v) ==
  /\ pool # {}
  /\ IsNext(v)
  /\ FreeAt(v) = {}
  /\ \A u \in LiveAt(v) : Furthest(LiveAt(v), u) => iv[u].end <= iv[v].end
  /\ active' = LiveAt(v)
  /\ free' = {}
  /\ spilled' = spilled \cup {v}
  /\ todo' = todo \ {v}
  /\ UNCHANGED <<iv, pool, asg>>

(* Mutant: the early return reports nothing as spilled.                    *)
SpillAll_Nothing ==
  /\ pool = {} /\ todo # {} /\ todo' = {}
  /\ UNCHANGED <<iv, pool, free, active, asg, spilled>>

(* The early return when the pool is empty.                                *)
SpillAll ==
  /\ pool = {}
  /\ todo # {}
  /\ todo' = {}
  /\ spilled' = VReg
  /\ UNCHANGED <<iv, pool, free, active, asg>>

Done == todo = {} /\ UNCHANGED vars

Next ==
  \/ \E v \in VReg : Assign(v) \/ SpillActive(v) \/ SpillCurrent(v)
  \/ SpillAll
  \/ Done

Spec == Init /\ [][Next]_vars

-----------------------------------------------------------------------------
TypeOK ==
  /\ iv \in [VReg -> LiveInterval]
  /\ pool \subseteq PReg
  /\ todo \subseteq VReg
  /\ free \subseteq pool
  /\ active \subseteq VReg
  /\ asg \in [VReg -> pool \cup {None}]
  /\ spilled \subseteq VReg

(* Two virtual registers whose live intervals overlap never hold the same  *)
(* physical register (the allocator's purpose: vreg_to_preg).              *)
NoShare ==
  \A u, v \in VReg :
    (u # v /\ asg[u] # None /\ asg[u] = asg[v]) => ~Overlaps(iv[u], iv[v])

(* The three outcomes exclude each other: a virtual register is waiting,   *)
(* assigned or spilled.  A revoked assignment that were left behind would  *)
(* make insert_spill_reloads treat a spilled register as precolored.       *)
OneFate ==
  \A v \in VReg :
    /\ v \in todo => asg[v] = None /\ v \notin spilled
    /\ v \notin todo => (asg[v] # None <=> v \notin spilled)

(* A register is spilled only at a position where more intervals are live  *)
(* than there are registers: the scan never spills without need.           *)
SpillNeedsPressure ==
  [][spilled' # spilled =>
       \E v \in todo \ todo' : Pressure(iv, iv[v].start) > Cardinality(pool)]_vars

(* The furthest-end heuristic of the module comment ("Otherwise spill the  *)
(* interval with the largest end point"): no register that is left with    *)
(* its assignment, and is live where the scan stands, ends after the one   *)
(* spilled.                                                                *)
SpillsLongest ==
  [][\A u \in spilled' \ spilled : \A w \in active' : iv[w].end <= iv[u].end]_vars

(* It implements the allocator's promise.                                  *)
Promise == INSTANCE RegAssign WITH iv <- iv, pool <- pool, asg <- asg, spilled <- spilled
KeepsPromise == Promise!Spec
=============================================================================
