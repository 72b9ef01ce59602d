------------------------------ MODULE RegAssign ------------------------------
(***************************************************************************)
(* What a register allocator promises, whichever strategy computes it: it  *)
(* decides the virtual registers one after the other, and at no time do    *)
(* two assigned registers whose live intervals overlap share a physical    *)
(* register.  A decision may be revoked once, in favour of a spill; a      *)
(* spill is final.                                                         *)
(***************************************************************************)
EXTENDS Intervals

VARIABLES
  iv,        \* the live interval of each virtual register (input)
  pool,      \* the allocatable physical registers (input)
  asg,       \* vreg_to_preg: the register assigned so far, or None
  spilled    \* the virtual registers that live in a stack slot

vars == <<iv, pool, asg, spilled>>

Undecided == {v \in VReg : asg[v] = None /\ v \notin spilled}

(* Register r may hold v while the registers in Out give theirs up.        *)
Compatible(v, r, Out) ==
  \A u \in VReg \ Out : (u # v /\ asg[u] = r) => ~Overlaps(iv[u], iv[v])

Init ==
  /\ iv \in [VReg -> LiveInterval]
  /\ pool \in SUBSET PReg
  /\ asg = [v \in VReg |-> None]
  /\ spilled = {}

Place(v, r) ==
  /\ v \in Undecided
  /\ Compatible(v, r, {})
  /\ asg' = [asg EXCEPT ![v] = r]
  /\ UNCHANGED <<iv, pool, spilled>>

Spill(v) ==
  /\ v \in Undecided
  /\ spilled' = spilled \cup {v}
  /\ UNCHANGED <<iv, pool, asg>>

(* v takes the register of u, which is spilled in its stead.               *)
Evict(u, v) ==
  /\ v \in Undecided
  /\ asg[u] # None
  /\ Compatible(v, asg[u], {u})
  /\ asg' = [asg EXCEPT ![u] = None, ![v] = asg[u]]
  /\ spilled' = spilled \cup {u}
  /\ UNCHANGED <<iv, pool>>

(* A whole class is spilled when its pool is empty.                        *)
SpillAll ==
  /\ pool = {}
  /\ spilled' = VReg
  /\ UNCHANGED <<iv, pool, asg>>

Next ==
  \/ \E v \in VReg : Spill(v) \/ \E r \in pool : Place(v, r)
  \/ \E u, v \in VReg : Evict(u, v)
  \/ SpillAll

Spec == Init /\ [][Next]_vars
=============================================================================
