------------------------------ MODULE Intervals ------------------------------
(***************************************************************************)
(* Live intervals: the vocabulary shared by the register allocators.       *)
(*                                                                         *)
(* A virtual register is its number (VReg.0 in the code: the numbers break *)
(* ties in every sort).  A live interval is half open, [start, end), over  *)
(* positions in the flat instruction order; compute_live_intervals inserts *)
(* (pos, pos + 1) and only widens it, so an interval is never empty.       *)
(***************************************************************************)
EXTENDS Integers, FiniteSets

CONSTANTS
  VReg,      \* the virtual registers that occur in the function
  PReg,      \* the physical registers a pool may be chosen from
  None,      \* no physical register
  MaxPos     \* bound: positions of the flat instruction order are 0..MaxPos

ASSUME VRegAssumption == VReg \subseteq Nat /\ IsFiniteSet(VReg)
ASSUME PRegAssumption == IsFiniteSet(PReg) /\ None \notin PReg
ASSUME MaxPosAssumption == MaxPos \in Nat

LiveInterval == {i \in [start : 0..MaxPos, end : 0..MaxPos] : i.start < i.end}

(* The overlap test of half-open intervals.                                *)
Overlaps(a, b) == a.start < b.end /\ b.start < a.end

(* The sort key (start, end, vreg) of every interval list.                 *)
StartsBefore(iv, u, v) ==
  \/ iv[u].start < iv[v].start
  \/ iv[u].start = iv[v].start /\ iv[u].end < iv[v].end
  \/ iv[u].start = iv[v].start /\ iv[u].end = iv[v].end /\ u < v

(* The sort key (end, vreg) of the linear scan's active list.              *)
EndsBefore(iv, u, v) ==
  \/ iv[u].end < iv[v].end
  \/ iv[u].end = iv[v].end /\ u < v

(* How many of the intervals contain position p.                           *)
Pressure(iv, p) == Cardinality({v \in VReg : iv[v].start <= p /\ p < iv[v].end})
=============================================================================
