------------------------------ MODULE Codegen ------------------------------
(***************************************************************************)
(* The back end from IR to physical registers, as compile.rs calls it for  *)
(* one function: lower_function (PhiLowering), then compute_live_intervals *)
(* (LiveIntervals), an allocation, insert_spill_reloads with its second    *)
(* round of intervals and apply_allocation (SpillReload).  The machine     *)
(* function of one stage is the input of the next.  Machine functions in   *)
(* the shapes that lowering makes of straight-line arithmetic enter at the *)
(* back end.                                                               *)
(***************************************************************************)
EXTENDS PhiLowering, SpillReload

CONSTANT Generated(_)  \* whether the code of an IR function, before it is run,
                       \* goes on to the back end

ASSUME FunctionsAssumption == \A g \in Functions : WellFormed(g)
ASSUME ProgramsAssumption ==
  \A m \in Programs : IsMachine(m) /\ \A v \in Registers(m) : v # NoReg /\ v[1] # "fresh"
ASSUME BoundsAssumption == {MaxSteps, MaxRun, MaxFree} \subseteq Nat
ASSUME PoolAssumption ==
  \A p \in Pools : IsList(p) /\ p # <<>> /\ IsInjective(p) /\ None \notin ToSet(p)

vars == <<lowerVars, spillVars>>

-----------------------------------------------------------------------------
(* Stage "lower": the IR function is lowered and its machine code run.     *)
InitLower ==
  /\ LowerInit
  /\ pool \in Pools
  /\ stage = "lower"
  /\ source = <<>> /\ mf = <<>> /\ phase = "scan"
  /\ interval = <<>> /\ color = <<>> /\ stack = <<>> /\ backEdges = <<>>
  /\ edge = 0 /\ changed = FALSE
  /\ asg = <<>> /\ spilled = {} /\ out = <<>> /\ ends = <<>> /\ starved = FALSE
  /\ needed = <<>> /\ pc = 0 /\ ran = 0 /\ env = <<>> /\ file = <<>> /\ frame = <<>>

InitBack ==
  /\ SpillInit
  /\ f = <<>> /\ lowered = <<>> /\ blk = 0 /\ irEnv = <<>> /\ regs = <<>> /\ steps = 0

Init == InitLower \/ InitBack

RunLowered == stage = "lower" /\ LowerNext /\ UNCHANGED spillVars

(* The lowered function, not yet run, goes on to register allocation.      *)
Generate ==
  /\ stage = "lower" /\ lowered # <<>> /\ steps = 0 /\ Generated(f)
  /\ stage' = "intervals"
  /\ source' = lowered /\ mf' = lowered /\ lowered' = <<>>
  /\ UNCHANGED <<f, blk, irEnv, regs, steps, pool, phase, interval, color, stack, backEdges,
                 edge, changed, asg, spilled, out, ends, starved, runVars>>

Intervals == ComputeIntervals /\ UNCHANGED lowerVars
BackEnd == stage \notin {"lower", "intervals"} /\ SpillNext /\ UNCHANGED lowerVars

Next == RunLowered \/ Generate \/ Intervals \/ BackEnd

(* compute_live_intervals is sequential: it runs until it returns.         *)
Spec == Init /\ [][Next]_vars /\ WF_vars(Intervals)

-----------------------------------------------------------------------------
(* A register that is written while another holds a value has an interval  *)
(* that meets the other's, before spilling and after: see LiveIntervals.   *)
DefInterferes == stage = "intervals" => WritesMeetLive

(* compute_live_intervals returns, before spilling and after: the rounds of*)
(* extension come to an end.                                               *)
Terminates == stage = "intervals" ~> stage \in {"allocate", "color"}
=============================================================================
