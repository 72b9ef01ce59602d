----------------------------- MODULE SpillReload -----------------------------
(***************************************************************************)
(* From machine code over virtual registers to machine code over physical  *)
(* ones (llvm-codegen/src/regalloc.rs): live intervals, an allocation,     *)
(* insert_spill_reloads with its second round of intervals and colours,    *)
(* and apply_allocation, for one register class; then a run of the code    *)
(* before and after, one original instruction per step, along any path.    *)
(*                                                                         *)
(* The frame slot of a spilled register is named after it                  *)
(* (alloc_spill_slot hands out distinct numbers).                          *)
(***************************************************************************)
EXTENDS LiveIntervals

CONSTANTS
  Programs,  \* the machine functions considered
  Pools,     \* the sequences of registers that may be allocatable_pregs
  None,      \* no physical register
  MaxRun,    \* bound: how many original instructions a run executes
  MaxFree    \* bound: with more registers than this only linear_scan's own
             \* allocation is tried

VARIABLES
  source,   \* the machine function before spilling
  pool,     \* allocatable_pregs
  stage,    \* "intervals", "allocate", "rewrite", "color", "apply" or "run"
  asg,      \* vreg_to_preg
  spilled,  \* the registers with a frame slot
  out,      \* the instructions being rebuilt, then renamed
  ends,     \* how long out was after each original instruction
  starved,  \* whether a fresh register found every pool register occupied
  pc,       \* the original instruction run last
  ran,      \* how many have run
  needed,   \* the registers still to be read after each original instruction
  env,      \* values of the virtual registers, running source
  file,     \* values of the physical registers, running out
  frame     \* values of the frame slots, running out

runVars == <<needed, pc, ran, env, file, frame>>
spillVars == <<source, pool, stage, liveVars, asg, spilled, out, ends, starved, runVars>>

code == Flat(source)
RegsOf(c) == UNION {Uses(c[p]) \cup ({c[p].dst} \ {NoReg}) : p \in 1..Len(c)}
Meet(i, j) == i.start < j.end /\ j.start < i.end

(* A map with one more entry.                                              *)
Extended(a, v, r) == [u \in DOMAIN a \cup {v} |-> IF u \in DOMAIN a THEN a[u] ELSE r]

Load(dst, v) == MInstr("load", dst, <<>>, <<>>, v)
Store(src, v) == MInstr("store", NoReg, <<src>>, <<>>, v)

-----------------------------------------------------------------------------
SpillInit ==
  /\ source \in Programs
  /\ pool \in Pools
  /\ stage = "intervals"
  /\ mf = source /\ phase = "scan"
  /\ interval = <<>> /\ color = <<>> /\ stack = <<>> /\ backEdges = <<>>
  /\ edge = 0 /\ changed = FALSE
  /\ asg = <<>> /\ spilled = {}
  /\ out = <<>> /\ ends = <<>>
  /\ starved = FALSE
  /\ needed = <<>> /\ pc = 0 /\ ran = 0
  /\ env = <<>> /\ file = <<>> /\ frame = <<>>

(* compute_live_intervals, of the code before spilling and after.          *)
ComputeIntervals ==
  /\ stage = "intervals"
  /\ IF phase = "done"
     THEN stage' = (IF ends = <<>> THEN "allocate" ELSE "color") /\ UNCHANGED liveVars
     ELSE Compute /\ UNCHANGED stage
  /\ UNCHANGED <<source, pool, asg, spilled, out, ends, starved, runVars>>

(* What an allocator may return for few registers: overlapping intervals   *)
(* do not share, and no spill could be taken back.                         *)
LiveAt(S, p) == {v \in S : interval[v].start <= p /\ p < interval[v].end}

Sound(a) ==
  LET kept == DOMAIN a
  IN  /\ \A u, v \in kept : (u # v /\ a[u] = a[v]) => ~Meet(interval[u], interval[v])
      /\ \A v \in DOMAIN interval \ kept :
           \E p \in interval[v].start..(interval[v].end - 1) :
             Cardinality(LiveAt(kept, p)) >= Len(pool)

(* And what linear_scan returns: registers leave the free list at its head *)
(* and come back at its end, in the order of the active list.              *)
Younger(u, v) ==
  \/ interval[u].start < interval[v].start
  \/ interval[u].start = interval[v].start /\ interval[u].end < interval[v].end

Scanned(s, v) ==
  LET expired == {u \in ToSet(s.active) : interval[u].end <= interval[v].start}
      ended == Kept(s.active, expired)
      active == Kept(s.active, ToSet(s.active) \ expired)
      free == s.free \o [i \in 1..Len(ended) |-> s.asg[ended[i]]]
      insert(l) == LET sooner == {u \in ToSet(l) : interval[u].end <= interval[v].end}
                   IN  Kept(l, sooner) \o <<v>> \o Kept(l, ToSet(l) \ sooner)
      last == Last(active)
      rest == s.rest \ {v}
  IN  CASE free # <<>> -> [rest |-> rest, free |-> Tail(free), active |-> insert(active),
                           asg |-> Extended(s.asg, v, Head(free))]
        [] free = <<>> /\ interval[last].end > interval[v].end ->
             [rest |-> rest, free |-> <<>>, active |-> insert(Front(active)),
              asg |-> [u \in (DOMAIN s.asg \ {last}) \cup {v} |->
                         s.asg[IF u = v THEN last ELSE u]]]
        [] OTHER -> [rest |-> rest, free |-> free, active |-> active, asg |-> s.asg]

(* Registers with equal intervals come in some order.                      *)
LinearScan ==
  LET n == Cardinality(DOMAIN interval)
      first(S) == CHOOSE v \in S : \A u \in S : ~Younger(u, v)
      after[i \in 0..n] ==
        IF i = 0 THEN [rest |-> DOMAIN interval, free |-> pool, active |-> <<>>, asg |-> <<>>]
        ELSE LET s == after[i - 1] IN Scanned(s, first(s.rest))
  IN  after[n].asg

Allocations ==
  IF Cardinality(DOMAIN interval) > MaxFree THEN {LinearScan}
  ELSE {a \in UNION {[S -> ToSet(pool)] : S \in SUBSET DOMAIN interval} : Sound(a)}

Allocate ==
  /\ stage = "allocate"
  /\ asg' \in Allocations
  /\ spilled' = DOMAIN interval \ DOMAIN asg'
  /\ stage' = IF spilled' = {} THEN "apply" ELSE "rewrite"
  /\ out' = IF spilled' = {} THEN code ELSE <<>>
  /\ ends' = IF spilled' = {} THEN [i \in 1..Len(code) |-> i] ELSE <<>>
  /\ UNCHANGED <<source, pool, liveVars, starved, runVars>>

-----------------------------------------------------------------------------
(* A load into a fresh register for every operand that is spilled.  Fresh  *)
(* registers are <<"fresh", n, i>>, numbered in the order they are made.   *)
Fresh(n, i) == <<"fresh", n, i>>
Reloads(in, n) ==
  LET reload == Kept([i \in 1..Len(in.srcs) |-> i], {i \in 1..Len(in.srcs) : in.srcs[i] \in spilled})
  IN  [j \in 1..Len(reload) |-> Load(Fresh(n, reload[j]), in.srcs[reload[j]])]
Reloaded(in, n) ==
  [in EXCEPT !.srcs = [i \in 1..Len(@) |-> IF @[i] \in spilled THEN Fresh(n, i) ELSE @[i]]]

(* Mutant: a spilled destination is written without a store.               *)
Spills_NoStore(in, n) ==
  Reloads(in, n) \o <<[Reloaded(in, n) EXCEPT !.dst = IF @ \in spilled THEN Fresh(n, 0) ELSE @]>>

(* One instruction, the n-th: the reloads before it, and a fresh           *)
(* destination with a store after it when the destination is spilled.      *)
Spills(in, n) ==
  LET dst == Fresh(n, 1 + Len(in.srcs))
  IN  Reloads(in, n)
      \o <<[Reloaded(in, n) EXCEPT !.dst = IF @ \in spilled THEN dst ELSE @]>>
      \o (IF in.dst \in spilled THEN <<Store(dst, in.dst)>> ELSE <<>>)

(* The rebuilt blocks, of which intervals are computed again.              *)
Rebuilt(instrs, until) ==
  LET before(p) == IF p = 1 THEN 0 ELSE until[p - 1]
  IN  [b \in 1..Len(source) |->
         SubSeq(instrs, before(BlkStart(source, b)) + 1, before(BlkEnd(source, b)))]

Rewrite ==
  /\ stage = "rewrite"
  /\ LET n == Len(ends) + 1
     IN  /\ out' = out \o Spills(code[n], n)
         /\ ends' = Append(ends, Len(out'))
         /\ IF n = Len(code) THEN stage' = "intervals" /\ Recompute(Rebuilt(out', ends'))
                             ELSE UNCHANGED <<stage, liveVars>>
  /\ UNCHANGED <<source, pool, asg, spilled, starved, runVars>>

(* The fresh intervals are coloured in the order (start, end, vreg).       *)
Before(i, j, u, v) ==
  \/ i.start < j.start
  \/ i.start = j.start /\ i.end < j.end
  \/ i.start = j.start /\ i.end = j.end /\ (u[2] < v[2] \/ (u[2] = v[2] /\ u[3] < v[3]))

(* Mutant: only the first allocation's registers count as occupied.        *)
Occupied_FirstPass(v) ==
  {asg[u] : u \in {w \in DOMAIN asg \cap RegsOf(code) : Meet(interval[w], interval[v])}}

(* The registers of the intervals, coloured so far, that meet v's.         *)
Occupied(v) ==
  {asg[u] : u \in {w \in DOMAIN asg \cap DOMAIN interval : Meet(interval[w], interval[v])}}

(* One fresh register: the first pool register that is not occupied, and   *)
(* the first of the pool when all are.                                     *)
Color ==
  /\ stage = "color"
  /\ LET fresh == DOMAIN interval \ DOMAIN asg
     IN  IF fresh = {} THEN stage' = "apply" /\ UNCHANGED <<asg, starved>>
         ELSE LET v == CHOOSE w \in fresh :
                         \A u \in fresh \ {w} : Before(interval[w], interval[u], w, u)
                  free == Kept(pool, ToSet(pool) \ Occupied(v))
              IN  /\ asg' = Extended(asg, v, IF free = <<>> THEN Head(pool) ELSE Head(free))
                  /\ starved' = (starved \/ free = <<>>)
                  /\ UNCHANGED stage
  /\ UNCHANGED <<source, pool, liveVars, spilled, out, ends, runVars>>

(* apply_allocation.                                                       *)
Apply ==
  /\ stage = "apply"
  /\ out' = [p \in 1..Len(out) |->
               [out[p] EXCEPT !.dst = IF @ \in DOMAIN asg THEN asg[@] ELSE @,
                              !.srcs = [i \in 1..Len(@) |->
                                          IF @[i] \in DOMAIN asg THEN asg[@[i]] ELSE @[i]]]]
  /\ stage' = "run"
  /\ needed' = LET flow == Flow(source)
                   after == [v \in RegsOf(code) |-> LiveAfter(code, flow, v)]
               IN  [p \in 1..Len(code) |-> {v \in RegsOf(code) : p \in after[v]}]
  /\ env' = [v \in RegsOf(code) |-> <<>>]
  /\ file' = [r \in ToSet(pool) |-> <<>>]
  /\ frame' = [v \in spilled |-> <<>>]
  /\ UNCHANGED <<source, pool, liveVars, asg, spilled, ends, starved, pc, ran>>

-----------------------------------------------------------------------------
(* What an instruction computes from the registers r at time t.            *)
Result(r, in, t) ==
  CASE in.op = "mov" -> r[in.srcs[1]]
    [] in.op = "imm" -> <<in.val>>
    [] in.op = "def" -> <<in.val, t>> \o [i \in 1..Len(in.srcs) |-> r[in.srcs[i]]]
    [] in.op = "alu" -> <<in.val, r[in.dst], r[in.srcs[1]]>>

Exec(m, in, t) ==
  CASE in.op = "load"  -> [m EXCEPT !.file[in.dst] = m.frame[in.val]]
    [] in.op = "store" -> [m EXCEPT !.frame[in.val] = m.file[in.srcs[1]]]
    [] in.op \in {"use", "leave"} -> m
    [] OTHER           -> [m EXCEPT !.file[in.dst] = Result(m.file, in, t)]

(* One original instruction, the q-th, and what it was rewritten to.       *)
Follows(q) == IF pc = 0 THEN q = 1 ELSE <<pc, q>> \in Flow(source)

Run(q) ==
  /\ stage = "run" /\ ran < MaxRun
  /\ Follows(q)
  /\ LET in == code[q]
         from == IF q = 1 THEN 1 ELSE ends[q - 1] + 1
         m == FoldLeft(LAMBDA x, i : Exec(x, i, ran), [file |-> file, frame |-> frame],
                       SubSeq(out, from, ends[q]))
     IN  /\ env' = IF in.dst = NoReg THEN env ELSE [env EXCEPT ![in.dst] = Result(env, in, ran)]
         /\ file' = m.file
         /\ frame' = m.frame
  /\ pc' = q /\ ran' = ran + 1
  /\ UNCHANGED <<source, pool, stage, liveVars, asg, spilled, out, ends, starved, needed>>

SpillDone ==
  /\ stage = "run"
  /\ ran = MaxRun \/ \A q \in 1..Len(code) : ~Follows(q)
  /\ UNCHANGED spillVars

(* What follows the computation of intervals.                              *)
SpillNext ==
  \/ Allocate \/ Rewrite \/ Color \/ Apply
  \/ \E q \in 1..Len(code) : Run(q)
  \/ SpillDone

-----------------------------------------------------------------------------
(* The second pass keeps the registers of overlapping intervals apart      *)
(* ("assign each fresh VReg the first pool register of its class that does *)
(* not conflict with any overlapping pre-colored or already-assigned-fresh *)
(* interval"), as long as it finds a register for every reload and store.  *)
FreshApartUnlessStarved ==
  (stage = "apply" /\ ~starved) =>
    \A u, v \in DOMAIN interval : u # v /\ asg[u] = asg[v] => ~Meet(interval[u], interval[v])

(* After every original instruction, on any path, each register still to   *)
(* be read has its value where the allocation says: in its register or in  *)
(* its slot.                                                               *)
Holds(v) == (IF v \in spilled THEN frame[v] ELSE file[asg[v]]) = env[v]

LocationsAgree ==
  (stage = "run" /\ ~starved /\ pc # 0) => \A v \in needed[pc] : Holds(v)
=============================================================================
