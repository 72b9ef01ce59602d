--------------------------- MODULE CodegenProofs ---------------------------
(***************************************************************************)
(* Theorems about Codegen for every IR function, machine function, pool    *)
(* and bound: where the edges of lowered code arrive, that lowered code    *)
(* agrees with the IR on every operand, whatever its phis exchange, and    *)
(* that the back edges live intervals are extended round are the loops.    *)
(***************************************************************************)
EXTENDS Codegen, DataLemmas

-----------------------------------------------------------------------------
(* One instruction.  Writes: those that change a register; Written: what   *)
(* they put there, from registers r at time t.                             *)
Writes(in, x) == in.op \in {"mov", "imm", "def"} /\ in.dst = x
Written(r, in, t) ==
  CASE in.op = "mov" -> r[in.srcs[1]]
    [] in.op = "imm" -> <<in.val>>
    [] OTHER -> <<in.val, t>>

(* Code whose moves read registers of R and whose values are of V.         *)
Runnable(c, t, R, V) ==
  \A i \in DOMAIN c : /\ c[i].op = "mov" => c[i].srcs[1] \in R
                      /\ <<c[i].val>> \in V /\ <<c[i].val, t>> \in V

LEMMA ExecuteOne ==
  ASSUME NEW R, NEW V, NEW r \in [R -> V], NEW in, NEW t,
         in.op = "mov" => in.srcs[1] \in R,
         <<in.val>> \in V, <<in.val, t>> \in V
  PROVE  /\ Execute(r, in, t) \in [R -> V]
         /\ \A x \in R : Execute(r, in, t)[x] = IF Writes(in, x) THEN Written(r, in, t) ELSE r[x]
<1>1. CASE in.op = "mov"
  <2>1. Execute(r, in, t) = [r EXCEPT ![in.dst] = r[in.srcs[1]]] /\ r[in.srcs[1]] \in V
    BY <1>1 DEF Execute
  <2> QED
    BY <1>1, <2>1 DEF Writes, Written
<1>2. CASE in.op = "imm"
  BY <1>2 DEF Execute, Writes, Written
<1>3. CASE in.op = "def"
  BY <1>3 DEF Execute, Writes, Written
<1>4. CASE in.op \notin {"mov", "imm", "def"}
  BY <1>4 DEF Execute, Writes, Written
<1> QED
  BY <1>1, <1>2, <1>3, <1>4

(* Execution runs one instruction after the other: h[i] are the registers  *)
(* after the first i of them.                                              *)
IsRun(h, r, c, t) ==
  /\ h[0] = r
  /\ \A i \in 1..Len(c) : h[i] = Execute(h[i - 1], c[i], t)
  /\ Execution(r, c, t) = h[Len(c)]

LEMMA RunSteps ==
  ASSUME NEW R, NEW V, NEW r \in [R -> V], NEW c, IsList(c), NEW t, Runnable(c, t, R, V)
  PROVE  \E h \in [0..Len(c) -> [R -> V]] : IsRun(h, r, c, t)
<1> DEFINE T == [R -> V]
           D == 0..Len(c)
           next(s, i) == Execute(s, c[i], t)
           step == [p \in D \X T |-> next(p[2], p[1])]
           Rec(h) == h = [n \in 0..Len(c) |-> IF n = 0 THEN r ELSE next(h[n - 1], n)]
           after == CHOOSE h : Rec(h)
<1>1. Len(c) \in Nat /\ DOMAIN c = 1..Len(c)
  BY ListFacts
<1>2. \A i \in 1..Len(c) : \A s \in T : step[<<i, s>>] = next(s, i) /\ next(s, i) \in T
  <2> TAKE i \in 1..Len(c)
  <2> TAKE s \in T
  <2>1. step[<<i, s>>] = next(s, i)
    BY <1>1
  <2>2. next(s, i) \in T
    BY <1>1, ExecuteOne DEF Runnable
  <2> QED
    BY <2>1, <2>2
<1>3. \E h \in [0..Len(c) -> T] :
        h[0] = r /\ \A i \in 1..Len(c) : h[i] = step[<<i, h[i - 1]>>]
  <2>1. StaysIn(T, Len(c), step)
    BY <1>2 DEF StaysIn
  <2>2. r \in T
    OBVIOUS
  <2> HIDE DEF step, T
  <2> QED
    BY <1>1, <2>1, <2>2, ListRecursion
<1> PICK h \in [D -> T] : h[0] = r /\ \A i \in 1..Len(c) : h[i] = step[<<i, h[i - 1]>>]
  <2> HIDE DEF step, T
  <2> QED
    BY <1>3
<1>4. Rec(h)
  <2>1. \A i \in D : i # 0 => i \in 1..Len(c) /\ i - 1 \in D
    BY <1>1
  <2>2. \A i \in D : h[i] = IF i = 0 THEN r ELSE next(h[i - 1], i)
    <3> HIDE DEF step, next, T, D
    <3> QED
      BY <1>2, <1>3, <2>1
  <2> HIDE DEF step, next, T
  <2> QED
    BY <1>3, <2>2
<1>5. Rec(after)
  <2> HIDE DEF Rec
  <2> QED
    BY <1>4
<1>6. Execution(r, c, t) = after[Len(c)]
  BY DEF Execution
<1> HIDE DEF after
<1>7. \A i \in D : after[i] = IF i = 0 THEN r ELSE next(after[i - 1], i)
  BY <1>5
<1>8. \A i \in D : after[i] \in T
  <2> DEFINE S == {n \in Nat : n \in D => after[n] \in T}
  <2>1. 0 \in S
    BY <1>1, <1>7
  <2>2. \A n \in Nat : n \in S => n + 1 \in S
    <3> HIDE DEF T, next, D
    <3> SUFFICES ASSUME NEW n \in Nat, n \in S, n + 1 \in D PROVE after[n + 1] \in T
      OBVIOUS
    <3> USE DEF D
    <3>1. n \in D /\ n + 1 \in 1..Len(c) /\ n + 1 # 0 /\ (n + 1) - 1 = n
      BY <1>1
    <3>2. after[n + 1] = next(after[n], n + 1) /\ after[n] \in T
      BY <1>7, <3>1 DEF IsRun
    <3> HIDE DEF T, next
    <3> QED
      BY <1>2, <3>1, <3>2
  <2> HIDE DEF S
  <2>3. Nat \subseteq S
    BY <2>1, <2>2, InductionOnSet
  <2> QED
    BY <1>1, <2>3 DEF S
<1>9. after \in [D -> T]
  BY <1>5, <1>8
<1>10. after[0] = r /\ \A i \in 1..Len(c) : after[i] = Execute(after[i - 1], c[i], t)
  <2>1. 0 \in D /\ \A i \in 1..Len(c) : i \in D /\ i # 0
    BY <1>1
  <2> HIDE DEF D
  <2> QED
    BY <1>7, <2>1
<1>11. IsRun(after, r, c, t)
  BY <1>6, <1>10 DEF IsRun
<1> HIDE DEF Rec, T
<1> QED
  BY <1>9, <1>11

(* Code that runs after other code runs from the registers that leaves.    *)
LEMMA RunConcat ==
  ASSUME NEW R, NEW V, NEW r \in [R -> V], NEW c, IsList(c), NEW d, IsList(d), NEW t,
         Runnable(c, t, R, V), Runnable(d, t, R, V)
  PROVE  /\ Execution(r, c, t) \in [R -> V]
         /\ Execution(r, c \o d, t) = Execution(Execution(r, c, t), d, t)
         /\ Runnable(c \o d, t, R, V)
<1> DEFINE m == Execution(r, c, t)
<1>1. /\ Len(c) \in Nat /\ DOMAIN c = 1..Len(c)
      /\ Len(d) \in Nat /\ DOMAIN d = 1..Len(d)
  BY ListFacts
<1>2. /\ IsList(c \o d) /\ Len(c \o d) = Len(c) + Len(d)
      /\ DOMAIN (c \o d) = 1..(Len(c) + Len(d))
      /\ \A i \in 1..Len(c) : (c \o d)[i] = c[i]
      /\ \A i \in 1..Len(d) : (c \o d)[Len(c) + i] = d[i]
  BY ConcatLists
<1>3. \A i \in 1..(Len(c) + Len(d)) : i \in 1..Len(c) \/ (i - Len(c) \in 1..Len(d) /\ Len(c) + (i - Len(c)) = i)
  BY <1>1
<1>4. Runnable(c \o d, t, R, V)
  <2> SUFFICES ASSUME NEW i \in 1..(Len(c) + Len(d))
               PROVE  /\ (c \o d)[i].op = "mov" => (c \o d)[i].srcs[1] \in R
                      /\ <<(c \o d)[i].val>> \in V /\ <<(c \o d)[i].val, t>> \in V
    BY <1>2 DEF Runnable
  <2>1. CASE i \in 1..Len(c)
    BY <1>1, <1>2, <2>1 DEF Runnable
  <2>2. CASE i - Len(c) \in 1..Len(d) /\ Len(c) + (i - Len(c)) = i
    <3>1. (c \o d)[i] = d[i - Len(c)]
      BY <1>2, <2>2
    <3> QED
      BY <1>1, <2>2, <3>1 DEF Runnable
  <2> QED
    BY <1>3, <2>1, <2>2
<1>5. PICK g \in [0..Len(c) -> [R -> V]] : IsRun(g, r, c, t)
  BY RunSteps
<1>6. m \in [R -> V] /\ m = g[Len(c)]
  BY <1>1, <1>5 DEF IsRun
<1> HIDE DEF m
<1>7. PICK e \in [0..Len(d) -> [R -> V]] : IsRun(e, m, d, t)
  BY <1>6, RunSteps
<1>8. PICK h \in [0..Len(c \o d) -> [R -> V]] : IsRun(h, r, c \o d, t)
  BY <1>2, <1>4, RunSteps
<1> DEFINE S == {n \in Nat : n <= Len(c) => h[n] = g[n]}
           U == {n \in Nat : n <= Len(d) => h[Len(c) + n] = e[n]}
<1>9. Nat \subseteq S
  <2>1. 0 \in S
    BY <1>5, <1>8 DEF IsRun
  <2>2. ASSUME NEW n \in Nat, n \in S PROVE n + 1 \in S
    <3> SUFFICES ASSUME n + 1 <= Len(c) PROVE h[n + 1] = g[n + 1]
      OBVIOUS
    <3>1. /\ n <= Len(c) /\ n + 1 \in 1..Len(c) /\ n + 1 \in 1..(Len(c) + Len(d))
          /\ (n + 1) - 1 = n
      BY <1>1
    <3>2. h[n] = g[n] /\ (c \o d)[n + 1] = c[n + 1]
      BY <1>2, <2>2, <3>1
    <3>3. h[n + 1] = Execute(h[n], (c \o d)[n + 1], t)
      BY <1>2, <1>8, <3>1 DEF IsRun
    <3>4. g[n + 1] = Execute(g[n], c[n + 1], t)
      BY <1>5, <3>1 DEF IsRun
    <3> QED
      BY <3>2, <3>3, <3>4
  <2> HIDE DEF S
  <2> QED
    BY <2>1, <2>2, InductionOnSet
<1>10. h[Len(c)] = m
  BY <1>1, <1>6, <1>9
<1>11. Nat \subseteq U
  <2>1. 0 \in U
    BY <1>1, <1>7, <1>10 DEF IsRun
  <2>2. ASSUME NEW n \in Nat, n \in U PROVE n + 1 \in U
    <3> SUFFICES ASSUME n + 1 <= Len(d) PROVE h[Len(c) + (n + 1)] = e[n + 1]
      OBVIOUS
    <3>1. /\ n <= Len(d) /\ n + 1 \in 1..Len(d) /\ Len(c) + (n + 1) \in 1..(Len(c) + Len(d))
          /\ (n + 1) - 1 = n /\ (Len(c) + (n + 1)) - 1 = Len(c) + n
      BY <1>1
    <3>2. h[Len(c) + n] = e[n] /\ (c \o d)[Len(c) + (n + 1)] = d[n + 1]
      BY <1>2, <2>2, <3>1
    <3>3. h[Len(c) + (n + 1)] = Execute(h[Len(c) + n], (c \o d)[Len(c) + (n + 1)], t)
      BY <1>2, <1>8, <3>1 DEF IsRun
    <3>4. e[n + 1] = Execute(e[n], d[n + 1], t)
      BY <1>7, <3>1 DEF IsRun
    <3> QED
      BY <3>2, <3>3, <3>4
  <2> HIDE DEF U
  <2> QED
    BY <2>1, <2>2, InductionOnSet
<1>12. h[Len(c) + Len(d)] = e[Len(d)]
  BY <1>1, <1>11
<1>13. Execution(r, c \o d, t) = Execution(m, d, t)
  BY <1>2, <1>7, <1>8, <1>12 DEF IsRun
<1> QED
  BY <1>4, <1>6, <1>13 DEF m

RunsInTurn(r, c, d, t, R, V) ==
  /\ Execution(r, c, t) \in [R -> V]
  /\ Execution(r, c \o d, t) = Execution(Execution(r, c, t), d, t)
  /\ Runnable(c \o d, t, R, V)
LEMMA RunInTurn ==
  ASSUME NEW R, NEW V, NEW r \in [R -> V], NEW c, IsList(c), NEW d, IsList(d), NEW t,
         Runnable(c, t, R, V), Runnable(d, t, R, V)
  PROVE  RunsInTurn(r, c, d, t, R, V) /\ IsList(c \o d)
<1>1. RunsInTurn(r, c, d, t, R, V)
  BY RunConcat DEF RunsInTurn
<1>2. IsList(c \o d)
  BY ConcatLists
<1> QED
  BY <1>1, <1>2

(* Code none of whose moves reads what it writes, and which writes no      *)
(* register two different values, writes as if all at once.                *)
AtOnce(r, c, t) ==
  \A i, j \in DOMAIN c :
    /\ c[j].op = "mov" => ~Writes(c[i], c[j].srcs[1])
    /\ \A x : Writes(c[i], x) /\ Writes(c[j], x) => Written(r, c[i], t) = Written(r, c[j], t)

Outcome(q, r, c, t, R, V) ==
  /\ q \in [R -> V]
  /\ \A x \in R : \A i \in DOMAIN c : Writes(c[i], x) => q[x] = Written(r, c[i], t)
  /\ \A x \in R : (\A i \in DOMAIN c : ~Writes(c[i], x)) => q[x] = r[x]
LEMMA RunAtOnce ==
  ASSUME NEW R, NEW V, NEW r \in [R -> V], NEW c, IsList(c), NEW t,
         Runnable(c, t, R, V), AtOnce(r, c, t)
  PROVE  Outcome(Execution(r, c, t), r, c, t, R, V)
<1>1. Len(c) \in Nat /\ DOMAIN c = 1..Len(c)
  BY ListFacts
<1>2. PICK h \in [0..Len(c) -> [R -> V]] : IsRun(h, r, c, t)
  BY RunSteps
<1> DEFINE P(n) == \A x \in R :
                     /\ \A i \in 1..n : Writes(c[i], x) => h[n][x] = Written(r, c[i], t)
                     /\ (\A i \in 1..n : ~Writes(c[i], x)) => h[n][x] = r[x]
           S == {n \in Nat : n <= Len(c) => P(n)}
<1>3. 0 \in S
  BY <1>2 DEF IsRun
<1>4. ASSUME NEW n \in Nat, n \in S PROVE n + 1 \in S
  <2> HIDE DEF P
  <2> SUFFICES ASSUME n + 1 <= Len(c) PROVE P(n + 1)
    OBVIOUS
  <2>1. /\ n <= Len(c) /\ n \in 0..Len(c) /\ n + 1 \in 1..Len(c) /\ (n + 1) - 1 = n
        /\ \A i \in 1..(n + 1) : i \in 1..n \/ i = n + 1
        /\ 1..n \subseteq 1..Len(c) /\ 1..n \subseteq 1..(n + 1) /\ n + 1 \in 1..(n + 1)
    BY <1>1
  <2>2. P(n)
    BY <1>4, <2>1
  <2> DEFINE in == c[n + 1]
             w == Written(h[n], in, t)
  <2>3. h[n] \in [R -> V] /\ h[n + 1] = Execute(h[n], in, t)
    BY <1>2, <2>1 DEF IsRun
  <2>4. \A x \in R : h[n + 1][x] = IF Writes(in, x) THEN w ELSE h[n][x]
    <3>1. (in.op = "mov" => in.srcs[1] \in R) /\ <<in.val>> \in V /\ <<in.val, t>> \in V
      BY <1>1, <2>1 DEF Runnable
    <3> HIDE DEF in
    <3> QED
      BY <2>3, <3>1, ExecuteOne
  <2>5. w = Written(r, in, t)
    <3>1. CASE in.op = "mov"
      <4>1. in.srcs[1] \in R /\ \A i \in 1..n : ~Writes(c[i], in.srcs[1])
        BY <1>1, <2>1, <3>1 DEF Runnable, AtOnce
      <4>2. h[n][in.srcs[1]] = r[in.srcs[1]]
        BY <2>2, <4>1 DEF P
      <4> QED
        BY <3>1, <4>2 DEF Written
    <3>2. CASE in.op # "mov"
      BY <3>2 DEF Written
    <3> QED
      BY <3>1, <3>2
  <2> HIDE DEF w
  <2>6. ASSUME NEW x \in R, NEW i \in 1..(n + 1), Writes(c[i], x)
        PROVE  h[n + 1][x] = Written(r, c[i], t)
    <3>1. CASE Writes(in, x)
      <4>1. Written(r, in, t) = Written(r, c[i], t)
        BY <1>1, <2>1, <2>6, <3>1 DEF AtOnce
      <4> HIDE DEF in
      <4> QED
        BY <2>4, <2>5, <3>1, <4>1
    <3>2. CASE ~Writes(in, x)
      <4>1. i \in 1..n
        BY <2>1, <2>6, <3>2
      <4> HIDE DEF in
      <4> QED
        BY <2>2, <2>4, <2>6, <3>2, <4>1 DEF P
    <3> QED
      BY <3>1, <3>2
  <2>7. ASSUME NEW x \in R, \A i \in 1..(n + 1) : ~Writes(c[i], x)
        PROVE  h[n + 1][x] = r[x]
    <3>1. ~Writes(in, x) /\ \A i \in 1..n : ~Writes(c[i], x)
      BY <2>1, <2>7
    <3> HIDE DEF in
    <3> QED
      BY <2>2, <2>4, <3>1 DEF P
  <2> QED
    BY <2>6, <2>7 DEF P
<1>5. Nat \subseteq S
  <2> HIDE DEF S
  <2> QED
    BY <1>3, <1>4, InductionOnSet
<1>6. P(Len(c))
  <2>1. Len(c) \in S
    BY <1>1, <1>5
  <2> HIDE DEF P
  <2> QED
    BY <1>1, <2>1
<1> QED
  BY <1>1, <1>2, <1>6 DEF IsRun, Outcome

(* Code that writes nothing leaves the registers alone.                    *)
Idle(c) == \A i \in DOMAIN c : c[i].op \in {"use", "leave"}

LEMMA RunIdle ==
  ASSUME NEW R, NEW V, NEW r \in [R -> V], NEW c, IsList(c), NEW t,
         Runnable(c, t, R, V), Idle(c)
  PROVE  Execution(r, c, t) = r
<1>1. AtOnce(r, c, t) /\ \A x : \A i \in DOMAIN c : ~Writes(c[i], x)
  BY DEF AtOnce, Idle, Writes
<1>2. Outcome(Execution(r, c, t), r, c, t, R, V)
  BY <1>1, RunAtOnce
<1>3. Execution(r, c, t) \in [R -> V] /\ \A x \in R : Execution(r, c, t)[x] = r[x]
  BY <1>1, <1>2 DEF Outcome
<1> QED
  BY <1>3

-----------------------------------------------------------------------------
(* Jumps.  Code that starts with body, which has none, and goes on with    *)
(* exits, each of which ends in its only jump.                             *)
(* Every register it names is one that lowering makes.                     *)
Plain(v) == v # NoReg /\ v[1] # "fresh"
NamesPlain(in) == (\A v \in Uses(in) : Plain(v)) /\ (in.dst # NoReg => Plain(in.dst))
Straight(in) ==
  IsInstr(in) /\ in.to = <<>> /\ (in.op = "mov" => in.srcs[1] \in Uses(in)) /\ NamesPlain(in)
Exit(s) ==
  /\ IsList(s) /\ s # <<>>
  /\ \A i \in DOMAIN s : (s[i].op = "leave") = (i = Len(s)) /\ (i # Len(s) => Straight(s[i]))
NoJump(s) == IsList(s) /\ \A i \in DOMAIN s : s[i].op # "leave" /\ Straight(s[i])

(* The instructions that lowering emits, and their registers.              *)
LEMMA EmittedStraight ==
  ASSUME NEW x, NEW y
  PROVE  /\ Mov(x, y).op # "leave" /\ (Plain(x) /\ Plain(y) => Straight(Mov(x, y)))
         /\ Def(x, y).op # "leave" /\ (Plain(x) => Straight(Def(x, y)))
         /\ Imm(x, y).op # "leave" /\ (Plain(x) => Straight(Imm(x, y)))
         /\ Use(x).op # "leave"
         /\ IsList(x) /\ (\A v \in ToSet(x) : Plain(v)) => Straight(Use(x))
<1>1. y \in ToSet(<<y>>) /\ ToSet(<<y>>) = {y} /\ ToSet(<<>>) = {}
  <2>1. ToSet(<<>>) = {}
    BY DEF ToSet
  <2> QED
    BY <2>1, OneElement
<1>2. IsList(<<>>) /\ IsList(<<y>>)
  <2>1. <<y>> \in Seq({y}) /\ <<>> \in Seq({y})
    BY OneElement
  <2> QED
    BY <2>1, SeqIsList
<1>3. Mov(x, y).op # "leave" /\ (Plain(x) /\ Plain(y) => Straight(Mov(x, y)))
  BY <1>1, <1>2 DEF Mov, MInstr, Straight, IsInstr, Uses, NamesPlain
<1>4. Def(x, y).op # "leave" /\ (Plain(x) => Straight(Def(x, y)))
  BY <1>1, <1>2 DEF Def, MInstr, Straight, IsInstr, Uses, NamesPlain
<1>5. Imm(x, y).op # "leave" /\ (Plain(x) => Straight(Imm(x, y)))
  BY <1>1, <1>2 DEF Imm, MInstr, Straight, IsInstr, Uses, NamesPlain
<1>6. Use(x).op # "leave" /\ (IsList(x) /\ (\A v \in ToSet(x) : Plain(v)) => Straight(Use(x)))
  BY <1>1, <1>2 DEF Use, MInstr, Straight, IsInstr, Uses, NamesPlain
<1> QED
  BY <1>3, <1>4, <1>5, <1>6

LEMMA EmittedRegisters ==
  /\ \A x : Plain(<<"value", x>>)
  /\ \A at, k, i : Plain(<<"tmp", at, k, i>>)
  /\ \A g, b, x : Plain(Resolve(g, b, x))
  /\ \A g, src, at, k, dest, i : Plain(PhiSource(g, src, at, k, dest, i))
<1>1. ASSUME NEW x PROVE Plain(<<"value", x>>) /\ Plain(<<"placeholder", x>>)
  BY DEF Plain, NoReg
<1>2. ASSUME NEW at, NEW k, NEW i PROVE Plain(<<"tmp", at, k, i>>) /\ Plain(<<"const", at, k, i>>)
  BY DEF Plain, NoReg
<1>3. ASSUME NEW g, NEW b, NEW x PROVE Plain(Resolve(g, b, x))
  <2>1. Resolve(g, b, x) = <<"value", x>> \/ Resolve(g, b, x) = <<"placeholder", x>>
    BY DEF Resolve
  <2> QED
    BY <1>1, <2>1
<1>4. ASSUME NEW g, NEW src, NEW at, NEW k, NEW dest, NEW i
      PROVE  Plain(PhiSource(g, src, at, k, dest, i))
  BY <1>2, <1>3 DEF PhiSource
<1> QED
  BY <1>1, <1>2, <1>3, <1>4

(* An exit adds one jump, at its end.                                      *)
LEMMA OneMoreJump ==
  ASSUME NEW s, IsList(s), NEW e, Exit(e)
  PROVE  /\ IsFiniteSet(Jumps(s, Len(s)))
         /\ Cardinality(Jumps(s, Len(s))) \in Nat
         /\ Cardinality(Jumps(s \o e, Len(s \o e))) = Cardinality(Jumps(s, Len(s))) + 1
         /\ Len(s \o e) > 0 /\ (s \o e)[Len(s \o e)] = e[Len(e)] /\ e[Len(e)].op = "leave"
<1> DEFINE n == Len(s)
           m == Len(e)
           J == Jumps(s, n)
<1>1. n \in Nat /\ DOMAIN s = 1..n /\ m \in Nat /\ DOMAIN e = 1..m /\ m # 0
  <2>1. IsList(e) /\ e # <<>>
    BY DEF Exit
  <2>2. m # 0
    BY <2>1 DEF IsList
  <2> QED
    BY <2>1, <2>2, ListFacts
<1>2. /\ Len(s \o e) = n + m
      /\ \A i \in 1..n : (s \o e)[i] = s[i]
      /\ \A i \in 1..m : (s \o e)[n + i] = e[i]
  BY ConcatLists DEF Exit
<1> HIDE DEF n, m
<1>3. \A i \in 1..m : (e[i].op = "leave") = (i = m)
  BY <1>1 DEF Exit, m
<1>4. Jumps(s \o e, n + m) = J \cup {n + m}
  <2>1. ASSUME NEW i \in 1..(n + m)
        PROVE  ((s \o e)[i].op = "leave") = (i \in J \/ i = n + m)
    <3>1. CASE i \in 1..n
      BY <1>1, <1>2, <3>1 DEF Jumps
    <3>2. CASE i \notin 1..n
      <4>1. i - n \in 1..m /\ n + (i - n) = i /\ (i - n = m) = (i = n + m)
        BY <1>1, <3>2
      <4>2. (s \o e)[i] = e[i - n]
        BY <1>2, <4>1
      <4>3. i \notin J
        BY <3>2 DEF Jumps
      <4> QED
        BY <1>3, <4>1, <4>2, <4>3
    <3> QED
      BY <3>1, <3>2
  <2>2. J \subseteq 1..(n + m) /\ n + m \in 1..(n + m)
    BY <1>1 DEF Jumps
  <2>3. \A i : i \in Jumps(s \o e, n + m) <=> i \in 1..(n + m) /\ (s \o e)[i].op = "leave"
    BY DEF Jumps
  <2> HIDE DEF J
  <2> QED
    BY <2>1, <2>2, <2>3
<1>5. n + m \notin J /\ IsFiniteSet(J)
  <2>1. n + m \notin J /\ J \subseteq 1..n
    BY <1>1 DEF Jumps
  <2> QED
    BY <1>1, <2>1, Positions, FS_Subset
<1>6. Cardinality(J) \in Nat /\ Cardinality(J \cup {n + m}) = Cardinality(J) + 1
  <2> HIDE DEF J
  <2> QED
    BY <1>5, FS_AddElement, FS_CardinalityType
<1>7. n + m > 0 /\ (s \o e)[n + m] = e[m] /\ e[m].op = "leave"
  BY <1>1, <1>2, <1>3
<1> QED
  BY <1>2, <1>4, <1>5, <1>6, <1>7 DEF n, m

(* Where the k-th jump of code is, when the first i instructions have k,   *)
(* the last of them being one.                                             *)
LEMMA JumpFound ==
  ASSUME NEW c, IsList(c), NEW i \in 1..Len(c), c[i].op = "leave"
  PROVE  JumpAt(c, Cardinality(Jumps(c, i))) = i
<1> DEFINE k == Cardinality(Jumps(c, i))
<1>1. Len(c) \in Nat /\ DOMAIN c = 1..Len(c)
  BY ListFacts
<1>2. ASSUME NEW a \in 1..Len(c), NEW b \in 1..Len(c), a < b, c[b].op = "leave"
      PROVE  Cardinality(Jumps(c, a)) # Cardinality(Jumps(c, b))
  <2>1. Jumps(c, a) \subseteq Jumps(c, b) /\ b \in Jumps(c, b) \ Jumps(c, a)
    BY <1>2 DEF Jumps
  <2>2. Jumps(c, b) \subseteq 1..b /\ IsFiniteSet(1..b)
    BY Positions DEF Jumps
  <2>3. IsFiniteSet(Jumps(c, b))
    BY <2>2, FS_Subset
  <2> QED
    BY <2>1, <2>3, FS_Subset
<1>3. \A j \in DOMAIN c : c[j].op = "leave" /\ Cardinality(Jumps(c, j)) = k => j = i
  <2> SUFFICES ASSUME NEW j \in 1..Len(c), c[j].op = "leave", Cardinality(Jumps(c, j)) = k, j # i
               PROVE  FALSE
    BY <1>1
  <2>1. CASE i < j
    BY <1>2, <2>1
  <2>2. CASE j < i
    BY <1>2, <2>2
  <2> QED
    BY <1>1, <2>1, <2>2
<1> HIDE DEF k
<1>4. JumpAt(c, k) = CHOOSE j \in DOMAIN c : c[j].op = "leave" /\ Cardinality(Jumps(c, j)) = k
  BY DEF JumpAt
<1>5. i \in DOMAIN c /\ c[i].op = "leave" /\ Cardinality(Jumps(c, i)) = k
  BY <1>1 DEF k
<1>6. JumpAt(c, k) = i
  BY <1>3, <1>4, <1>5
<1> QED
  BY <1>6 DEF k

(* What runs up to the k-th jump of code with exits: the body, what comes  *)
(* of the exits before, and the k-th exit.                                 *)
AllExits(exits) == \A i \in DOMAIN exits : Exit(exits[i])
IsPath(before, c, body, exits, k) ==
  /\ IsList(before)
  /\ \A e \in ToSet(before) : \E j \in 1..(k - 1) : e \in ToSet(exits[j])
  /\ UpToJump(c, k) = body \o (before \o exits[k])

LEMMA PathOfParts ==
  ASSUME NEW X, NEW body, NoJump(body), NEW exits, AllExits(exits),
         NEW part, IsFlattening(part, exits, X), NEW k \in 1..Len(exits)
  PROVE  \E before : IsPath(before, body \o part[Len(exits)], body, exits, k)
<1> DEFINE n == Len(exits)
<1>1. n \in Nat /\ k \in 1..n /\ 1 \in 1..n
  BY FlattenTypes
<1>2. \A i \in 1..n : IsList(exits[i]) /\ Exit(exits[i])
  <2>1. DOMAIN exits = 1..n
    BY DEF IsFlattening
  <2> QED
    BY <2>1 DEF AllExits, Exit
<1>3. IsList(body)
  BY DEF NoJump
<1> DEFINE upto(i) == body \o part[i]
           OK(i) == /\ Len(upto(i)) \in Nat /\ Len(upto(i)) > 0
                    /\ Cardinality(Jumps(upto(i), Len(upto(i)))) = i
                    /\ upto(i)[Len(upto(i))].op = "leave"
           S == {i \in Nat : i + 1 \in 1..n => OK(i + 1)}
<1>5. \A i \in 1..n : IsList(upto(i)) /\ IsList(part[i])
  BY <1>3, FlattenTypes, ConcatLists
<1>6. OK(1)
  <2>1. part[1] = exits[1] /\ Exit(exits[1])
    BY <1>1, <1>2, FlattenTypes
  <2>2. Jumps(body, Len(body)) = {}
    BY <1>3, ListFacts DEF Jumps, NoJump
  <2>3. Cardinality(Jumps(upto(1), Len(upto(1)))) = 0 + 1
    BY <1>3, <2>1, <2>2, OneMoreJump, FS_EmptySet
  <2>4. Len(upto(1)) > 0 /\ upto(1)[Len(upto(1))].op = "leave"
    BY <1>3, <2>1, OneMoreJump
  <2>5. Len(upto(1)) \in Nat
    BY <1>1, <1>5, ListFacts
  <2> QED
    BY <2>3, <2>4, <2>5
<1>7. \A i \in Nat : i \in S => i + 1 \in S
  <2> HIDE DEF OK
  <2> SUFFICES ASSUME NEW i \in Nat, i \in S, (i + 1) + 1 \in 1..n PROVE OK((i + 1) + 1)
    OBVIOUS
  <2>1. i + 1 \in 1..n /\ (i + 1) + 1 \in 2..n /\ ((i + 1) + 1) - 1 = i + 1
    BY <1>1
  <2>2. OK(i + 1)
    BY <2>1
  <2>3. part[(i + 1) + 1] = part[i + 1] \o exits[(i + 1) + 1]
    <3> DEFINE m == i + 1
               l == (i + 1) + 1
    <3>1. m \in 1..n /\ l \in 1..n /\ l = m + 1
      BY <1>1, <2>1
    <3> HIDE DEF m, l
    <3>2. Joins(part[l], part[m], exits[l])
      BY <3>1, FlattenNext
    <3> QED
      BY <3>2 DEF Joins, m, l
  <2>4. upto((i + 1) + 1) = upto(i + 1) \o exits[(i + 1) + 1]
    <3> DEFINE s == part[i + 1]
               t == exits[(i + 1) + 1]
    <3>1. IsList(s) /\ IsList(t)
      BY <1>1, <1>2, <1>5, <2>1
    <3>2. body \o (s \o t) = (body \o s) \o t
      <4> HIDE DEF s, t
      <4> QED
        BY <1>3, <3>1, ListsAssociative
    <3> QED
      BY <2>3, <3>2
  <2>5. IsList(upto(i + 1)) /\ Exit(exits[(i + 1) + 1])
    BY <1>2, <1>5, <2>1
  <2>6. Len(upto((i + 1) + 1)) \in Nat
    BY <1>5, <2>1, ListFacts
  <2> HIDE DEF upto
  <2>7. /\ Cardinality(Jumps(upto((i + 1) + 1), Len(upto((i + 1) + 1)))) = (i + 1) + 1
        /\ Len(upto((i + 1) + 1)) > 0
        /\ upto((i + 1) + 1)[Len(upto((i + 1) + 1))].op = "leave"
    <3> DEFINE s == upto(i + 1)
               t == exits[(i + 1) + 1]
    <3>1. Cardinality(Jumps(s, Len(s))) = i + 1
      BY <2>2 DEF OK
    <3>2. /\ Cardinality(Jumps(s \o t, Len(s \o t))) = Cardinality(Jumps(s, Len(s))) + 1
          /\ Len(s \o t) > 0
          /\ (s \o t)[Len(s \o t)].op = "leave"
      <4>1. IsList(s) /\ Exit(t)
        BY <2>5
      <4> HIDE DEF s, t
      <4> QED
        BY <4>1, OneMoreJump
    <3> QED
      BY <2>4, <3>1, <3>2
  <2> QED
    BY <2>6, <2>7 DEF OK
<1>8. OK(k)
  <2> HIDE DEF OK
  <2>1. 0 \in S
    BY <1>6
  <2>2. Nat \subseteq S
    <3> HIDE DEF S
    <3> QED
      BY <1>7, <2>1, InductionOnSet
  <2>3. k - 1 \in Nat /\ (k - 1) + 1 = k
    BY <1>1
  <2> QED
    BY <1>1, <2>2, <2>3
<1> DEFINE c == upto(n)
           at == Len(upto(k))
<1>9. /\ Len(c) \in Nat /\ IsList(c) /\ at \in 1..Len(c)
      /\ \A i \in 1..at : c[i] = upto(k)[i]
  <2>1. /\ Len(part[k]) \in Nat /\ Len(part[n]) \in Nat /\ Len(part[k]) <= Len(part[n])
        /\ \A i \in 1..Len(part[k]) : part[n][i] = part[k][i]
    <3>1. k \in 1..n /\ n \in k..n
      BY <1>1
    <3> HIDE DEF upto, OK, S, c, at
    <3> QED
      BY <3>1, FlattenPrefix
  <2>2. n \in 1..n
    BY <1>1
  <2>3. Len(body) \in Nat
    BY <1>3, ListFacts
  <2>4. ASSUME NEW j \in 1..n
        PROVE  /\ Len(upto(j)) = Len(body) + Len(part[j])
               /\ \A i \in 1..Len(body) : upto(j)[i] = body[i]
               /\ \A i \in 1..Len(part[j]) : upto(j)[Len(body) + i] = part[j][i]
    BY <1>3, <1>5, ConcatLists
  <2>5. at = Len(body) + Len(part[k]) /\ Len(c) = Len(body) + Len(part[n])
    BY <1>1, <2>2, <2>4
  <2>6. ASSUME NEW i \in 1..at PROVE c[i] = upto(k)[i]
    <3>1. CASE i \in 1..Len(body)
      BY <1>1, <2>2, <2>4, <3>1
    <3>2. CASE i \notin 1..Len(body)
      <4> DEFINE j == i - Len(body)
      <4>1. j \in 1..Len(part[k]) /\ j \in 1..Len(part[n]) /\ Len(body) + j = i
        BY <2>1, <2>3, <2>5, <3>2
      <4> HIDE DEF j
      <4>2. c[Len(body) + j] = part[n][j] /\ upto(k)[Len(body) + j] = part[k][j]
        BY <1>1, <2>2, <2>4, <4>1
      <4> QED
        BY <2>1, <4>1, <4>2
    <3> QED
      BY <3>1, <3>2
  <2>7. IsList(c) /\ Len(c) \in Nat
    BY <1>5, <2>2, ListFacts
  <2>8. at \in 1..Len(c)
    <3>1. at > 0
      BY <1>8
    <3> HIDE DEF at, c
    <3> QED
      BY <2>1, <2>3, <2>5, <3>1
  <2> QED
    BY <2>6, <2>7, <2>8
<1>10. UpToJump(c, k) = upto(k)
  <2>1. c[at].op = "leave"
    <3>1. at \in 1..at
      BY <1>9
    <3> QED
      BY <1>8, <1>9, <3>1
  <2>2. Jumps(c, at) = Jumps(upto(k), at)
    <3> HIDE DEF c, upto, at
    <3> QED
      BY <1>9 DEF Jumps
  <2>3. Cardinality(Jumps(c, at)) = k
    BY <1>8, <2>2
  <2>4. JumpAt(c, k) = at
    <3> HIDE DEF c, at
    <3> QED
      BY <1>9, <2>1, <2>3, JumpFound
  <2>5. UpToJump(c, k) = SubSeq(c, 1, at)
    BY <2>4 DEF UpToJump
  <2>6. /\ IsList(upto(k)) /\ DOMAIN upto(k) = 1..at /\ upto(k) = [i \in 1..at |-> upto(k)[i]]
    <3>1. IsList(upto(k))
      BY <1>1, <1>5
    <3> HIDE DEF upto
    <3> QED
      BY <3>1, ListFacts DEF IsList
  <2>7. SubSeq(c, 1, at) = [i \in 1..at |-> c[i]]
    <3>1. at \in Nat
      BY <1>9
    <3> HIDE DEF c, at
    <3>2. SubSeq(c, 1, at) = [i \in 1..((at - 1) + 1) |-> c[(i + 1) - 1]]
      BY <1>9, <3>1 DEF IsList
    <3> QED
      BY <3>1, <3>2
  <2> HIDE DEF c, at, upto
  <2> QED
    BY <1>9, <2>5, <2>6, <2>7
<1>11. CASE k = 1
  <2> DEFINE before == <<>>
  <2>1. IsList(before) /\ before \o exits[1] = exits[1]
    BY <1>1, <1>2 DEF IsList
  <2>2. part[k] = before \o exits[k]
    BY <1>1, <1>11, <2>1, FlattenTypes
  <2>3. \A e \in ToSet(before) : \E j \in 1..(k - 1) : e \in ToSet(exits[j])
    BY DEF ToSet
  <2> HIDE DEF before
  <2>4. IsPath(before, c, body, exits, k)
    BY <1>10, <2>1, <2>2, <2>3 DEF IsPath
  <2> QED
    BY <2>4
<1>12. CASE k # 1
  <2> DEFINE m == k - 1
  <2>1. m \in 1..n /\ k = m + 1
    BY <1>1, <1>12
  <2> HIDE DEF m
  <2>2. Joins(part[k], part[m], exits[k])
    BY <1>1, <2>1, FlattenNext
  <2>3. \A e : e \in ToSet(part[m]) <=> Among(e, exits, m)
    BY <2>1, FlattenUpTo
  <2>4. IsList(part[m])
    BY <1>5, <2>1
  <2> HIDE DEF c
  <2>5. IsPath(part[m], c, body, exits, k)
    BY <1>10, <2>2, <2>3, <2>4 DEF IsPath, Joins, Among, m
  <2> QED
    BY <2>5 DEF c
<1> QED
  BY <1>11, <1>12

LEMMA PathToJump ==
  ASSUME NEW body, NoJump(body), NEW exits, IsList(exits), AllExits(exits), NEW k \in DOMAIN exits
  PROVE  \E before : IsPath(before, body \o FlattenSeq(exits), body, exits, k)
<1> DEFINE X == UNION {ToSet(exits[i]) : i \in DOMAIN exits}
<1>1. Len(exits) \in Nat /\ DOMAIN exits = 1..Len(exits) /\ k \in 1..Len(exits)
  BY ListFacts
<1>2. exits \in Seq(Seq(X))
  <2>1. \A i \in DOMAIN exits : IsList(exits[i])
    BY DEF Exit, AllExits
  <2> QED
    BY <2>1, NestedLists
<1>3. exits # <<>>
  BY <1>1
<1> HIDE DEF X
<1>4. PICK part : IsFlattening(part, exits, X) /\ FlattenSeq(exits) = part[Len(exits)]
  BY <1>2, <1>3, FlattenSteps
<1>5. \E before : IsPath(before, body \o part[Len(exits)], body, exits, k)
  BY <1>1, <1>4, PathOfParts
<1> QED
  BY <1>4, <1>5

-----------------------------------------------------------------------------
(* What lowering makes of a well-formed function.                          *)
LEMMA FunctionShape ==
  ASSUME NEW g, WellFormed(g)
  PROVE  /\ Len(g.succs) \in Nat /\ Len(g.succs) > 0 /\ Blocks(g) = 1..Len(g.succs)
         /\ \A b \in Blocks(g) :
              /\ IsList(g.succs[b]) /\ IsList(g.phis[b]) /\ IsList(g.defs[b]) /\ IsList(g.reads[b])
              /\ \A k \in DOMAIN g.succs[b] : g.succs[b][k] \in Blocks(g)
<1>1. IsList(g.succs) /\ g.succs # <<>>
  BY DEF WellFormed
<1>2. Len(g.succs) \in Nat /\ Len(g.succs) > 0
  <2>1. Len(g.succs) \in Nat
    BY <1>1, ListFacts
  <2>2. Len(g.succs) # 0
    BY <1>1 DEF IsList
  <2> QED
    BY <2>1, <2>2
<1>3. ASSUME NEW b \in Blocks(g)
      PROVE  /\ IsList(g.succs[b]) /\ IsList(g.phis[b]) /\ IsList(g.defs[b]) /\ IsList(g.reads[b])
             /\ \A k \in DOMAIN g.succs[b] : g.succs[b][k] \in Blocks(g)
  <2>1. /\ IsList(g.succs[b]) /\ IsList(g.phis[b]) /\ IsList(g.defs[b]) /\ IsList(g.reads[b])
        /\ ToSet(g.succs[b]) \subseteq Blocks(g)
    BY DEF WellFormed
  <2>2. \A k \in DOMAIN g.succs[b] : g.succs[b][k] \in ToSet(g.succs[b])
    BY <2>1, ListFacts
  <2> QED
    BY <2>1, <2>2
<1> QED
  BY <1>2, <1>3 DEF Blocks

(* The edges that are lowered are the first ones.                          *)
LEMMA LoweredOnes ==
  ASSUME NEW g, WellFormed(g), NEW b \in Blocks(g)
  PROVE  /\ LoweredEdges(g, b) \subseteq DOMAIN g.succs[b]
         /\ g.kind[b] # "catchswitch" => LoweredEdges(g, b) = DOMAIN g.succs[b]
         /\ \E n \in Nat : LoweredEdges(g, b) = 1..n
         /\ g.kind[b] # "ret" => 1 \in LoweredEdges(g, b)
         /\ \A k \in LoweredEdges(g, b) : g.kind[b] # "ret" /\ \A j \in 1..k : j \in LoweredEdges(g, b)
<1> DEFINE n == Len(g.succs[b])
<1>1. n \in Nat /\ DOMAIN g.succs[b] = 1..n
  BY FunctionShape, ListFacts
<1>2. (g.kind[b] = "ret") = (g.succs[b] = <<>>) /\ IsList(g.succs[b])
  BY DEF WellFormed
<1>3. g.succs[b] = <<>> <=> n = 0
  BY <1>2 DEF IsList
<1>4. LoweredEdges(g, b) = 1..(IF g.kind[b] = "catchswitch" THEN 1 ELSE n)
  BY DEF LoweredEdges
<1> HIDE DEF n
<1>5. CASE g.kind[b] = "catchswitch"
  <2>1. LoweredEdges(g, b) = 1..1 /\ n # 0
    BY <1>2, <1>3, <1>4, <1>5
  <2> QED
    BY <1>1, <1>5, <2>1
<1>6. CASE g.kind[b] # "catchswitch"
  <2>1. LoweredEdges(g, b) = 1..n
    BY <1>4, <1>6
  <2> QED
    BY <1>1, <1>2, <1>3, <1>6, <2>1
<1> QED
  BY <1>5, <1>6

(* How control leaves.                                                     *)
LEMMA LeaveFacts ==
  /\ \A to : Jump(to).op = "leave" /\ Jump(to).val = to /\ Jump(to).to = <<to>> /\ Targets(Jump(to)) = {to}
  /\ \A to : Call(to).op = "leave" /\ Call(to).val = to /\ Call(to).to = <<>> /\ Targets(Call(to)) = {}
  /\ \A g, b, k : /\ Leave(g, b, k) \in {Jump(ExitTo(g, b, k)), Call(ExitTo(g, b, k))}
                  /\ k # 1 \/ g.kind[b] # "invoke" => Leave(g, b, k) = Jump(ExitTo(g, b, k))
                  /\ Leave(g, b, k).op = "leave" /\ Leave(g, b, k).val = ExitTo(g, b, k)
<1>1. ASSUME NEW to
      PROVE  /\ Jump(to).op = "leave" /\ Jump(to).val = to /\ Jump(to).to = <<to>>
             /\ Call(to).op = "leave" /\ Call(to).val = to /\ Call(to).to = <<>>
  BY DEF Jump, Call, MInstr
<1>2. ASSUME NEW to PROVE ToSet(<<to>>) = {to} /\ ToSet(<<>>) = {}
  <2>1. ToSet(<<>>) = {}
    BY DEF ToSet
  <2> QED
    BY <2>1, OneElement
<1>3. ASSUME NEW to PROVE Targets(Jump(to)) = {to} /\ Targets(Call(to)) = {}
  BY <1>1, <1>2 DEF Targets
<1>4. ASSUME NEW g, NEW b, NEW k
      PROVE  /\ Leave(g, b, k) \in {Jump(ExitTo(g, b, k)), Call(ExitTo(g, b, k))}
             /\ k # 1 \/ g.kind[b] # "invoke" => Leave(g, b, k) = Jump(ExitTo(g, b, k))
  BY DEF Leave
<1>5. ASSUME NEW g, NEW b, NEW k
      PROVE  Leave(g, b, k).op = "leave" /\ Leave(g, b, k).val = ExitTo(g, b, k)
  BY <1>1, <1>4
<1> QED
  BY <1>1, <1>3, <1>4, <1>5

(* The copies of an edge.                                                  *)
LEMMA CopiedPhis ==
  ASSUME NEW g, WellFormed(g), NEW src, NEW dest \in Blocks(g)
  PROVE  /\ IsList(Copied(g, src, dest)) /\ IsList(ConstPhis(g, src, dest))
         /\ \A p : p \in ToSet(Copied(g, src, dest)) <=>
                     p \in ToSet(g.phis[dest]) /\ src \in DOMAIN p.inc /\ p.inc[src] # p.dst
         /\ \A i : i \in ToSet(ConstPhis(g, src, dest)) <=>
                     i \in 1..Len(Copied(g, src, dest)) /\ Incoming(g, src, dest, i) \in Consts
<1> DEFINE K == {p \in ToSet(g.phis[dest]) : src \in DOMAIN p.inc /\ p.inc[src] # p.dst}
           n == Len(Copied(g, src, dest))
           C == {i \in 1..n : Incoming(g, src, dest, i) \in Consts}
           all == [i \in 1..n |-> i]
<1>1. g.phis[dest] \in Seq(ToSet(g.phis[dest]))
  BY FunctionShape DEF IsList
<1>2. /\ Copied(g, src, dest) \in Seq(ToSet(g.phis[dest]))
      /\ \A p : p \in ToSet(Copied(g, src, dest)) <=> p \in ToSet(g.phis[dest]) /\ p \in K
  <2>1. Copied(g, src, dest) = Kept(g.phis[dest], K)
    BY DEF Copied
  <2> HIDE DEF K
  <2> QED
    BY <1>1, <2>1, KeptElements
<1>3. IsList(Copied(g, src, dest)) /\ n \in Nat
  BY <1>2, SeqIsList, ListFacts
<1>4. all \in Seq(1..n) /\ \A i : i \in ToSet(all) <=> i \in 1..n
  <2>1. all \in Seq(1..n) /\ DOMAIN all = 1..n /\ \A i \in 1..n : all[i] = i
    BY <1>3
  <2> QED
    BY <2>1 DEF ToSet
<1>5. /\ ConstPhis(g, src, dest) \in Seq(1..n)
      /\ \A i : i \in ToSet(ConstPhis(g, src, dest)) <=> i \in 1..n /\ i \in C
  <2>1. ConstPhis(g, src, dest) = Kept(all, C)
    BY DEF ConstPhis
  <2> HIDE DEF C, all, n
  <2> QED
    BY <1>4, <2>1, KeptElements
<1> QED
  BY <1>2, <1>3, <1>5, SeqIsList

LEMMA CopyLists ==
  ASSUME NEW g, WellFormed(g), NEW src, NEW at, NEW k, NEW dest \in Blocks(g)
  PROVE  /\ NoJump(LoadConsts(g, src, at, k, dest))
         /\ NoJump(Snapshot(g, src, at, k, dest))
         /\ NoJump(WritePhis(g, src, at, k, dest))
         /\ Len(LoadConsts(g, src, at, k, dest)) = Len(ConstPhis(g, src, dest))
         /\ Len(Snapshot(g, src, at, k, dest)) = Len(Copied(g, src, dest))
         /\ Len(WritePhis(g, src, at, k, dest)) = Len(Copied(g, src, dest))
<1> DEFINE n == Len(Copied(g, src, dest))
           m == Len(ConstPhis(g, src, dest))
<1>1. n \in Nat /\ m \in Nat
  BY CopiedPhis, ListFacts
<1>2. IsList(LoadConsts(g, src, at, k, dest)) /\ Len(LoadConsts(g, src, at, k, dest)) = m
  <2> DEFINE c == LoadConsts(g, src, at, k, dest)
  <2>1. c = [i \in 1..m |-> c[i]]
    BY DEF LoadConsts
  <2> HIDE DEF c, m
  <2> QED
    BY <1>1, <2>1, FunctionIsList DEF c
<1>3. IsList(Snapshot(g, src, at, k, dest)) /\ Len(Snapshot(g, src, at, k, dest)) = n
  <2> DEFINE c == Snapshot(g, src, at, k, dest)
  <2>1. c = [i \in 1..n |-> c[i]]
    BY DEF Snapshot
  <2> HIDE DEF c, n
  <2> QED
    BY <1>1, <2>1, FunctionIsList DEF c
<1>4. IsList(WritePhis(g, src, at, k, dest)) /\ Len(WritePhis(g, src, at, k, dest)) = n
  <2> DEFINE c == WritePhis(g, src, at, k, dest)
  <2>1. c = [i \in 1..n |-> c[i]]
    BY DEF WritePhis
  <2> HIDE DEF c, n
  <2> QED
    BY <1>1, <2>1, FunctionIsList DEF c
<1>5. \A i \in DOMAIN LoadConsts(g, src, at, k, dest) :
       LET in == LoadConsts(g, src, at, k, dest)[i] IN in.op # "leave" /\ Straight(in)
  BY EmittedStraight, EmittedRegisters DEF LoadConsts
<1>6. \A i \in DOMAIN Snapshot(g, src, at, k, dest) :
       LET in == Snapshot(g, src, at, k, dest)[i] IN in.op # "leave" /\ Straight(in)
  BY EmittedStraight, EmittedRegisters DEF Snapshot
<1>7. \A i \in DOMAIN WritePhis(g, src, at, k, dest) :
       LET in == WritePhis(g, src, at, k, dest)[i] IN in.op # "leave" /\ Straight(in)
  BY EmittedStraight, EmittedRegisters DEF WritePhis
<1> QED
  BY <1>2, <1>3, <1>4, <1>5, <1>6, <1>7 DEF NoJump

LEMMA NoJumpConcat ==
  ASSUME NEW s, NoJump(s), NEW t, NoJump(t)
  PROVE  NoJump(s \o t)
<1>1. IsList(s) /\ IsList(t)
  BY DEF NoJump
<1>2. IsList(s \o t) /\ ToSet(s \o t) = ToSet(s) \cup ToSet(t)
  BY <1>1, ConcatLists
<1> DEFINE u == s \o t
<1>3. ASSUME NEW i \in DOMAIN u PROVE u[i].op # "leave" /\ Straight(u[i])
  <2>1. u[i] \in ToSet(s) \cup ToSet(t)
    BY <1>2, ListFacts
  <2> HIDE DEF u
  <2> QED
    BY <2>1 DEF NoJump, ToSet
<1> QED
  BY <1>2, <1>3 DEF NoJump

LEMMA CopiesJumpNot ==
  ASSUME NEW g, WellFormed(g), NEW src, NEW at, NEW k, NEW dest \in Blocks(g)
  PROVE  NoJump(EmitPhiCopies(g, src, at, k, dest))
<1> DEFINE A == LoadConsts(g, src, at, k, dest)
           B == Snapshot(g, src, at, k, dest)
           C == WritePhis(g, src, at, k, dest)
<1>1. NoJump(A) /\ NoJump(B) /\ NoJump(C)
  BY CopyLists
<1>2. EmitPhiCopies(g, src, at, k, dest) = (A \o B) \o C
  BY DEF EmitPhiCopies
<1> HIDE DEF A, B, C
<1> QED
  BY <1>1, <1>2, NoJumpConcat

LEMMA OneInstruction ==
  ASSUME NEW in
  PROVE  IsList(<<in>>) /\ Len(<<in>>) = 1 /\ ToSet(<<in>>) = {in} /\ DOMAIN <<in>> = {1}
         /\ (in.op # "leave" /\ Straight(in) => NoJump(<<in>>))
<1>1. Len(<<in>>) = 1 /\ DOMAIN <<in>> = {1} /\ <<in>>[1] = in
  OBVIOUS
<1>2. <<in>> \in Seq({in}) /\ ToSet(<<in>>) = {in}
  BY OneElement
<1> QED
  BY <1>1, <1>2, SeqIsList DEF NoJump

LEMMA ConcatOne ==
  ASSUME NEW s, IsList(s), NEW e
  PROVE  s \o <<e>> = Append(s, e)
  BY DEF IsList

LEMMA WithOne ==
  ASSUME NEW s, IsList(s), NEW e
  PROVE  ToSet(s \o <<e>>) = ToSet(s) \cup {e}
<1>1. s \o <<e>> = Append(s, e)
  BY ConcatOne
<1>2. ToSet(Append(s, e)) = ToSet(s) \cup {e}
  BY AppendList
<1> QED
  BY <1>1, <1>2

LEMMA NoInstruction == NoJump(<<>>) /\ IsList(<<>>) /\ ToSet(<<>>) = {}
  BY DEF NoJump, IsList, ToSet

LEMMA BodyJumpNot ==
  ASSUME NEW g, WellFormed(g), NEW b \in Blocks(g)
  PROVE  NoJump(Body(g, b))
<1> DEFINE n == Len(g.defs[b])
           defs == [i \in 1..n |-> Def(Resolve(g, b, g.defs[b][i]), g.defs[b][i])]
           use == Use([i \in 1..Len(g.reads[b]) |-> Resolve(g, b, g.reads[b][i])])
<1>1. n \in Nat
  BY FunctionShape, ListFacts
<1>2. \A i \in DOMAIN defs : defs[i].op # "leave" /\ Straight(defs[i])
  BY EmittedStraight, EmittedRegisters
<1>3. IsList(defs)
  <2>1. defs = [i \in 1..n |-> defs[i]]
    OBVIOUS
  <2> HIDE DEF defs, n
  <2> QED
    BY <1>1, <2>1, FunctionIsList
<1>4. use.op # "leave" /\ Straight(use)
  <2> DEFINE m == Len(g.reads[b])
             reads == [i \in 1..m |-> Resolve(g, b, g.reads[b][i])]
  <2>1. m \in Nat /\ reads = [i \in 1..m |-> reads[i]]
    BY FunctionShape, ListFacts
  <2> HIDE DEF m, reads
  <2>2. IsList(reads)
    BY <2>1, FunctionIsList
  <2>3. \A v \in ToSet(reads) : Plain(v)
    BY EmittedRegisters DEF ToSet, reads
  <2>4. Use(reads).op # "leave" /\ Straight(Use(reads))
    BY <2>2, <2>3, EmittedStraight
  <2> QED
    BY <2>4 DEF reads, m
<1>5. Body(g, b) = defs \o <<use>>
  BY DEF Body
<1> HIDE DEF defs, use
<1>6. NoJump(defs) /\ NoJump(<<use>>)
  BY <1>2, <1>3, <1>4, OneInstruction DEF NoJump
<1> QED
  BY <1>5, <1>6, NoJumpConcat

LEMMA AppendExit ==
  ASSUME NEW s, NoJump(s), NEW e, e.op = "leave"
  PROVE  Exit(Append(s, e))
<1> DEFINE u == Append(s, e)
<1>1. /\ IsList(u) /\ u # <<>> /\ Len(u) = Len(s) + 1 /\ DOMAIN u = 1..(Len(s) + 1)
      /\ Len(s) \in Nat /\ \A i \in 1..Len(s) : u[i] = s[i]
      /\ u[Len(s) + 1] = e
  BY AppendList DEF NoJump
<1>2. e.op = "leave"
  OBVIOUS
<1>3. DOMAIN s = 1..Len(s)
  BY ListFacts DEF NoJump
<1> HIDE DEF u
<1>4. ASSUME NEW i \in DOMAIN u PROVE (u[i].op = "leave") = (i = Len(u)) /\ (i # Len(u) => Straight(u[i]))
  <2>1. CASE i = Len(s) + 1
    BY <1>1, <1>2, <2>1
  <2>2. CASE i \in 1..Len(s)
    BY <1>1, <1>3, <2>2 DEF NoJump
  <2> QED
    BY <1>1, <2>1, <2>2
<1> QED
  BY <1>1, <1>4 DEF Exit, u

LEMMA ExitCodes ==
  ASSUME NEW g, WellFormed(g), NEW b \in Blocks(g), NEW k \in DOMAIN g.succs[b]
  PROVE  NoJump(ExitCode(g, b, k))
<1> DEFINE copies == EmitPhiCopies(g, b, b, k, g.succs[b][k])
           operand == Resolve(g, b, g.operand[b])
           use == Use(<<operand>>)
           def == Def(operand, g.operand[b])
<1>1. NoJump(copies)
  BY FunctionShape, CopiesJumpNot
<1>2. NoJump(<<use>>) /\ NoJump(<<def>>)
  <2>1. Plain(operand) /\ IsList(<<operand>>) /\ ToSet(<<operand>>) = {operand}
    BY OneInstruction, EmittedRegisters
  <2> HIDE DEF operand
  <2>2. (use.op # "leave" /\ Straight(use)) /\ (def.op # "leave" /\ Straight(def))
    BY <2>1, EmittedStraight
  <2> QED
    BY <2>2, OneInstruction
<1>3. g.kind[b] \in {"br", "condbr", "switch", "invoke", "catchret", "catchswitch"}
  <2>1. IsList(g.succs[b]) /\ (g.kind[b] = "ret") = (g.succs[b] = <<>>)
        /\ g.kind[b] \in {"br", "condbr", "switch", "invoke", "catchret", "catchswitch", "ret"}
    BY DEF WellFormed
  <2>2. g.succs[b] # <<>>
    OBVIOUS
  <2> QED
    BY <2>1, <2>2
<1> HIDE DEF copies, use, def
<1>4. CASE g.kind[b] = "br"
  BY <1>1, <1>4 DEF ExitCode, copies
<1>5. CASE g.kind[b] = "condbr"
  BY <1>2, <1>5, NoInstruction DEF ExitCode, use
<1>6. CASE g.kind[b] = "switch"
  <2>1. \/ ExitCode(g, b, k) = copies \o <<>>
        \/ ExitCode(g, b, k) = copies \o <<use>>
    BY <1>6 DEF ExitCode, copies, use
  <2> QED
    BY <1>1, <1>2, <2>1, NoInstruction, NoJumpConcat
<1>7. CASE g.kind[b] = "invoke"
  <2>1. \/ ExitCode(g, b, k) = <<>>
        \/ ExitCode(g, b, k) = <<>> \o copies
        \/ ExitCode(g, b, k) = <<def>> \o copies
    BY <1>7 DEF ExitCode, copies, def
  <2> QED
    BY <1>1, <1>2, <2>1, NoInstruction, NoJumpConcat
<1>8. CASE g.kind[b] \in {"catchret", "catchswitch"}
  BY <1>8, NoInstruction DEF ExitCode
<1> QED
  BY <1>3, <1>4, <1>5, <1>6, <1>7, <1>8

(* The exits of a block.                                                   *)
LEMMA BlockExits ==
  ASSUME NEW g, WellFormed(g), NEW b \in Blocks(g)
  PROVE  /\ IsList(Exits(g, b)) /\ AllExits(Exits(g, b)) /\ DOMAIN Exits(g, b) = LoweredEdges(g, b)
         /\ \A k \in LoweredEdges(g, b) :
              Exits(g, b)[k] = Append(ExitCode(g, b, k), Leave(g, b, k))
<1>1. PICK n \in Nat : LoweredEdges(g, b) = 1..n
  BY LoweredOnes
<1> DEFINE e == Exits(g, b)
<1>2. /\ e = [i \in 1..n |-> e[i]] /\ DOMAIN e = 1..n
      /\ \A k \in 1..n : e[k] = Append(ExitCode(g, b, k), Leave(g, b, k))
  BY <1>1 DEF Exits
<1>3. IsList(e)
  <2> HIDE DEF e
  <2> QED
    BY <1>1, <1>2, FunctionIsList
<1>4. \A k \in 1..n : Exit(e[k])
  <2> TAKE k \in 1..n
  <2> DEFINE leave == Leave(g, b, k)
  <2>1. NoJump(ExitCode(g, b, k)) /\ leave.op = "leave"
    BY <1>1, LoweredOnes, LeaveFacts, ExitCodes
  <2>2. e[k] = Append(ExitCode(g, b, k), leave)
    BY <1>2
  <2> HIDE DEF leave, e
  <2> QED
    BY <2>1, <2>2, AppendExit
<1> QED
  BY <1>1, <1>2, <1>3, <1>4 DEF AllExits

-----------------------------------------------------------------------------
(* The trampolines.  CondBrs: the blocks up to b that have two of them.    *)
CondBrs(g, b) == {c \in 1..b : g.kind[c] = "condbr"}

LEMMA CondBrCount ==
  ASSUME NEW g, NEW b \in Nat
  PROVE  /\ IsFiniteSet(CondBrs(g, b)) /\ Cardinality(CondBrs(g, b)) \in Nat
         /\ CondBrs(g, 0) = {}
         /\ g.kind[b + 1] = "condbr" =>
              Cardinality(CondBrs(g, b + 1)) = Cardinality(CondBrs(g, b)) + 1
         /\ g.kind[b + 1] # "condbr" => CondBrs(g, b + 1) = CondBrs(g, b)
<1>1. IsFiniteSet(CondBrs(g, b))
  <2>1. CondBrs(g, b) \subseteq 1..b /\ IsFiniteSet(1..b)
    BY Positions DEF CondBrs
  <2> QED
    BY <2>1, FS_Subset
<1>2. Cardinality(CondBrs(g, b)) \in Nat
  BY <1>1, FS_CardinalityType
<1>3. CondBrs(g, 0) = {}
  BY DEF CondBrs
<1>4. 1..(b + 1) = 1..b \cup {b + 1} /\ b + 1 \notin 1..b
  OBVIOUS
<1>5. ASSUME g.kind[b + 1] = "condbr"
      PROVE  Cardinality(CondBrs(g, b + 1)) = Cardinality(CondBrs(g, b)) + 1
  <2>1. CondBrs(g, b + 1) = CondBrs(g, b) \cup {b + 1} /\ b + 1 \notin CondBrs(g, b)
    BY <1>4, <1>5 DEF CondBrs
  <2> QED
    BY <1>1, <2>1, FS_AddElement
<1>6. ASSUME g.kind[b + 1] # "condbr" PROVE CondBrs(g, b + 1) = CondBrs(g, b)
  BY <1>4, <1>6 DEF CondBrs
<1> QED
  BY <1>1, <1>2, <1>3, <1>5, <1>6

LEMMA LowerEdges ==
  ASSUME NEW g, WellFormed(g), NEW b \in Blocks(g), g.kind[b] = "condbr", NEW k \in {1, 2}
  PROVE  /\ k \in DOMAIN g.succs[b]
         /\ Exit(LowerEdge(g, b, k))
         /\ LowerEdge(g, b, k) =
              Append(EmitPhiCopies(g, b, EdgeBlock(g, b, k), k, g.succs[b][k]), Jump(g.succs[b][k]))
<1>1. k \in DOMAIN g.succs[b]
  <2>1. Len(g.succs[b]) = 2
    BY DEF WellFormed
  <2>2. DOMAIN g.succs[b] = 1..Len(g.succs[b])
    BY FunctionShape, ListFacts
  <2> QED
    BY <2>1, <2>2
<1>2. g.succs[b][k] \in Blocks(g)
  BY <1>1, FunctionShape
<1> QED
  BY <1>1, <1>2, CopiesJumpNot, LeaveFacts, AppendExit DEF LowerEdge

LEMMA EdgeBlockList ==
  ASSUME NEW g, WellFormed(g), NEW b \in Blocks(g)
  PROVE  /\ IsList(EdgeBlocks(g, b))
         /\ Len(EdgeBlocks(g, b)) = IF g.kind[b] = "condbr" THEN 2 ELSE 0
         /\ g.kind[b] = "condbr" => \A k \in {1, 2} : EdgeBlocks(g, b)[k] = LowerEdge(g, b, k)
         /\ \A e \in ToSet(EdgeBlocks(g, b)) :
              g.kind[b] = "condbr" /\ \E k \in {1, 2} : e = LowerEdge(g, b, k)
<1>1. CASE g.kind[b] = "condbr"
  <2> DEFINE e1 == LowerEdge(g, b, 1)
             e2 == LowerEdge(g, b, 2)
             s == <<e1, e2>>
  <2>1. EdgeBlocks(g, b) = s
    BY <1>1 DEF EdgeBlocks
  <2> HIDE DEF e1, e2
  <2>2. Len(s) = 2 /\ DOMAIN s = {1, 2} /\ s[1] = e1 /\ s[2] = e2 /\ s \in Seq({e1, e2})
    OBVIOUS
  <2>3. IsList(s)
    BY <2>2, SeqIsList
  <2>4. \A e \in ToSet(s) : e = e1 \/ e = e2
    BY <2>2 DEF ToSet
  <2> QED
    BY <1>1, <2>1, <2>2, <2>3, <2>4 DEF e1, e2
<1>2. CASE g.kind[b] # "condbr"
  <2>1. EdgeBlocks(g, b) = <<>>
    BY <1>2 DEF EdgeBlocks
  <2> QED
    BY <1>2, <2>1, NoInstruction
<1> QED
  BY <1>1, <1>2

LEMMA LoweredBlocks ==
  ASSUME NEW g, WellFormed(g)
  PROVE  /\ IsList(LowerFunction(g)) /\ Len(LowerFunction(g)) \in Nat
         /\ Len(g.succs) <= Len(LowerFunction(g))
         /\ \A b \in Blocks(g) : LowerFunction(g)[b] = LowerBlock(g, b)
         /\ \A b \in Blocks(g) : \A k \in {1, 2} : g.kind[b] = "condbr" =>
              /\ EdgeBlock(g, b, k) \in (Len(g.succs) + 1)..Len(LowerFunction(g))
              /\ LowerFunction(g)[EdgeBlock(g, b, k)] = LowerEdge(g, b, k)
         /\ \A i \in (Len(g.succs) + 1)..Len(LowerFunction(g)) :
              \E b \in Blocks(g) : \E k \in {1, 2} :
                g.kind[b] = "condbr" /\ LowerFunction(g)[i] = LowerEdge(g, b, k)
<1> DEFINE n == Len(g.succs)
           own == [b \in Blocks(g) |-> LowerBlock(g, b)]
           nested == [b \in Blocks(g) |-> EdgeBlocks(g, b)]
           X == UNION {ToSet(nested[i]) : i \in DOMAIN nested}
           edges == FlattenSeq(nested)
           D(b) == Cardinality(CondBrs(g, b))
<1>1. n \in Nat /\ n > 0 /\ Blocks(g) = 1..n
  BY FunctionShape
<1>2. IsList(own) /\ Len(own) = n /\ \A b \in Blocks(g) : own[b] = LowerBlock(g, b)
  <2>1. own = [b \in 1..n |-> own[b]] /\ \A b \in Blocks(g) : own[b] = LowerBlock(g, b)
    BY <1>1
  <2> HIDE DEF own, n
  <2> QED
    BY <1>1, <2>1, FunctionIsList
<1>3. /\ IsList(nested) /\ Len(nested) = n /\ DOMAIN nested = 1..n
      /\ \A b \in 1..n : nested[b] = EdgeBlocks(g, b)
  <2>1. nested = [b \in 1..n |-> nested[b]] /\ \A b \in 1..n : nested[b] = EdgeBlocks(g, b)
    BY <1>1
  <2>2. DOMAIN nested = 1..n
    BY <1>1
  <2> HIDE DEF nested, n
  <2> QED
    BY <1>1, <2>1, <2>2, FunctionIsList
<1> HIDE DEF own, nested
<1>4. nested \in Seq(Seq(X)) /\ nested # <<>>
  <2>1. \A i \in DOMAIN nested : IsList(nested[i])
    BY <1>1, <1>3, EdgeBlockList
  <2>2. nested # <<>>
    BY <1>1, <1>3
  <2> HIDE DEF n
  <2> QED
    BY <1>3, <2>1, <2>2, NestedLists
<1> HIDE DEF X
<1>5. PICK part : IsFlattening(part, nested, X) /\ edges = part[n]
  BY <1>3, <1>4, FlattenSteps
<1> HIDE DEF D, edges
<1>6. \A b \in 1..n : IsList(part[b]) /\ Len(part[b]) \in Nat
  BY <1>3, <1>5, FlattenTypes, ListFacts
<1>7. ASSUME NEW a \in Nat, NEW b \in 1..n, b = a + 1, a = 0 \/ (a \in 1..n /\ Len(part[a]) = 2 * D(a))
      PROVE  /\ Len(part[b]) = 2 * D(b) /\ D(a) \in Nat
             /\ g.kind[b] = "condbr" => \A k \in {1, 2} : part[b][2 * D(a) + k] = LowerEdge(g, b, k)
  <2>1. /\ D(a) \in Nat /\ D(0) = 0
        /\ g.kind[b] = "condbr" => D(b) = D(a) + 1
        /\ g.kind[b] # "condbr" => D(b) = D(a)
    BY <1>7, CondBrCount, FS_EmptySet DEF D
  <2> DEFINE s == IF a = 0 THEN <<>> ELSE part[a]
             t == EdgeBlocks(g, b)
  <2>2. IsList(s) /\ Len(s) = 2 * D(a)
    <3>1. CASE a = 0
      BY <2>1, <3>1, NoInstruction
    <3>2. CASE a # 0
      BY <1>6, <1>7, <3>2
    <3> QED
      BY <3>1, <3>2
  <2>3. /\ IsList(t) /\ Len(t) = IF g.kind[b] = "condbr" THEN 2 ELSE 0
        /\ g.kind[b] = "condbr" => \A k \in {1, 2} : t[k] = LowerEdge(g, b, k)
    BY <1>1, EdgeBlockList
  <2>4. part[b] = s \o t
    <3>1. CASE a = 0
      <4>1. b = 1 /\ part[1] = nested[1]
        BY <1>3, <1>5, <1>7, <3>1, FlattenTypes
      <4>2. part[b] = t
        BY <1>3, <4>1
      <4>3. <<>> \o t = t
        <5> HIDE DEF t
        <5> QED
          BY <2>3 DEF IsList
      <4> QED
        BY <3>1, <4>2, <4>3
    <3>2. CASE a # 0
      <4>1. Joins(part[b], part[a], nested[b])
        BY <1>3, <1>5, <1>7, <3>2, FlattenNext
      <4> QED
        BY <1>3, <3>2, <4>1 DEF Joins
    <3> QED
      BY <3>1, <3>2
  <2> HIDE DEF s, t
  <2>5. /\ Len(part[b]) = Len(s) + Len(t)
        /\ \A k \in 1..Len(t) : part[b][Len(s) + k] = t[k]
    <3>1. /\ Len(s \o t) = Len(s) + Len(t)
          /\ \A k \in 1..Len(t) : (s \o t)[Len(s) + k] = t[k]
      <4>1. IsList(s) /\ IsList(t)
        BY <2>2, <2>3
      <4> QED
        BY <4>1, ConcatLists
    <3> QED
      BY <2>4, <3>1, Zenon
  <2>6. CASE g.kind[b] = "condbr"
    <3>1. Len(t) = 2 /\ 1 \in 1..Len(t) /\ 2 \in 1..Len(t)
      BY <2>3, <2>6
    <3>2. part[b][2 * D(a) + 1] = t[1] /\ part[b][2 * D(a) + 2] = t[2]
      BY <2>2, <2>5, <3>1
    <3>3. Len(part[b]) = 2 * D(b)
      BY <2>1, <2>2, <2>5, <2>6, <3>1
    <3> QED
      BY <2>1, <2>3, <2>6, <3>2, <3>3
  <2>7. CASE g.kind[b] # "condbr"
    BY <2>1, <2>2, <2>3, <2>5, <2>7
  <2> QED
    BY <2>6, <2>7
<1>8. \A b \in 1..n : Len(part[b]) = 2 * D(b)
  <2> DEFINE S == {a \in Nat : a + 1 \in 1..n => Len(part[a + 1]) = 2 * D(a + 1)}
  <2>1. 0 \in S
    <3> DEFINE b == 0 + 1
    <3>1. b \in 1..n /\ b = 0 + 1
      BY <1>1
    <3> HIDE DEF b
    <3>2. Len(part[b]) = 2 * D(b)
      BY <1>7, <3>1
    <3> QED
      BY <3>2 DEF b
  <2>2. ASSUME NEW a \in Nat, a \in S PROVE a + 1 \in S
    <3> DEFINE b == (a + 1) + 1
               c == a + 1
    <3> SUFFICES ASSUME b \in 1..n PROVE Len(part[b]) = 2 * D(b)
      OBVIOUS
    <3>1. c \in 1..n /\ c \in Nat /\ b = c + 1
      BY <1>1
    <3>2. Len(part[c]) = 2 * D(c)
      BY <2>2, <3>1
    <3> HIDE DEF b, c
    <3> QED
      BY <1>7, <3>1, <3>2
  <2> HIDE DEF S
  <2>3. Nat \subseteq S
    BY <2>1, <2>2, InductionOnSet
  <2> SUFFICES ASSUME NEW b \in 1..n PROVE Len(part[b]) = 2 * D(b)
    OBVIOUS
  <2>4. b - 1 \in Nat /\ (b - 1) + 1 = b
    BY <1>1
  <2>5. b - 1 \in S
    BY <2>3, <2>4
  <2> QED
    BY <2>4, <2>5 DEF S
<1>9. IsList(edges) /\ Len(edges) \in Nat
  BY <1>1, <1>5, <1>6
<1>10. ASSUME NEW b \in Blocks(g), NEW k \in {1, 2}, g.kind[b] = "condbr"
       PROVE  /\ 2 * D(b - 1) + k \in 1..Len(edges) /\ D(b - 1) \in Nat
              /\ edges[2 * D(b - 1) + k] = LowerEdge(g, b, k)
  <2> DEFINE a == b - 1
             i == 2 * D(a) + k
  <2>1. /\ b \in 1..n /\ a \in Nat /\ b = a + 1 /\ n \in 1..n /\ n \in b..n
        /\ a = 0 \/ a \in 1..n
    BY <1>1
  <2>2. /\ D(a) \in Nat /\ part[b][i] = LowerEdge(g, b, k) /\ Len(part[b]) = 2 * D(b)
    <3> HIDE DEF a
    <3>1. a = 0 \/ (a \in 1..n /\ Len(part[a]) = 2 * D(a))
      BY <1>8, <2>1
    <3> QED
      BY <1>7, <1>10, <2>1, <3>1
  <2>3. D(b) = D(a) + 1
    <3> HIDE DEF a
    <3> QED
      BY <1>10, <2>1, CondBrCount DEF D
  <2>4. i \in 1..Len(part[b])
    <3> HIDE DEF a
    <3> QED
      BY <2>2, <2>3
  <2>5. /\ Len(part[b]) \in Nat /\ Len(part[n]) \in Nat /\ Len(part[b]) <= Len(part[n])
        /\ \A j \in 1..Len(part[b]) : part[n][j] = part[b][j]
    <3>1. b \in 1..Len(nested) /\ n \in b..Len(nested)
      BY <1>3, <2>1
    <3> HIDE DEF n, a
    <3> QED
      BY <1>5, <3>1, FlattenPrefix
  <2> HIDE DEF i
  <2>6. i \in 1..Len(edges) /\ edges[i] = LowerEdge(g, b, k)
    BY <1>5, <2>2, <2>4, <2>5
  <2> QED
    BY <2>2, <2>6 DEF i
<1>11. ASSUME NEW j \in DOMAIN edges
       PROVE  \E b \in Blocks(g) : \E k \in {1, 2} :
                g.kind[b] = "condbr" /\ edges[j] = LowerEdge(g, b, k)
  <2>1. edges[j] \in ToSet(edges)
    BY <1>9, ListFacts
  <2>2. PICK b \in 1..Len(nested) : edges[j] \in ToSet(nested[b])
    BY <1>4, <2>1, FlattenElements DEF edges
  <2> QED
    BY <1>1, <1>3, <2>2, EdgeBlockList
<1> DEFINE L == own \o edges
<1>12. LowerFunction(g) = L
  BY DEF LowerFunction, own, edges, nested
<1>13. /\ IsList(L) /\ Len(L) = n + Len(edges)
       /\ \A b \in 1..n : L[b] = own[b]
       /\ \A j \in 1..Len(edges) : L[n + j] = edges[j]
  <2>1. IsList(own) /\ IsList(edges) /\ Len(own) = n
    BY <1>2, <1>9
  <2> HIDE DEF n, D
  <2>2. /\ IsList(own \o edges) /\ Len(own \o edges) = Len(own) + Len(edges)
        /\ \A b \in 1..Len(own) : (own \o edges)[b] = own[b]
        /\ \A j \in 1..Len(edges) : (own \o edges)[Len(own) + j] = edges[j]
    BY <2>1, ConcatLists
  <2> QED
    BY <2>1, <2>2, Zenon
<1> HIDE DEF L
<1>14. ASSUME NEW b \in Blocks(g), NEW k \in {1, 2}, g.kind[b] = "condbr"
       PROVE  EdgeBlock(g, b, k) \in (n + 1)..Len(L) /\ L[EdgeBlock(g, b, k)] = LowerEdge(g, b, k)
  <2> DEFINE i == 2 * D(b - 1) + k
  <2>1. EdgeBlock(g, b, k) = n + i
    <3>1. EdgeBlock(g, b, k) = n + 2 * D(b - 1) + k
      BY DEF EdgeBlock, D, CondBrs
    <3>2. D(b - 1) \in Nat
      BY <1>10, <1>14
    <3> QED
      BY <1>1, <3>1, <3>2
  <2>2. i \in 1..Len(edges) /\ edges[i] = LowerEdge(g, b, k)
    BY <1>10, <1>14
  <2> HIDE DEF i
  <2>3. n + i \in (n + 1)..Len(L) /\ L[n + i] = edges[i]
    BY <1>1, <1>9, <1>13, <2>2
  <2> QED
    BY <2>1, <2>2, <2>3
<1>15. ASSUME NEW i \in (n + 1)..Len(L)
       PROVE  \E b \in Blocks(g) : \E k \in {1, 2} :
                g.kind[b] = "condbr" /\ L[i] = LowerEdge(g, b, k)
  <2> DEFINE j == i - n
  <2>1. j \in 1..Len(edges) /\ i = n + j
    BY <1>1, <1>9, <1>13
  <2>2. DOMAIN edges = 1..Len(edges)
    BY <1>9, ListFacts
  <2> HIDE DEF j
  <2>3. L[i] = edges[j]
    BY <1>13, <2>1
  <2> QED
    BY <1>11, <2>1, <2>2, <2>3
<1>16. Len(L) \in Nat /\ n <= Len(L)
  BY <1>1, <1>9, <1>13
<1> QED
  BY <1>1, <1>2, <1>12, <1>13, <1>14, <1>15, <1>16

-----------------------------------------------------------------------------
(* Where control goes.                                                     *)
LEMMA LastOfExit ==
  ASSUME NEW s, IsList(s), NEW e, Exit(e)
  PROVE  Last(s \o e) = Last(e) /\ IsList(s \o e)
<1>1. (s \o e)[Len(s \o e)] = e[Len(e)] /\ IsList(s \o e)
  BY OneMoreJump, ConcatLists DEF Exit
<1> QED
  BY <1>1 DEF Last

LEMMA LastOfPath ==
  ASSUME NEW s, IsList(s), NEW t, IsList(t), NEW e, Exit(e)
  PROVE  Last(s \o (t \o e)) = Last(e)
<1>1. IsList(e)
  BY DEF Exit
<1>2. s \o (t \o e) = (s \o t) \o e
  BY <1>1, ListsAssociative
<1>3. IsList(s \o t)
  BY ConcatLists
<1>4. Last((s \o t) \o e) = Last(e)
  BY <1>3, LastOfExit
<1> QED
  BY <1>2, <1>4

LEMMA LastJump ==
  ASSUME NEW s, NoJump(s), NEW e
  PROVE  Last(Append(s, e)) = e
<1>1. IsList(s)
  BY DEF NoJump
<1>2. Last(Append(s, e)) = e
  BY <1>1, AppendList
<1> QED
  BY <1>2

(* The instructions of code with exits, and its end.                       *)
LEMMA CodeOfExits ==
  ASSUME NEW body, NoJump(body), NEW exits, IsList(exits), AllExits(exits), exits # <<>>
  PROVE  /\ IsList(body \o FlattenSeq(exits))
         /\ ToSet(body \o FlattenSeq(exits)) =
              ToSet(body) \cup UNION {ToSet(exits[k]) : k \in DOMAIN exits}
         /\ Last(body \o FlattenSeq(exits)) = Last(exits[Len(exits)])
<1> DEFINE X == UNION {ToSet(exits[i]) : i \in DOMAIN exits}
           n == Len(exits)
<1>1. n \in Nat /\ DOMAIN exits = 1..n /\ n \in 1..n
  <2>1. n # 0
    BY DEF IsList
  <2> QED
    BY <2>1, ListFacts
<1>2. exits \in Seq(Seq(X))
  <2>1. \A i \in DOMAIN exits : IsList(exits[i])
    BY DEF Exit, AllExits
  <2> QED
    BY <2>1, NestedLists
<1>3. X = UNION {ToSet(exits[k]) : k \in DOMAIN exits}
  OBVIOUS
<1> HIDE DEF X
<1>4. PICK part : IsFlattening(part, exits, X) /\ FlattenSeq(exits) = part[n]
  BY <1>2, FlattenSteps
<1>5. \A e : e \in ToSet(FlattenSeq(exits)) <=> e \in X
  BY <1>1, <1>2, <1>3, FlattenElements
<1>6. IsList(part[n])
  BY <1>1, <1>4, FlattenTypes, SeqIsList
<1>7. IsList(body)
  BY DEF NoJump
<1>8. Exit(exits[n])
  BY <1>1 DEF AllExits
<1>9. CASE n = 1
  <2>1. part[n] = exits[n]
    BY <1>4, <1>9, FlattenTypes
  <2> QED
    BY <1>3, <1>4, <1>5, <1>6, <1>7, <1>8, <2>1, LastOfExit, ConcatLists
<1>10. CASE n # 1
  <2> DEFINE m == n - 1
  <2>1. m \in 1..n /\ n = m + 1
    BY <1>1, <1>10
  <2> HIDE DEF m
  <2>2. part[n] = part[m] \o exits[n]
    <3>1. Joins(part[n], part[m], exits[n])
      BY <1>1, <1>4, <2>1, FlattenNext
    <3> QED
      BY <3>1 DEF Joins
  <2>3. IsList(part[m])
    BY <1>4, <2>1, FlattenTypes, SeqIsList
  <2>4. Last(body \o (part[m] \o exits[n])) = Last(exits[n])
    BY <1>7, <1>8, <2>3, LastOfPath
  <2>5. Last(body \o part[n]) = Last(exits[n])
    BY <2>2, <2>4
  <2> QED
    BY <1>3, <1>4, <1>5, <1>6, <1>7, <2>5, ConcatLists
<1> QED
  BY <1>9, <1>10

(* Where an exit goes is a block of the lowered function.                  *)
LEMMA ExitTargets ==
  ASSUME NEW g, WellFormed(g), NEW b \in Blocks(g), NEW k \in DOMAIN g.succs[b]
  PROVE  /\ ExitTo(g, b, k) \in 1..Len(LowerFunction(g))
         /\ g.succs[b][k] \in Blocks(g) /\ g.succs[b][k] \in 1..Len(LowerFunction(g))
         /\ g.kind[b] = "condbr" => /\ k \in {1, 2} /\ ExitTo(g, b, k) = EdgeBlock(g, b, k)
                                    /\ ExitTo(g, b, k) \notin Blocks(g)
                                    /\ LowerFunction(g)[ExitTo(g, b, k)] = LowerEdge(g, b, k)
         /\ g.kind[b] # "condbr" => ExitTo(g, b, k) = g.succs[b][k]
<1>1. /\ Len(g.succs) \in Nat /\ Blocks(g) = 1..Len(g.succs) /\ g.succs[b][k] \in Blocks(g)
      /\ Len(LowerFunction(g)) \in Nat /\ Len(g.succs) <= Len(LowerFunction(g))
  BY FunctionShape, LoweredBlocks
<1>2. g.succs[b][k] \in 1..Len(LowerFunction(g))
  BY <1>1
<1>3. CASE g.kind[b] = "condbr"
  <2>1. Len(g.succs[b]) = 2 /\ DOMAIN g.succs[b] = 1..Len(g.succs[b])
    BY <1>3, FunctionShape, ListFacts DEF WellFormed
  <2>2. k \in {1, 2}
    BY <2>1
  <2>3. /\ EdgeBlock(g, b, k) \in (Len(g.succs) + 1)..Len(LowerFunction(g))
        /\ LowerFunction(g)[EdgeBlock(g, b, k)] = LowerEdge(g, b, k)
    BY <1>3, <2>2, LoweredBlocks
  <2>4. EdgeBlock(g, b, k) \in 1..Len(LowerFunction(g)) /\ EdgeBlock(g, b, k) \notin Blocks(g)
    BY <1>1, <2>3
  <2> QED
    BY <1>1, <1>2, <1>3, <2>2, <2>3, <2>4 DEF ExitTo
<1>4. CASE g.kind[b] # "condbr"
  BY <1>1, <1>2, <1>4 DEF ExitTo
<1> QED
  BY <1>3, <1>4

(* An instruction of lowered code of n blocks.                             *)
Emitted(in, n) == Straight(in) \/ \E t \in 1..n : in \in {Jump(t), Call(t)}

LEMMA BlockCode ==
  ASSUME NEW g, WellFormed(g), NEW i \in 1..Len(LowerFunction(g))
  PROVE  /\ IsList(LowerFunction(g)[i])
         /\ \A in \in ToSet(LowerFunction(g)[i]) : Emitted(in, Len(LowerFunction(g)))
         /\ Targets(Last(LowerFunction(g)[i])) # {} \/ NoJump(LowerFunction(g)[i])
<1> DEFINE N == Len(LowerFunction(g))
<1>1. ASSUME NEW s, NoJump(s) PROVE IsList(s) /\ \A in \in ToSet(s) : Emitted(in, N)
  <2>1. IsList(s) /\ \A j \in DOMAIN s : Emitted(s[j], N)
    BY <1>1 DEF NoJump, Emitted
  <2> QED
    BY <2>1 DEF ToSet
<1>2. ASSUME NEW s, NoJump(s), NEW t \in 1..N, NEW e \in {Jump(t), Call(t)}
      PROVE  /\ IsList(Append(s, e))
             /\ \A in \in ToSet(Append(s, e)) : Emitted(in, N)
             /\ Last(Append(s, e)) = e
             /\ e = Jump(t) => Targets(Last(Append(s, e))) # {}
  <2>1. Emitted(e, N)
    BY <1>2 DEF Emitted
  <2>2. IsList(s) /\ \A in \in ToSet(s) : Emitted(in, N)
    BY <1>1, <1>2
  <2>3. IsList(Append(s, e)) /\ ToSet(Append(s, e)) = ToSet(s) \cup {e} /\ Last(Append(s, e)) = e
    BY <2>2, AppendList
  <2> QED
    <3>1. ASSUME e = Jump(t) PROVE Targets(e) # {}
      BY <3>1, LeaveFacts
    <3>2. \A in \in ToSet(Append(s, e)) : Emitted(in, N)
      <4> HIDE DEF N
      <4> QED
        BY <2>1, <2>2, <2>3
    <3> QED
      BY <2>3, <3>1, <3>2
<1>3. N \in Nat /\ Len(g.succs) \in Nat /\ Blocks(g) = 1..Len(g.succs)
  BY FunctionShape, LoweredBlocks
<1> HIDE DEF N
<1>4. CASE i \notin Blocks(g)
  <2>1. i \in (Len(g.succs) + 1)..N
    BY <1>3, <1>4 DEF N
  <2>2. PICK b \in Blocks(g), k \in {1, 2} :
          g.kind[b] = "condbr" /\ LowerFunction(g)[i] = LowerEdge(g, b, k)
    BY <2>1, LoweredBlocks DEF N
  <2>3. /\ k \in DOMAIN g.succs[b]
        /\ LowerEdge(g, b, k) =
              Append(EmitPhiCopies(g, b, EdgeBlock(g, b, k), k, g.succs[b][k]), Jump(g.succs[b][k]))
    BY <2>2, LowerEdges
  <2>4. g.succs[b][k] \in Blocks(g) /\ g.succs[b][k] \in 1..N
    BY <2>3, ExitTargets DEF N
  <2>5. NoJump(EmitPhiCopies(g, b, EdgeBlock(g, b, k), k, g.succs[b][k]))
    BY <2>4, CopiesJumpNot
  <2> QED
    BY <1>2, <2>2, <2>3, <2>4, <2>5 DEF N
<1>5. CASE i \in Blocks(g) /\ g.kind[i] = "ret"
  <2>1. LowerFunction(g)[i] = Body(g, i) \o <<Use(<<>>)>>
    BY <1>5, LoweredBlocks DEF LowerBlock, LowerTerminator
  <2>2. NoJump(Body(g, i)) /\ NoJump(<<Use(<<>>)>>)
    BY <1>5, BodyJumpNot, OneInstruction, EmittedStraight, NoInstruction
  <2>3. NoJump(Body(g, i) \o <<Use(<<>>)>>)
    BY <2>2, NoJumpConcat
  <2> QED
    BY <1>1, <2>1, <2>3 DEF N
<1>6. CASE i \in Blocks(g) /\ g.kind[i] # "ret"
  <2> DEFINE exits == Exits(g, i)
             body == Body(g, i)
  <2>1. LowerFunction(g)[i] = body \o FlattenSeq(exits)
    BY <1>6, LoweredBlocks DEF LowerBlock, LowerTerminator
  <2>2. NoJump(body)
    BY <1>6, BodyJumpNot
  <2>3. /\ IsList(exits) /\ AllExits(exits) /\ DOMAIN exits = LoweredEdges(g, i)
        /\ \A k \in DOMAIN exits : exits[k] = Append(ExitCode(g, i, k), Leave(g, i, k))
    BY <1>6, BlockExits
  <2>4. exits # <<>>
    <3>1. 1 \in LoweredEdges(g, i)
      BY <1>6, LoweredOnes
    <3> HIDE DEF exits
    <3> QED
      BY <2>3, <3>1
  <2>5. \A k \in DOMAIN exits :
          /\ \A in \in ToSet(exits[k]) : Emitted(in, N)
          /\ k # 1 \/ g.kind[i] # "invoke" => Targets(Last(exits[k])) # {}
    <3> TAKE k \in DOMAIN exits
    <3>1. k \in DOMAIN g.succs[i]
      BY <1>6, <2>3, LoweredOnes
    <3>2. NoJump(ExitCode(g, i, k)) /\ ExitTo(g, i, k) \in 1..N
      BY <1>6, <3>1, ExitCodes, ExitTargets DEF N
    <3>3. exits[k] = Append(ExitCode(g, i, k), Leave(g, i, k))
      BY <2>3
    <3> HIDE DEF exits
    <3> QED
      BY <1>2, <3>2, <3>3, LeaveFacts
  <2> HIDE DEF exits, body
  <2>6. /\ IsList(body \o FlattenSeq(exits))
        /\ ToSet(body \o FlattenSeq(exits)) =
             ToSet(body) \cup UNION {ToSet(exits[k]) : k \in DOMAIN exits}
        /\ Last(body \o FlattenSeq(exits)) = Last(exits[Len(exits)])
    BY <2>2, <2>3, <2>4, CodeOfExits
  <2>7. Len(exits) \in DOMAIN exits /\ (Len(exits) # 1 \/ g.kind[i] # "invoke")
    <3>1. Len(exits) \in DOMAIN exits /\ Len(exits) \in Nat /\ DOMAIN exits = 1..Len(exits)
      BY <2>3, <2>4 DEF IsList
    <3>2. ASSUME g.kind[i] = "invoke" PROVE 2 \in DOMAIN exits
      <4>1. Len(g.succs[i]) = 2 /\ DOMAIN g.succs[i] = 1..Len(g.succs[i])
        BY <1>6, <3>2, FunctionShape, ListFacts DEF WellFormed
      <4>2. DOMAIN exits = DOMAIN g.succs[i]
        BY <1>6, <2>3, <3>2, LoweredOnes
      <4> QED
        BY <4>1, <4>2
    <3> QED
      BY <3>1, <3>2
  <2>8. \A in \in ToSet(body) : Emitted(in, N)
    BY <1>1, <2>2
  <2>9. \A in \in ToSet(body \o FlattenSeq(exits)) : Emitted(in, N)
    BY <2>5, <2>6, <2>8, Zenon
  <2> QED
    BY <2>1, <2>5, <2>6, <2>7, <2>9 DEF N
<1> QED
  BY <1>4, <1>5, <1>6

-----------------------------------------------------------------------------
(* Lowering runs once, on a function it was given; the back end works on   *)
(* what it made or on other code.                                          *)
LowerInv ==
  /\ stage = "lower" => f \in Functions
  /\ stage # "lower" => lowered = <<>>
  /\ lowered # <<>> => lowered = LowerFunction(f)

LEMMA LaterStages == [BackEnd \/ Intervals]_vars /\ stage # "lower" => stage' # "lower"
<1> SUFFICES ASSUME [BackEnd \/ Intervals]_vars, stage # "lower" PROVE stage' # "lower"
  OBVIOUS
<1>1. CASE Intervals
  BY <1>1 DEF Intervals, ComputeIntervals
<1>2. CASE Allocate
  BY <1>2 DEF Allocate
<1>3. CASE Rewrite
  BY <1>3 DEF Rewrite
<1>4. CASE Color
  BY <1>4 DEF Color
<1>5. CASE Apply
  BY <1>5 DEF Apply
<1>6. CASE \E q \in 1..Len(code) : Run(q)
  BY <1>6 DEF Run
<1>7. CASE SpillDone \/ UNCHANGED vars
  BY <1>7 DEF SpillDone, vars, spillVars
<1> QED
  BY <1>1, <1>2, <1>3, <1>4, <1>5, <1>6, <1>7 DEF BackEnd, SpillNext

THEOREM LoweredOnce == Spec => []LowerInv
<1>1. Init => LowerInv
  BY DEF Init, InitLower, LowerInit, InitBack, SpillInit, LowerInv
<1>2. LowerInv /\ [Next]_vars => LowerInv'
  <2> SUFFICES ASSUME LowerInv, [Next]_vars PROVE LowerInv'
    OBVIOUS
  <2>1. CASE RunLowered
    <3>1. stage' = stage /\ f' = f /\ stage = "lower"
      BY <2>1 DEF RunLowered, spillVars, LowerNext, Lower, Step, LowerDone, lowerVars
    <3>2. lowered' = lowered \/ lowered' = LowerFunction(f)
      BY <2>1 DEF RunLowered, LowerNext, Lower, Step, LowerDone, lowerVars
    <3> QED
      BY <3>1, <3>2 DEF LowerInv
  <2>2. CASE Generate
    BY <2>2 DEF Generate, LowerInv
  <2>3. CASE Intervals \/ BackEnd
    <3>1. f' = f /\ lowered' = lowered /\ stage # "lower"
      BY <2>3 DEF Intervals, BackEnd, lowerVars, ComputeIntervals
    <3> QED
      BY <2>3, <3>1, LaterStages DEF LowerInv
  <2>4. CASE UNCHANGED vars
    <3>1. f' = f /\ lowered' = lowered /\ stage' = stage
      BY <2>4 DEF vars, lowerVars, spillVars
    <3> QED
      BY <3>1 DEF LowerInv
  <2> QED
    BY <2>1, <2>2, <2>3, <2>4 DEF Next
<1> QED
  BY <1>1, <1>2, PTL DEF Spec

(* The code run up to the k-th jump of block b.                            *)
PathCode(g, b, k, before) == Body(g, b) \o (before \o Append(ExitCode(g, b, k), Leave(g, b, k)))
EarlierExits(g, b, k, before) ==
  /\ IsList(before)
  /\ \A e \in ToSet(before) : \E j \in 1..(k - 1) :
       e \in ToSet(Append(ExitCode(g, b, j), Leave(g, b, j)))
LEMMA BlockPath ==
  ASSUME NEW g, WellFormed(g), NEW b \in Blocks(g), NEW k \in LoweredEdges(g, b)
  PROVE  /\ \E before : /\ EarlierExits(g, b, k, before)
                        /\ UpToJump(LowerFunction(g)[b], k) = PathCode(g, b, k, before)
         /\ Last(UpToJump(LowerFunction(g)[b], k)) = Leave(g, b, k)
<1> DEFINE exits == Exits(g, b)
           body == Body(g, b)
<1>1. /\ IsList(exits) /\ AllExits(exits) /\ DOMAIN exits = LoweredEdges(g, b)
      /\ \A j \in LoweredEdges(g, b) : exits[j] = Append(ExitCode(g, b, j), Leave(g, b, j))
  BY BlockExits
<1>2. NoJump(body)
  BY BodyJumpNot
<1>3. LowerFunction(g)[b] = body \o FlattenSeq(exits)
  <2>1. g.kind[b] # "ret"
    BY LoweredOnes
  <2> QED
    BY <2>1, LoweredBlocks DEF LowerBlock, LowerTerminator
<1> HIDE DEF exits, body
<1>4. PICK before : IsPath(before, body \o FlattenSeq(exits), body, exits, k)
  BY <1>1, <1>2, PathToJump
<1>5. DOMAIN exits = 1..Len(exits) /\ k \in 1..Len(exits) /\ Len(exits) \in Nat
  BY <1>1, ListFacts
<1>6. \A j \in 1..(k - 1) : j \in LoweredEdges(g, b)
  BY <1>1, <1>5
<1>7. EarlierExits(g, b, k, before)
  BY <1>1, <1>4, <1>6 DEF EarlierExits, IsPath
<1>8. UpToJump(LowerFunction(g)[b], k) = body \o (before \o exits[k])
  BY <1>3, <1>4 DEF IsPath
<1>9. UpToJump(LowerFunction(g)[b], k) = PathCode(g, b, k, before)
  BY <1>1, <1>8 DEF PathCode, body
<1>10. Last(body \o (before \o exits[k])) = Last(exits[k])
  <2>1. IsList(body) /\ IsList(before) /\ Exit(exits[k])
    BY <1>1, <1>2, <1>4 DEF NoJump, IsPath, AllExits
  <2> QED
    BY <2>1, LastOfPath
<1>11. Last(exits[k]) = Leave(g, b, k)
  <2>1. NoJump(ExitCode(g, b, k))
    BY LoweredOnes, ExitCodes
  <2>2. Last(Append(ExitCode(g, b, k), Leave(g, b, k))) = Leave(g, b, k)
    BY <2>1, LastJump
  <2> QED
    BY <1>1, <2>2
<1> QED
  BY <1>7, <1>8, <1>9, <1>10, <1>11

LEMMA PathList ==
  ASSUME NEW g, WellFormed(g), NEW b \in Blocks(g), NEW k \in LoweredEdges(g, b),
         NEW before, EarlierExits(g, b, k, before)
  PROVE  /\ IsList(Body(g, b)) /\ IsList(before) /\ IsList(ExitCode(g, b, k))
         /\ IsList(Append(ExitCode(g, b, k), Leave(g, b, k)))
         /\ IsList(PathCode(g, b, k, before))
<1> DEFINE exit == Append(ExitCode(g, b, k), Leave(g, b, k))
<1>1. IsList(Body(g, b)) /\ IsList(ExitCode(g, b, k))
  BY LoweredOnes, BodyJumpNot, ExitCodes DEF NoJump
<1>2. IsList(before)
  BY DEF EarlierExits
<1>3. IsList(exit)
  BY <1>1, AppendList
<1> HIDE DEF exit
<1>4. IsList(before \o exit)
  BY <1>2, <1>3, ConcatLists
<1>5. IsList(Body(g, b) \o (before \o exit))
  BY <1>1, <1>4, ConcatLists
<1> QED
  BY <1>1, <1>2, <1>3, <1>5 DEF PathCode, exit

(* Every edge of lowered code arrives, but for those of a catchswitch      *)
(* behind its first, which lower_terminator drops.                         *)
THEOREM EdgesArriveAlways == Spec => []EdgesArrive
<1>1. LowerInv => EdgesArrive
  <2> SUFFICES ASSUME LowerInv, lowered # <<>> PROVE EdgesArrive
    BY DEF EdgesArrive
  <2>1. WellFormed(f) /\ lowered = LowerFunction(f)
    BY FunctionsAssumption DEF LowerInv
  <2> DEFINE N == Len(lowered)
  <2>2. ASSUME NEW b \in 1..N
        PROVE  BlkSuccs(lowered, b) \subseteq 1..N /\ (Targets(Last(lowered[b])) # {} \/ BlkSuccs(lowered, b) = {})
    <3> DEFINE c == lowered[b]
    <3>1. /\ IsList(c) /\ \A in \in ToSet(c) : Emitted(in, N)
          /\ Targets(Last(c)) # {} \/ NoJump(c)
      BY <2>1, BlockCode
    <3>2. ASSUME NEW in, Emitted(in, N) PROVE Targets(in) \subseteq 1..N
      <4>1. CASE in.to = <<>>
        BY <4>1, NoInstruction DEF Targets
      <4>2. CASE \E t \in 1..N : in \in {Jump(t), Call(t)}
        BY <4>2, LeaveFacts
      <4> QED
        BY <3>2, <4>1, <4>2 DEF Emitted, Straight
    <3>3. DOMAIN c = 1..Len(c) /\ BlkSuccs(lowered, b) = UNION {Targets(c[i]) : i \in 1..Len(c)}
      BY <3>1, ListFacts DEF BlkSuccs
    <3>4. \A i \in 1..Len(c) : Targets(c[i]) \subseteq 1..N
      <4>1. \A i \in 1..Len(c) : c[i] \in ToSet(c)
        BY <3>1, <3>3, ListFacts
      <4> HIDE DEF c, N
      <4> QED
        BY <3>1, <3>2, <4>1
    <3>5. ASSUME NoJump(c) PROVE \A i \in 1..Len(c) : Targets(c[i]) = {}
      BY <3>3, <3>5, NoInstruction DEF NoJump, Straight, Targets
    <3>6. BlkSuccs(lowered, b) \subseteq 1..N
      BY <3>3, <3>4
    <3>7. Targets(Last(c)) # {} \/ BlkSuccs(lowered, b) = {}
      <4> HIDE DEF c, N
      <4> QED
        BY <3>1, <3>3, <3>5
    <3> QED
      BY <3>6, <3>7
  <2>3. ASSUME NEW b \in Blocks(f), NEW k \in DOMAIN f.succs[b], f.kind[b] = "catchswitch" => k = 1
        PROVE  Last(EdgePath(b, k)).val = f.succs[b][k]
    <3> DEFINE path == UpToJump(lowered[b], k)
               to == ExitTo(f, b, k)
               t == f.succs[b][k]
    <3>1. k \in DOMAIN f.succs[b] /\ k \in LoweredEdges(f, b)
      <4>1. f.kind[b] # "ret"
        BY <2>1, <2>3 DEF WellFormed
      <4> QED
        BY <2>1, <2>3, <4>1, LoweredOnes
    <3>2. Last(path) = Leave(f, b, k) /\ \E before : EarlierExits(f, b, k, before) /\ path = PathCode(f, b, k, before)
      BY <2>1, <3>1, BlockPath
    <3>3. Last(path).val = to
      BY <3>2, LeaveFacts
    <3>4. EdgePath(b, k) = IF to \in Blocks(f) THEN path ELSE path \o lowered[to]
      BY <3>3 DEF EdgePath
    <3>5. t \in Blocks(f)
      BY <2>1, <3>1, ExitTargets
    <3>6. CASE f.kind[b] = "condbr"
      <4>1. /\ k \in {1, 2} /\ to \notin Blocks(f) /\ lowered[to] = LowerEdge(f, b, k)
        BY <2>1, <3>1, <3>6, ExitTargets
      <4>2. Exit(LowerEdge(f, b, k))
        BY <2>1, <3>6, <4>1, LowerEdges
      <4>3. IsList(path)
        BY <2>1, <3>1, <3>2, PathList
      <4> HIDE DEF path, to
      <4>4. Last(path \o lowered[to]) = Last(LowerEdge(f, b, k))
        BY <4>1, <4>2, <4>3, LastOfExit
      <4>5. Last(LowerEdge(f, b, k)) = Jump(t)
        <5>1. NoJump(EmitPhiCopies(f, b, EdgeBlock(f, b, k), k, t))
          BY <2>1, <3>5, CopiesJumpNot
        <5> QED
          BY <5>1, LastJump DEF LowerEdge
      <4> QED
        BY <3>4, <4>1, <4>4, <4>5, LeaveFacts
    <3>7. CASE f.kind[b] # "condbr"
      <4>1. to = t
        BY <2>1, <3>1, <3>7, ExitTargets
      <4> QED
        BY <3>3, <3>4, <3>5, <4>1
    <3> QED
      BY <3>6, <3>7
  <2> QED
    BY <2>2, <2>3 DEF EdgesArrive
<1> QED
  BY <1>1, LoweredOnce, PTL

-----------------------------------------------------------------------------
(* The registers of lowered code.                                          *)
LEMMA RegisterNames ==
  ASSUME NEW x, NEW y, NEW at, NEW k, NEW i, NEW j
  PROVE  /\ <<"value", x>> = <<"value", y>> => x = y
         /\ <<"const", at, k, i>> = <<"const", at, k, j>> => i = j
         /\ <<"tmp", at, k, i>> = <<"tmp", at, k, j>> => i = j
         /\ <<"value", x>> # <<"const", at, k, i>>
         /\ <<"value", x>> # <<"tmp", at, k, i>>
         /\ <<"const", at, k, i>> # <<"tmp", at, k, j>>
  OBVIOUS

LEMMA PartRunnable ==
  ASSUME NEW R, NEW V, NEW t, NEW c, Runnable(c, t, R, V), NEW d, ToSet(d) \subseteq ToSet(c)
  PROVE  Runnable(d, t, R, V)
<1>1. \A in \in ToSet(c) : /\ in.op = "mov" => in.srcs[1] \in R
                           /\ <<in.val>> \in V /\ <<in.val, t>> \in V
  BY DEF Runnable, ToSet
<1>2. \A i \in DOMAIN d : d[i] \in ToSet(c)
  BY DEF ToSet
<1> QED
  BY <1>1, <1>2 DEF Runnable

LEMMA LoweredRegisters ==
  ASSUME NEW g, WellFormed(g), NEW i \in 1..Len(LowerFunction(g)),
         NEW in \in ToSet(LowerFunction(g)[i])
  PROVE  Uses(in) \subseteq Registers(LowerFunction(g))
<1> DEFINE m == LowerFunction(g)
           X == UNION {ToSet(m[j]) : j \in DOMAIN m}
           c == Flat(m)
<1>1. IsList(m) /\ DOMAIN m = 1..Len(m)
  BY LoweredBlocks, ListFacts
<1>2. \A j \in DOMAIN m : IsList(m[j])
  BY <1>1, BlockCode
<1>3. m \in Seq(Seq(X)) /\ m # <<>>
  <2>1. m # <<>>
    BY <1>1
  <2> HIDE DEF m
  <2> QED
    BY <1>1, <1>2, <2>1, NestedLists
<1>4. in \in ToSet(c) /\ c \in Seq(X)
  <2>1. i \in 1..Len(m) /\ in \in ToSet(m[i])
    OBVIOUS
  <2> HIDE DEF m, X
  <2> QED
    BY <1>3, <2>1, FlattenElements DEF Flat
<1> HIDE DEF m, X, c
<1>5. PICK p \in 1..Len(c) : c[p] = in
  <2>1. DOMAIN c = 1..Len(c)
    BY <1>4, SeqIsList, ListFacts
  <2> QED
    BY <1>4, <2>1 DEF ToSet
<1>6. Registers(m) = UNION {Uses(c[q]) \cup ({c[q].dst} \ {NoReg}) : q \in 1..Len(c)}
  BY DEF Registers, c
<1>7. Uses(in) \subseteq Registers(m)
  BY <1>5, <1>6
<1> QED
  BY <1>7 DEF m

(* Whatever the registers hold, there is a set of values that lowered code *)
(* stays in.                                                               *)
AllRun(m, t, R, V) == \A i \in 1..Len(m) : Runnable(m[i], t, R, V)
LEMMA CodeRuns ==
  ASSUME NEW g, WellFormed(g), NEW t,
         NEW r, r = [v \in Registers(LowerFunction(g)) |-> r[v]]
  PROVE  \E V : r \in [Registers(LowerFunction(g)) -> V]
                /\ AllRun(LowerFunction(g), t, Registers(LowerFunction(g)), V)
<1> DEFINE m == LowerFunction(g)
           R == Registers(m)
           V == {r[v] : v \in R} \cup
                UNION {{<<in.val>> : in \in ToSet(m[i])} \cup {<<in.val, t>> : in \in ToSet(m[i])}
                       : i \in 1..Len(m)}
<1>1. r \in [R -> V]
  <2>1. \A v \in R : r[v] \in V
    OBVIOUS
  <2> HIDE DEF V, R
  <2> QED
    BY <2>1 DEF R
<1>2. ASSUME NEW i \in 1..Len(m) PROVE Runnable(m[i], t, R, V)
  <2>1. ASSUME NEW j \in DOMAIN m[i]
        PROVE  /\ m[i][j].op = "mov" => m[i][j].srcs[1] \in R
               /\ <<m[i][j].val>> \in V /\ <<m[i][j].val, t>> \in V
    <3> DEFINE in == m[i][j]
    <3>1. in \in ToSet(m[i])
      BY DEF ToSet
    <3>2. <<in.val>> \in V /\ <<in.val, t>> \in V
      <4> HIDE DEF in, m
      <4> QED
        BY <3>1
    <3>3. Uses(in) \subseteq R
      BY <3>1, LoweredRegisters
    <3>4. in.op = "mov" => in.srcs[1] \in Uses(in)
      <4>1. Emitted(in, Len(m))
        BY <3>1, BlockCode
      <4>2. CASE Straight(in)
        BY <4>2 DEF Straight
      <4>3. CASE \E to \in 1..Len(m) : in \in {Jump(to), Call(to)}
        BY <4>3, LeaveFacts
      <4> QED
        BY <4>1, <4>2, <4>3 DEF Emitted
    <3> HIDE DEF in, V, R
    <3> QED
      BY <3>2, <3>3, <3>4 DEF in
  <2> HIDE DEF m, V, R
  <2> QED
    BY <2>1 DEF Runnable
<1>3. AllRun(m, t, R, V)
  <2> HIDE DEF m, V, R
  <2> QED
    BY <1>2 DEF AllRun
<1> HIDE DEF V
<1> QED
  BY <1>1, <1>3

-----------------------------------------------------------------------------
(* What a block does before its exits: every value it defines gets its     *)
(* register, and nothing else changes.                                     *)
ValuesWritten(s, r, xs, t, R) ==
  \A x : <<"value", x>> \in R => s[<<"value", x>>] = IF x \in xs THEN <<x, t>> ELSE r[<<"value", x>>]
LEMMA BodyEffect ==
  ASSUME NEW g, WellFormed(g), NEW b \in Blocks(g), NEW R, NEW V, NEW r \in [R -> V], NEW t,
         Runnable(Body(g, b), t, R, V)
  PROVE  /\ Execution(r, Body(g, b), t) \in [R -> V]
         /\ ValuesWritten(Execution(r, Body(g, b), t), r, ToSet(g.defs[b]), t, R)
<1> DEFINE n == Len(g.defs[b])
           defs == [i \in 1..n |-> Def(Resolve(g, b, g.defs[b][i]), g.defs[b][i])]
           use == Use([i \in 1..Len(g.reads[b]) |-> Resolve(g, b, g.reads[b][i])])
           c == Body(g, b)
<1>1. IsList(g.defs[b]) /\ n \in Nat /\ DOMAIN g.defs[b] = 1..n
  BY FunctionShape, ListFacts
<1>2. \A i \in 1..n : defs[i].op = "def" /\ defs[i].dst = <<"value", g.defs[b][i]>>
                      /\ defs[i].val = g.defs[b][i]
  <2> SUFFICES ASSUME NEW i \in 1..n PROVE Resolve(g, b, g.defs[b][i]) = <<"value", g.defs[b][i]>>
    BY DEF Def, MInstr
  <2>1. g.defs[b][i] \in ToSet(g.defs[b]) /\ b \in Nat
    BY <1>1, FunctionShape, ListFacts
  <2>2. b <= b
    BY <2>1
  <2> QED
    BY <2>1, <2>2 DEF Resolve
<1>3. IsList(defs) /\ Len(defs) = n
  <2>1. defs = [i \in 1..n |-> defs[i]]
    OBVIOUS
  <2> HIDE DEF defs, n
  <2> QED
    BY <1>1, <2>1, FunctionIsList
<1>4. c = defs \o <<use>>
  BY DEF Body
<1>5. use.op = "use"
  BY DEF Use, MInstr
<1> HIDE DEF defs, use, c
<1>6. /\ IsList(c) /\ DOMAIN c = 1..(n + 1)
      /\ \A i \in 1..n : c[i] = defs[i]
      /\ c[n + 1] = use
  <2>1. c = Append(defs, use)
    BY <1>3, <1>4, ConcatOne
  <2> QED
    BY <1>3, <2>1, AppendList
<1>7. \A i \in DOMAIN c : \/ i \in 1..n /\ c[i].op = "def" /\ c[i].dst = <<"value", g.defs[b][i]>>
                                        /\ c[i].val = g.defs[b][i]
                          \/ i \notin 1..n /\ c[i].op = "use"
  <2>1. \A i \in 1..(n + 1) : i \in 1..n \/ (i \notin 1..n /\ i = n + 1)
    BY <1>1
  <2> QED
    BY <1>2, <1>5, <1>6, <2>1
<1>8. \A i \in DOMAIN c : \A x : Writes(c[i], x) <=> i \in 1..n /\ x = <<"value", g.defs[b][i]>>
  BY <1>7 DEF Writes
<1>9. \A i \in 1..n : Written(r, c[i], t) = <<g.defs[b][i], t>>
  <2>1. \A i \in 1..n : i \in DOMAIN c
    BY <1>1, <1>6
  <2> QED
    BY <1>7, <2>1 DEF Written
<1>10. AtOnce(r, c, t)
  <2> SUFFICES ASSUME NEW i \in DOMAIN c, NEW j \in DOMAIN c
               PROVE  /\ c[j].op = "mov" => ~Writes(c[i], c[j].srcs[1])
                      /\ \A x : Writes(c[i], x) /\ Writes(c[j], x) =>
                           Written(r, c[i], t) = Written(r, c[j], t)
    BY DEF AtOnce
  <2>1. c[j].op # "mov"
    BY <1>7
  <2>2. ASSUME NEW x, Writes(c[i], x), Writes(c[j], x)
        PROVE  Written(r, c[i], t) = Written(r, c[j], t)
    <3>1. /\ i \in 1..n /\ x = <<"value", g.defs[b][i]>>
          /\ j \in 1..n /\ x = <<"value", g.defs[b][j]>>
      BY <1>8, <2>2
    <3>2. g.defs[b][i] = g.defs[b][j]
      BY <3>1, RegisterNames
    <3> QED
      BY <1>9, <3>1, <3>2
  <2> QED
    BY <2>1, <2>2
<1>11. Outcome(Execution(r, c, t), r, c, t, R, V)
  <2>1. Runnable(c, t, R, V)
    BY DEF c
  <2> QED
    BY <1>6, <1>10, <2>1, RunAtOnce
<1>12. ASSUME NEW x, <<"value", x>> \in R
       PROVE  Execution(r, c, t)[<<"value", x>>] =
                IF x \in ToSet(g.defs[b]) THEN <<x, t>> ELSE r[<<"value", x>>]
  <2>1. CASE x \in ToSet(g.defs[b])
    <3>1. PICK i \in 1..n : g.defs[b][i] = x
      BY <1>1, <2>1 DEF ToSet
    <3>2. i \in DOMAIN c /\ Writes(c[i], <<"value", x>>) /\ Written(r, c[i], t) = <<x, t>>
      BY <1>1, <1>6, <1>8, <1>9, <3>1
    <3> QED
      BY <1>11, <1>12, <2>1, <3>2 DEF Outcome
  <2>2. CASE x \notin ToSet(g.defs[b])
    <3>1. \A i \in 1..n : g.defs[b][i] # x
      BY <1>1, <2>2 DEF ToSet
    <3>2. \A i \in DOMAIN c : ~Writes(c[i], <<"value", x>>)
      BY <1>8, <3>1, RegisterNames
    <3> QED
      BY <1>11, <1>12, <2>2, <3>2 DEF Outcome
  <2> QED
    BY <2>1, <2>2
<1> QED
  BY <1>11, <1>12 DEF c, Outcome, ValuesWritten

-----------------------------------------------------------------------------
(* The copies of an edge.  Incomings: their sources are constants or have  *)
(* registers, and no two copies of different phis are for the same value.  *)
SourceKnown(g, src, dest, i) ==
  \/ Incoming(g, src, dest, i) \in Consts
  \/ Resolve(g, src, Incoming(g, src, dest, i)) = <<"value", Incoming(g, src, dest, i)>>
Incomings(g, src, dest) ==
  /\ \A i \in 1..Len(Copied(g, src, dest)) : SourceKnown(g, src, dest, i)
  /\ \A p, q \in ToSet(g.phis[dest]) : p.dst = q.dst => p = q
PhiValue(r, x) == IF x \in Consts THEN <<x>> ELSE r[<<"value", x>>]

(* What constant i was loaded into, from registers r to q.                 *)
ConstsLoaded(q, g, src, at, k, dest, R) ==
  \A i \in 1..Len(Copied(g, src, dest)) :
    (Incoming(g, src, dest, i) \in Consts /\ <<"const", at, k, i>> \in R) =>
      q[<<"const", at, k, i>>] = <<Incoming(g, src, dest, i)>>
ValuesKept(q, r, R) == \A x : <<"value", x>> \in R => q[<<"value", x>>] = r[<<"value", x>>]

LEMMA LoadEffect ==
  ASSUME NEW g, WellFormed(g), NEW src, NEW at, NEW k, NEW dest \in Blocks(g),
         NEW R, NEW V, NEW r \in [R -> V], NEW t,
         Runnable(LoadConsts(g, src, at, k, dest), t, R, V)
  PROVE  LET q == Execution(r, LoadConsts(g, src, at, k, dest), t)
         IN  q \in [R -> V] /\ ValuesKept(q, r, R) /\ ConstsLoaded(q, g, src, at, k, dest, R)
<1> DEFINE c == LoadConsts(g, src, at, k, dest)
           q == Execution(r, c, t)
           consts == ConstPhis(g, src, dest)
           m == Len(consts)
           In(i) == Incoming(g, src, dest, i)
<1>1. /\ IsList(consts) /\ m \in Nat /\ DOMAIN consts = 1..m
      /\ \A i : i \in ToSet(consts) <=> i \in 1..Len(Copied(g, src, dest)) /\ In(i) \in Consts
  BY CopiedPhis, ListFacts
<1>2. IsList(c) /\ DOMAIN c = 1..m
  BY CopyLists, ListFacts DEF NoJump
<1>3. \A j \in 1..m : /\ c[j].op = "imm" /\ c[j].dst = <<"const", at, k, consts[j]>>
                      /\ c[j].val = In(consts[j])
  <2> TAKE j \in 1..m
  <2>1. c[j] = Imm(PhiSource(g, src, at, k, dest, consts[j]), In(consts[j]))
    BY DEF LoadConsts
  <2>2. In(consts[j]) \in Consts
    BY <1>1 DEF ToSet
  <2> QED
    BY <2>1, <2>2 DEF PhiSource, Imm, MInstr
<1> HIDE DEF c, consts, In
<1>4. \A j \in 1..m : /\ \A x : Writes(c[j], x) <=> x = <<"const", at, k, consts[j]>>
                      /\ Written(r, c[j], t) = <<In(consts[j])>>
  BY <1>3 DEF Writes, Written
<1>5. AtOnce(r, c, t)
  <2> SUFFICES ASSUME NEW i \in 1..m, NEW j \in 1..m
               PROVE  /\ c[j].op = "mov" => ~Writes(c[i], c[j].srcs[1])
                      /\ \A x : Writes(c[i], x) /\ Writes(c[j], x) =>
                           Written(r, c[i], t) = Written(r, c[j], t)
    BY <1>2 DEF AtOnce
  <2>1. c[j].op # "mov"
    BY <1>3
  <2>2. ASSUME NEW x, Writes(c[i], x), Writes(c[j], x)
        PROVE  Written(r, c[i], t) = Written(r, c[j], t)
    <3>1. consts[i] = consts[j]
      BY <1>4, <2>2, RegisterNames
    <3> QED
      BY <1>4, <3>1
  <2> QED
    BY <2>1, <2>2
<1>6. Outcome(q, r, c, t, R, V)
  BY <1>2, <1>5, RunAtOnce DEF c
<1>7. ValuesKept(q, r, R)
  <2> SUFFICES ASSUME NEW x, <<"value", x>> \in R PROVE q[<<"value", x>>] = r[<<"value", x>>]
    BY DEF ValuesKept
  <2>1. \A j \in DOMAIN c : ~Writes(c[j], <<"value", x>>)
    BY <1>2, <1>4, RegisterNames
  <2> HIDE DEF q
  <2> QED
    BY <1>6, <2>1 DEF Outcome
<1>8. ConstsLoaded(q, g, src, at, k, dest, R)
  <2> SUFFICES ASSUME NEW i \in 1..Len(Copied(g, src, dest)), In(i) \in Consts, <<"const", at, k, i>> \in R
               PROVE  q[<<"const", at, k, i>>] = <<In(i)>>
    BY DEF ConstsLoaded, In
  <2>1. PICK j \in 1..m : consts[j] = i
    BY <1>1 DEF ToSet
  <2>2. j \in DOMAIN c /\ Writes(c[j], <<"const", at, k, i>>) /\ Written(r, c[j], t) = <<In(i)>>
    BY <1>2, <1>4, <2>1
  <2> HIDE DEF q
  <2> QED
    BY <1>6, <2>2 DEF Outcome
<1>9. q \in [R -> V]
  BY <1>6 DEF Outcome
<1> QED
  BY <1>7, <1>8, <1>9 DEF c

(* The temporaries then hold the sources, as they were before the copies.  *)
Snapshots(q, r, g, src, at, k, dest, R) ==
  \A i \in 1..Len(Copied(g, src, dest)) :
    <<"tmp", at, k, i>> \in R => q[<<"tmp", at, k, i>>] = r[PhiSource(g, src, at, k, dest, i)]

LEMMA SnapshotEffect ==
  ASSUME NEW g, WellFormed(g), NEW src, NEW at, NEW k, NEW dest \in Blocks(g), Incomings(g, src, dest),
         NEW R, NEW V, NEW r \in [R -> V], NEW t,
         Runnable(Snapshot(g, src, at, k, dest), t, R, V)
  PROVE  LET q == Execution(r, Snapshot(g, src, at, k, dest), t)
         IN  /\ q \in [R -> V] /\ ValuesKept(q, r, R) /\ Snapshots(q, r, g, src, at, k, dest, R)
             /\ \A i \in 1..Len(Copied(g, src, dest)) : PhiSource(g, src, at, k, dest, i) \in R
<1> DEFINE c == Snapshot(g, src, at, k, dest)
           q == Execution(r, c, t)
           n == Len(Copied(g, src, dest))
           From(i) == PhiSource(g, src, at, k, dest, i)
<1>1. IsList(c) /\ DOMAIN c = 1..n
  BY CopyLists, ListFacts DEF NoJump
<1>2. \A i \in 1..n : c[i].op = "mov" /\ c[i].dst = <<"tmp", at, k, i>> /\ c[i].srcs[1] = From(i)
  BY DEF Snapshot, Mov, MInstr
<1>3. \A i \in 1..n : \A j : From(i) # <<"tmp", at, k, j>>
  <2> TAKE i \in 1..n
  <2>1. SourceKnown(g, src, dest, i)
    BY DEF Incomings
  <2>2. \E x : From(i) = <<"const", at, k, i>> \/ From(i) = <<"value", x>>
    BY <2>1 DEF SourceKnown, PhiSource
  <2> QED
    BY <2>2, RegisterNames
<1> HIDE DEF c, From, n
<1>4. \A i \in 1..n : /\ \A x : Writes(c[i], x) <=> x = <<"tmp", at, k, i>>
                      /\ Written(r, c[i], t) = r[From(i)] /\ From(i) \in R
  <2>1. \A i \in 1..n : c[i].op = "mov" => c[i].srcs[1] \in R
    BY <1>1 DEF Runnable, c
  <2> QED
    BY <1>2, <2>1 DEF Writes, Written
<1>5. AtOnce(r, c, t)
  <2> SUFFICES ASSUME NEW i \in 1..n, NEW j \in 1..n
               PROVE  /\ ~Writes(c[i], c[j].srcs[1])
                      /\ \A x : Writes(c[i], x) /\ Writes(c[j], x) =>
                           Written(r, c[i], t) = Written(r, c[j], t)
    BY <1>1 DEF AtOnce
  <2>1. ~Writes(c[i], c[j].srcs[1])
    BY <1>2, <1>3, <1>4
  <2>2. ASSUME NEW x, Writes(c[i], x), Writes(c[j], x)
        PROVE  Written(r, c[i], t) = Written(r, c[j], t)
    <3>1. i = j
      BY <1>4, <2>2, RegisterNames
    <3> QED
      BY <3>1
  <2> QED
    BY <2>1, <2>2
<1>6. Outcome(q, r, c, t, R, V)
  BY <1>1, <1>5, RunAtOnce DEF c
<1>7. ValuesKept(q, r, R)
  <2> SUFFICES ASSUME NEW x, <<"value", x>> \in R PROVE q[<<"value", x>>] = r[<<"value", x>>]
    BY DEF ValuesKept
  <2>1. \A j \in DOMAIN c : ~Writes(c[j], <<"value", x>>)
    BY <1>1, <1>4, RegisterNames
  <2> HIDE DEF q
  <2> QED
    BY <1>6, <2>1 DEF Outcome
<1>8. Snapshots(q, r, g, src, at, k, dest, R)
  <2> SUFFICES ASSUME NEW i \in 1..n, <<"tmp", at, k, i>> \in R
               PROVE  q[<<"tmp", at, k, i>>] = r[From(i)]
    BY DEF Snapshots, From, n
  <2>1. i \in DOMAIN c /\ Writes(c[i], <<"tmp", at, k, i>>) /\ Written(r, c[i], t) = r[From(i)]
    BY <1>1, <1>4
  <2> HIDE DEF q
  <2> QED
    BY <1>6, <2>1 DEF Outcome
<1>9. q \in [R -> V] /\ \A i \in 1..n : From(i) \in R
  BY <1>4, <1>6 DEF Outcome
<1> QED
  BY <1>7, <1>8, <1>9 DEF c, From, n

(* And the phis receive what the temporaries hold.                         *)
TempsHold(r, g, src, at, k, dest, s) ==
  \A i \in 1..Len(Copied(g, src, dest)) :
    r[<<"tmp", at, k, i>>] = PhiValue(s, Incoming(g, src, dest, i))
PhisWritten(q, r, g, src, dest, s, R) ==
  \A x : <<"value", x>> \in R =>
    /\ \A i \in 1..Len(Copied(g, src, dest)) : Copied(g, src, dest)[i].dst = x =>
         q[<<"value", x>>] = PhiValue(s, Incoming(g, src, dest, i))
    /\ (\A i \in 1..Len(Copied(g, src, dest)) : Copied(g, src, dest)[i].dst # x) =>
         q[<<"value", x>>] = r[<<"value", x>>]

LEMMA WriteEffect ==
  ASSUME NEW g, WellFormed(g), NEW src, NEW at, NEW k, NEW dest \in Blocks(g), Incomings(g, src, dest),
         NEW R, NEW V, NEW r \in [R -> V], NEW t, NEW s, TempsHold(r, g, src, at, k, dest, s),
         Runnable(WritePhis(g, src, at, k, dest), t, R, V)
  PROVE  LET q == Execution(r, WritePhis(g, src, at, k, dest), t)
         IN  q \in [R -> V] /\ PhisWritten(q, r, g, src, dest, s, R)
<1> DEFINE c == WritePhis(g, src, at, k, dest)
           q == Execution(r, c, t)
           n == Len(Copied(g, src, dest))
           p == Copied(g, src, dest)
           New(i) == PhiValue(s, Incoming(g, src, dest, i))
<1>1. IsList(c) /\ DOMAIN c = 1..n
  BY CopyLists, ListFacts DEF NoJump
<1>2. \A i \in 1..n : c[i].op = "mov" /\ c[i].dst = <<"value", p[i].dst>> /\ c[i].srcs[1] = <<"tmp", at, k, i>>
  BY DEF WritePhis, Mov, MInstr
<1>3. \A i, j \in 1..n : p[i].dst = p[j].dst => New(i) = New(j)
  <2> TAKE i, j \in 1..n
  <2> HAVE p[i].dst = p[j].dst
  <2>1. p[i] \in ToSet(g.phis[dest]) /\ p[j] \in ToSet(g.phis[dest])
    <3>1. i \in DOMAIN p /\ j \in DOMAIN p
      BY CopiedPhis, ListFacts
    <3>2. p[i] \in ToSet(p) /\ p[j] \in ToSet(p)
      BY <3>1 DEF ToSet
    <3> QED
      BY <3>2, CopiedPhis
  <2>2. p[i] = p[j]
    BY <2>1 DEF Incomings
  <2> QED
    BY <2>2 DEF Incoming
<1> HIDE DEF c, p, n, New
<1>4. \A i \in 1..n : /\ \A x : Writes(c[i], x) <=> x = <<"value", p[i].dst>>
                      /\ Written(r, c[i], t) = New(i)
  BY <1>2 DEF Writes, Written, TempsHold, New, n
<1>5. AtOnce(r, c, t)
  <2> SUFFICES ASSUME NEW i \in 1..n, NEW j \in 1..n
               PROVE  /\ ~Writes(c[i], c[j].srcs[1])
                      /\ \A x : Writes(c[i], x) /\ Writes(c[j], x) =>
                           Written(r, c[i], t) = Written(r, c[j], t)
    BY <1>1 DEF AtOnce
  <2>1. ~Writes(c[i], c[j].srcs[1])
    BY <1>2, <1>4, RegisterNames
  <2>2. ASSUME NEW x, Writes(c[i], x), Writes(c[j], x)
        PROVE  Written(r, c[i], t) = Written(r, c[j], t)
    <3>1. p[i].dst = p[j].dst
      BY <1>4, <2>2, RegisterNames
    <3> QED
      BY <1>3, <1>4, <3>1
  <2> QED
    BY <2>1, <2>2
<1>6. Outcome(q, r, c, t, R, V)
  BY <1>1, <1>5, RunAtOnce DEF c
<1> HIDE DEF q
<1>7. ASSUME NEW x, <<"value", x>> \in R
      PROVE  /\ \A i \in 1..n : p[i].dst = x => q[<<"value", x>>] = New(i)
             /\ (\A i \in 1..n : p[i].dst # x) => q[<<"value", x>>] = r[<<"value", x>>]
  <2>1. ASSUME NEW i \in 1..n, p[i].dst = x PROVE q[<<"value", x>>] = New(i)
    <3>1. i \in DOMAIN c /\ Writes(c[i], <<"value", x>>) /\ Written(r, c[i], t) = New(i)
      BY <1>1, <1>4, <2>1
    <3> QED
      BY <1>6, <1>7, <3>1 DEF Outcome
  <2>2. ASSUME \A i \in 1..n : p[i].dst # x PROVE q[<<"value", x>>] = r[<<"value", x>>]
    <3>1. \A i \in DOMAIN c : ~Writes(c[i], <<"value", x>>)
      BY <1>1, <1>4, <2>2, RegisterNames
    <3> QED
      BY <1>6, <1>7, <3>1 DEF Outcome
  <2> QED
    BY <2>1, <2>2
<1>8. q \in [R -> V]
  BY <1>6 DEF Outcome
<1>9. PhisWritten(q, r, g, src, dest, s, R)
  BY <1>7 DEF PhisWritten, n, p, New
<1> QED
  BY <1>8, <1>9 DEF q, c

(* Altogether: every phi has its value, and these values had registers.    *)
CopiesDone(q, s, g, src, dest, R, V) ==
  /\ q \in [R -> V] /\ PhisWritten(q, s, g, src, dest, s, R)
  /\ \A i \in 1..Len(Copied(g, src, dest)) : Incoming(g, src, dest, i) \notin Consts =>
       <<"value", Incoming(g, src, dest, i)>> \in R
LEMMA CopiesEffect ==
  ASSUME NEW g, WellFormed(g), NEW src, NEW at, NEW k, NEW dest \in Blocks(g), Incomings(g, src, dest),
         NEW R, NEW V, NEW r \in [R -> V], NEW t,
         Runnable(EmitPhiCopies(g, src, at, k, dest), t, R, V)
  PROVE  CopiesDone(Execution(r, EmitPhiCopies(g, src, at, k, dest), t), r, g, src, dest, R, V)
<1> DEFINE A == LoadConsts(g, src, at, k, dest)
           B == Snapshot(g, src, at, k, dest)
           C == WritePhis(g, src, at, k, dest)
           E == EmitPhiCopies(g, src, at, k, dest)
           n == Len(Copied(g, src, dest))
           From(i) == PhiSource(g, src, at, k, dest, i)
           In(i) == Incoming(g, src, dest, i)
           r1 == Execution(r, A, t)
           r2 == Execution(r1, B, t)
           q == Execution(r2, C, t)
<1>1. IsList(A) /\ IsList(B) /\ IsList(C) /\ DOMAIN C = 1..n
  BY CopyLists, ListFacts DEF NoJump
<1>2. E = (A \o B) \o C
  BY DEF EmitPhiCopies
<1>3. Runnable(A, t, R, V) /\ Runnable(B, t, R, V) /\ Runnable(C, t, R, V) /\ Runnable(A \o B, t, R, V)
  <2>1. Runnable(E, t, R, V)
    OBVIOUS
  <2> HIDE DEF A, B, C, E
  <2>2. IsList(A \o B) /\ ToSet(A \o B) = ToSet(A) \cup ToSet(B)
    BY <1>1, ConcatLists
  <2>3. ToSet(E) = ToSet(A \o B) \cup ToSet(C)
    BY <1>1, <1>2, <2>2, ConcatLists
  <2> QED
    BY <2>1, <2>2, <2>3, PartRunnable
<1>4. r1 \in [R -> V] /\ ValuesKept(r1, r, R) /\ ConstsLoaded(r1, g, src, at, k, dest, R)
  BY <1>3, LoadEffect
<1> HIDE DEF r1
<1>5. /\ r2 \in [R -> V] /\ ValuesKept(r2, r1, R) /\ Snapshots(r2, r1, g, src, at, k, dest, R)
      /\ \A i \in 1..n : From(i) \in R
  BY <1>3, <1>4, SnapshotEffect
<1> HIDE DEF r2
<1>6. \A i \in 1..n : <<"tmp", at, k, i>> \in R
  <2> TAKE i \in 1..n
  <2>1. C[i].op = "mov" /\ C[i].srcs[1] = <<"tmp", at, k, i>>
    BY DEF WritePhis, Mov, MInstr
  <2> HIDE DEF C
  <2> QED
    BY <1>1, <1>3, <2>1 DEF Runnable
<1>7. \A i \in 1..n : In(i) \notin Consts => /\ From(i) = <<"value", In(i)>> /\ <<"value", In(i)>> \in R
                                             /\ r1[From(i)] = r[<<"value", In(i)>>]
  <2> TAKE i \in 1..n
  <2> HAVE In(i) \notin Consts
  <2>1. SourceKnown(g, src, dest, i) /\ From(i) \in R
    BY <1>5 DEF Incomings
  <2>2. From(i) = <<"value", In(i)>>
    BY <2>1 DEF SourceKnown, PhiSource
  <2> QED
    BY <1>4, <2>1, <2>2 DEF ValuesKept
<1>8. \A i \in 1..n : In(i) \in Consts => r1[From(i)] = <<In(i)>>
  <2> TAKE i \in 1..n
  <2> HAVE In(i) \in Consts
  <2>1. From(i) = <<"const", at, k, i>> /\ From(i) \in R
    BY <1>5 DEF PhiSource
  <2> QED
    BY <1>4, <2>1 DEF ConstsLoaded
<1>9. TempsHold(r2, g, src, at, k, dest, r)
  <2> SUFFICES ASSUME NEW i \in 1..n PROVE r2[<<"tmp", at, k, i>>] = PhiValue(r, In(i))
    BY DEF TempsHold
  <2>1. r2[<<"tmp", at, k, i>>] = r1[From(i)]
    BY <1>5, <1>6 DEF Snapshots
  <2> QED
    BY <1>7, <1>8, <2>1 DEF PhiValue
<1>10. q \in [R -> V] /\ PhisWritten(q, r2, g, src, dest, r, R)
  BY <1>3, <1>5, <1>9, WriteEffect
<1> HIDE DEF q
<1>11. \A x : <<"value", x>> \in R => r2[<<"value", x>>] = r[<<"value", x>>]
  BY <1>4, <1>5 DEF ValuesKept
<1>12. PhisWritten(q, r, g, src, dest, r, R)
  BY <1>10, <1>11 DEF PhisWritten
<1>13. Execution(r, E, t) = q
  <2> HIDE DEF A, B, C, E
  <2>1. Execution(r, A \o B, t) = r2
    BY <1>1, <1>3, RunConcat DEF r1, r2
  <2>2. IsList(A \o B)
    BY <1>1, ConcatLists
  <2> DEFINE AB == A \o B
  <2>3. IsList(AB) /\ Runnable(AB, t, R, V)
    BY <1>3, <2>2
  <2> HIDE DEF AB
  <2>4. Execution(r, AB \o C, t) = Execution(Execution(r, AB, t), C, t)
    BY <1>1, <1>3, <2>3, RunConcat
  <2> QED
    BY <1>2, <2>1, <2>4 DEF q, AB
<1>14. CopiesDone(q, r, g, src, dest, R, V)
  BY <1>7, <1>10, <1>12 DEF CopiesDone, n, In
<1> QED
  BY <1>13, <1>14 DEF E

-----------------------------------------------------------------------------
(* The exits on the way to one whose edge has copies of its own.           *)
LEMMA EmptyList ==
  ASSUME NEW s, IsList(s), Len(s) = 0 \/ ToSet(s) = {}
  PROVE  s = <<>>
<1>1. Len(s) = 0
  <2>1. CASE ToSet(s) = {}
    <3>1. DOMAIN s = {}
      BY <2>1 DEF ToSet
    <3>2. Len(s) \in Nat /\ DOMAIN s = 1..Len(s)
      BY ListFacts
    <3> QED
      BY <3>1, <3>2
  <2> QED
    BY <2>1
<1> QED
  BY <1>1 DEF IsList

LEMMA NoCopies ==
  ASSUME NEW g, WellFormed(g), NEW src, NEW at, NEW k, NEW dest \in Blocks(g),
         Copied(g, src, dest) = <<>>
  PROVE  EmitPhiCopies(g, src, at, k, dest) = <<>>
<1> DEFINE A == LoadConsts(g, src, at, k, dest)
           B == Snapshot(g, src, at, k, dest)
           C == WritePhis(g, src, at, k, dest)
<1>1. /\ IsList(A) /\ IsList(B) /\ IsList(C)
      /\ Len(A) = Len(ConstPhis(g, src, dest)) /\ Len(B) = 0 /\ Len(C) = 0
  BY CopyLists DEF NoJump
<1>2. ConstPhis(g, src, dest) = <<>>
  <2>1. IsList(ConstPhis(g, src, dest)) /\ ToSet(ConstPhis(g, src, dest)) = {}
    BY CopiedPhis
  <2> QED
    BY <2>1, EmptyList
<1> HIDE DEF A, B, C
<1>3. A = <<>> /\ B = <<>> /\ C = <<>>
  BY <1>1, <1>2, EmptyList
<1> QED
  BY <1>3 DEF EmitPhiCopies, A, B, C

IdleIn(s) == \A in \in ToSet(s) : in.op \in {"use", "leave"}
LEMMA IdleParts ==
  ASSUME NEW s, IsList(s), IdleIn(s), NEW in, in.op \in {"use", "leave"}
  PROVE  IdleIn(Append(s, in)) /\ Idle(s) /\ IsList(Append(s, in)) /\ Idle(Append(s, in))
<1>1. IsList(Append(s, in)) /\ ToSet(Append(s, in)) = ToSet(s) \cup {in}
  BY AppendList
<1>2. IdleIn(Append(s, in))
  BY <1>1 DEF IdleIn
<1> QED
  BY <1>1, <1>2 DEF IdleIn, Idle, ToSet

(* The hypotheses about the edges of one function.                         *)
CopiesAlone(g) ==
  \A b \in Blocks(g) : \A k \in LoweredEdges(g, b) :
    OwnCopies(g, b, k) \/ Copied(g, b, g.succs[b][k]) = <<>>

LEMMA QuietExit ==
  ASSUME NEW g, WellFormed(g), CopiesAlone(g), NEW b \in Blocks(g), NEW k \in LoweredEdges(g, b),
         g.kind[b] = "condbr" \/ ~OwnCopies(g, b, k)
  PROVE  IdleIn(ExitCode(g, b, k)) /\ IsList(ExitCode(g, b, k))
         /\ IdleIn(Append(ExitCode(g, b, k), Leave(g, b, k)))
         /\ Idle(Append(ExitCode(g, b, k), Leave(g, b, k)))
<1> DEFINE copies == EmitPhiCopies(g, b, b, k, g.succs[b][k])
           operand == Resolve(g, b, g.operand[b])
           use == Use(<<operand>>)
<1>1. /\ g.kind[b] \in {"br", "condbr", "switch", "invoke", "catchret", "catchswitch"}
      /\ g.kind[b] = "invoke" => k \in {1, 2}
  <2>1. /\ IsList(g.succs[b]) /\ (g.kind[b] = "ret") = (g.succs[b] = <<>>)
        /\ g.kind[b] \in {"br", "condbr", "switch", "invoke", "catchret", "catchswitch", "ret"}
        /\ g.kind[b] = "invoke" => Len(g.succs[b]) = 2
    BY DEF WellFormed
  <2>2. g.succs[b] # <<>> /\ k \in DOMAIN g.succs[b]
    BY <2>1, LoweredOnes
  <2>3. DOMAIN g.succs[b] = 1..Len(g.succs[b])
    BY <2>1, ListFacts
  <2>4. g.kind[b] = "invoke" => k \in {1, 2}
    <3> SUFFICES ASSUME g.kind[b] = "invoke" PROVE k \in {1, 2}
      OBVIOUS
    <3>1. k \in 1..2
      BY <2>1, <2>2, <2>3
    <3> QED
      BY <3>1
  <2> QED
    BY <2>1, <2>2, <2>4
<1>2. IdleIn(<<>>) /\ IdleIn(<<use>>)
  <2>1. use.op = "use"
    BY DEF Use, MInstr
  <2> HIDE DEF use
  <2>2. ToSet(<<use>>) = {use}
    BY OneElement
  <2> QED
    BY <2>1, <2>2, NoInstruction DEF IdleIn
<1>3. ~OwnCopies(g, b, k) => copies = <<>>
  <2>1. g.succs[b][k] \in Blocks(g)
    BY LoweredOnes, FunctionShape
  <2> QED
    BY <2>1, NoCopies DEF CopiesAlone
<1>4. <<>> \o <<use>> = <<use>> /\ <<>> \o <<>> = <<>>
  OBVIOUS
<1>5. IdleIn(ExitCode(g, b, k))
  <2> HIDE DEF copies, use
  <2>1. CASE g.kind[b] = "condbr"
    BY <1>2, <2>1 DEF ExitCode, use
  <2>2. CASE g.kind[b] = "br"
    <3>1. ExitCode(g, b, k) = copies
      BY <2>2 DEF ExitCode, copies
    <3> QED
      BY <1>2, <1>3, <2>2, <3>1
  <2>3. CASE g.kind[b] = "switch"
    <3>1. \/ ExitCode(g, b, k) = copies \o <<>>
          \/ ExitCode(g, b, k) = copies \o <<use>>
      BY <2>3 DEF ExitCode, copies, use
    <3> QED
      BY <1>2, <1>3, <1>4, <2>3, <3>1
  <2>4. CASE g.kind[b] = "invoke"
    <3>1. k = 1
      BY <1>1, <2>4 DEF OwnCopies
    <3> QED
      BY <1>2, <2>4, <3>1 DEF ExitCode
  <2>5. CASE g.kind[b] \in {"catchret", "catchswitch"}
    BY <1>2, <2>5 DEF ExitCode
  <2> QED
    BY <1>1, <2>1, <2>2, <2>3, <2>4, <2>5
<1>6. IsList(ExitCode(g, b, k))
  BY LoweredOnes, ExitCodes DEF NoJump
<1>7. Leave(g, b, k).op = "leave"
  BY LeaveFacts
<1> QED
  BY <1>5, <1>6, <1>7, IdleParts

LEMMA QuietBefore ==
  ASSUME NEW g, WellFormed(g), CopiesAlone(g), NEW b \in Blocks(g), NEW k \in LoweredEdges(g, b),
         NEW before, EarlierExits(g, b, k, before)
  PROVE  Idle(before) /\ IsList(before)
<1>1. /\ IsList(g.succs[b]) /\ DOMAIN g.succs[b] = 1..Len(g.succs[b]) /\ Len(g.succs[b]) \in Nat
      /\ k \in DOMAIN g.succs[b] /\ \A j \in 1..k : j \in LoweredEdges(g, b)
  BY FunctionShape, ListFacts, LoweredOnes
<1>2. ASSUME NEW j \in 1..(k - 1) PROVE IdleIn(Append(ExitCode(g, b, j), Leave(g, b, j)))
  <2>1. j \in LoweredEdges(g, b) /\ j # Len(g.succs[b]) /\ j < k /\ k <= Len(g.succs[b])
    BY <1>1
  <2>2. g.kind[b] = "condbr" \/ ~OwnCopies(g, b, j)
    <3> SUFFICES ASSUME g.kind[b] = "invoke", j = 2 PROVE FALSE
      BY <2>1 DEF OwnCopies
    <3>1. Len(g.succs[b]) = 2
      BY DEF WellFormed
    <3> QED
      BY <2>1, <3>1
  <2> QED
    BY <2>1, <2>2, QuietExit
<1>3. \A in \in ToSet(before) : in.op \in {"use", "leave"}
  BY <1>2 DEF EarlierExits, IdleIn
<1> QED
  BY <1>3 DEF EarlierExits, Idle, ToSet

(* The parts of a block's code.                                            *)
LEMMA PartsOfBlock ==
  ASSUME NEW g, WellFormed(g), NEW b \in Blocks(g), NEW k \in LoweredEdges(g, b)
  PROVE  /\ ToSet(Body(g, b)) \subseteq ToSet(LowerFunction(g)[b])
         /\ ToSet(Append(ExitCode(g, b, k), Leave(g, b, k))) \subseteq ToSet(LowerFunction(g)[b])
<1> DEFINE exits == Exits(g, b)
           body == Body(g, b)
<1>1. /\ IsList(exits) /\ AllExits(exits) /\ DOMAIN exits = LoweredEdges(g, b)
      /\ exits[k] = Append(ExitCode(g, b, k), Leave(g, b, k))
  BY BlockExits
<1>2. NoJump(body)
  BY BodyJumpNot
<1>3. LowerFunction(g)[b] = body \o FlattenSeq(exits)
  <2>1. g.kind[b] # "ret"
    BY LoweredOnes
  <2> QED
    BY <2>1, LoweredBlocks DEF LowerBlock, LowerTerminator
<1> HIDE DEF exits, body
<1>4. exits # <<>> /\ k \in DOMAIN exits
  BY <1>1
<1>5. ToSet(body \o FlattenSeq(exits)) =
        ToSet(body) \cup UNION {ToSet(exits[j]) : j \in DOMAIN exits}
  BY <1>1, <1>2, <1>4, CodeOfExits
<1>6. ToSet(exits[k]) \subseteq UNION {ToSet(exits[j]) : j \in DOMAIN exits}
  BY <1>4
<1>7. ToSet(body) \subseteq ToSet(LowerFunction(g)[b]) /\ ToSet(exits[k]) \subseteq ToSet(LowerFunction(g)[b])
  BY <1>3, <1>5, <1>6
<1> QED
  BY <1>1, <1>7 DEF body

(* What runs up to the k-th jump has the effect of the body and the exit.  *)
ExitOf(g, b, k) == Append(ExitCode(g, b, k), Leave(g, b, k))
LEMMA ReachExit ==
  ASSUME NEW g, WellFormed(g), CopiesAlone(g), NEW b \in Blocks(g), NEW k \in LoweredEdges(g, b),
         NEW R, NEW V, NEW r \in [R -> V], NEW t, Runnable(LowerFunction(g)[b], t, R, V)
  PROVE  /\ Runnable(Body(g, b), t, R, V) /\ Runnable(ExitOf(g, b, k), t, R, V)
         /\ IsList(ExitOf(g, b, k)) /\ IsList(UpToJump(LowerFunction(g)[b], k))
         /\ Runnable(UpToJump(LowerFunction(g)[b], k), t, R, V)
         /\ Execution(r, UpToJump(LowerFunction(g)[b], k), t) =
              Execution(Execution(r, Body(g, b), t), ExitOf(g, b, k), t)
<1> DEFINE c == LowerFunction(g)[b]
           body == Body(g, b)
           exit == ExitOf(g, b, k)
           path == UpToJump(c, k)
           r1 == Execution(r, body, t)
<1>1. PICK before : EarlierExits(g, b, k, before) /\ path = PathCode(g, b, k, before)
  BY BlockPath
<1>2. /\ IsList(body) /\ IsList(before) /\ IsList(exit) /\ IsList(path)
      /\ path = body \o (before \o exit)
  BY <1>1, PathList DEF ExitOf, PathCode
<1>3. Idle(before)
  BY <1>1, QuietBefore
<1>4. /\ ToSet(body) \subseteq ToSet(c) /\ ToSet(exit) \subseteq ToSet(c)
  BY PartsOfBlock DEF ExitOf
<1>5. ToSet(before) \subseteq ToSet(c)
  <2>1. \A j \in 1..(k - 1) : j \in LoweredEdges(g, b)
    <3>1. k \in Nat /\ \A j \in 1..k : j \in LoweredEdges(g, b)
      BY LoweredOnes
    <3> QED
      BY <3>1
  <2> QED
    BY <1>1, <2>1, PartsOfBlock DEF EarlierExits
<1>6. Runnable(body, t, R, V) /\ Runnable(before, t, R, V) /\ Runnable(exit, t, R, V)
  BY <1>4, <1>5, PartRunnable
<1> HIDE DEF c, body, exit, path
<1> DEFINE d == before \o exit
<1>7. r1 \in [R -> V]
  <2>1. IsList(<<>>) /\ Runnable(<<>>, t, R, V)
    BY NoInstruction DEF Runnable
  <2> QED
    BY <1>2, <1>6, <2>1, RunConcat
<1> HIDE DEF r1
<1>8. IsList(d) /\ Runnable(d, t, R, V) /\ Execution(r1, d, t) = Execution(r1, exit, t)
  <2>1. RunsInTurn(r1, before, exit, t, R, V) /\ IsList(d)
    BY <1>2, <1>6, <1>7, RunInTurn
  <2>2. Execution(r1, before, t) = r1
    BY <1>2, <1>3, <1>6, <1>7, RunIdle
  <2> QED
    BY <2>1, <2>2 DEF RunsInTurn
<1> HIDE DEF d
<1>9. RunsInTurn(r, body, d, t, R, V)
  BY <1>2, <1>6, <1>8, RunInTurn
<1>10. path = body \o d
  BY <1>2 DEF d
<1> QED
  BY <1>2, <1>6, <1>8, <1>9, <1>10 DEF c, body, exit, path, r1, RunsInTurn

-----------------------------------------------------------------------------
(* An edge: first what the source block defines, then its phi copies.      *)
LEMMA IdleJump ==
  ASSUME NEW R, NEW V, NEW r \in [R -> V], NEW c, IsList(c), NEW t, NEW e, e.op = "leave",
         Runnable(Append(c, e), t, R, V)
  PROVE  Runnable(c, t, R, V) /\ Execution(r, Append(c, e), t) = Execution(r, c, t)
<1> DEFINE u == <<e>>
<1>1. e.op = "leave"
  OBVIOUS
<1>2. Runnable(Append(c, e), t, R, V)
  OBVIOUS
<1>3. ToSet(Append(c, e)) = ToSet(c) \cup {e} /\ Append(c, e) = c \o u
  BY AppendList, ConcatOne
<1>4. IsList(u) /\ ToSet(u) = {e} /\ Idle(u)
  <2>1. \A i \in DOMAIN u : u[i] \in ToSet(u)
    BY DEF ToSet
  <2> QED
    BY <1>1, <2>1, OneInstruction DEF Idle
<1> HIDE DEF u
<1>5. Runnable(c, t, R, V) /\ Runnable(u, t, R, V)
  BY <1>2, <1>3, <1>4, PartRunnable
<1>6. RunsInTurn(r, c, u, t, R, V)
  BY <1>4, <1>5, RunInTurn
<1> DEFINE q == Execution(r, c, t)
<1>7. q \in [R -> V] /\ Execution(r, c \o u, t) = Execution(q, u, t)
  BY <1>6 DEF RunsInTurn
<1> HIDE DEF q
<1>8. Execution(q, u, t) = q
  BY <1>4, <1>5, <1>7, RunIdle
<1> QED
  BY <1>3, <1>5, <1>7, <1>8 DEF q

LEMMA DefineOne ==
  ASSUME NEW R, NEW V, NEW r \in [R -> V], NEW t, NEW x,
         Runnable(<<Def(<<"value", x>>, x)>>, t, R, V)
  PROVE  ValuesWritten(Execution(r, <<Def(<<"value", x>>, x)>>, t), r, {x}, t, R)
<1> DEFINE e == Def(<<"value", x>>, x)
           u == <<e>>
           q == Execution(r, u, t)
<1>1. e.op = "def" /\ e.dst = <<"value", x>> /\ e.val = x
  BY DEF Def, MInstr
<1> HIDE DEF e
<1>2. IsList(u) /\ DOMAIN u = {1} /\ u[1] = e
  BY OneInstruction
<1> HIDE DEF u
<1>3. \A y : Writes(u[1], y) <=> y = <<"value", x>>
  BY <1>1, <1>2 DEF Writes
<1>4. Written(r, u[1], t) = <<x, t>>
  BY <1>1, <1>2 DEF Written
<1>5. AtOnce(r, u, t)
  BY <1>1, <1>2 DEF AtOnce
<1>6. Runnable(u, t, R, V)
  BY DEF u, e
<1>7. Outcome(q, r, u, t, R, V)
  BY <1>2, <1>5, <1>6, RunAtOnce
<1> HIDE DEF q
<1>8. ASSUME NEW y, <<"value", y>> \in R
      PROVE  q[<<"value", y>>] = IF y = x THEN <<x, t>> ELSE r[<<"value", y>>]
  <2>1. CASE y = x
    BY <1>2, <1>3, <1>4, <1>7, <1>8, <2>1 DEF Outcome
  <2>2. CASE y # x
    <3>1. \A i \in DOMAIN u : ~Writes(u[i], <<"value", y>>)
      BY <1>2, <1>3, <2>2, RegisterNames
    <3> QED
      BY <1>7, <1>8, <2>2, <3>1 DEF Outcome
  <2> QED
    BY <2>1, <2>2
<1>9. ValuesWritten(q, r, {x}, t, R)
  BY <1>8 DEF ValuesWritten
<1> QED
  BY <1>9 DEF q, u, e

Returned(g, b, k) == IF g.kind[b] = "invoke" /\ k = 2 THEN {g.operand[b]} \ {NoValue} ELSE {}

LEMMA ExitEffect ==
  ASSUME NEW g, WellFormed(g), CopiesAlone(g), NEW b \in Blocks(g), NEW k \in LoweredEdges(g, b),
         Incomings(g, b, g.succs[b][k]), g.kind[b] # "condbr",
         NEW R, NEW V, NEW r \in [R -> V], NEW t, Runnable(ExitOf(g, b, k), t, R, V)
  PROVE  \E s \in [R -> V] :
           /\ ValuesWritten(s, r, Returned(g, b, k), t, R)
           /\ CopiesDone(Execution(r, ExitOf(g, b, k), t), s, g, b, g.succs[b][k], R, V)
<1> DEFINE d == g.succs[b][k]
           copies == EmitPhiCopies(g, b, b, k, d)
           exit == ExitOf(g, b, k)
           x == g.operand[b]
           def == <<Def(<<"value", x>>, x)>>
<1>1. /\ d \in Blocks(g) /\ IsList(copies) /\ IsList(ExitCode(g, b, k))
      /\ exit = Append(ExitCode(g, b, k), Leave(g, b, k))
  BY LoweredOnes, FunctionShape, CopiesJumpNot, ExitCodes DEF NoJump, ExitOf
<1>2. ASSUME NEW s \in [R -> V], Runnable(copies, t, R, V)
      PROVE  CopiesDone(Execution(s, copies, t), s, g, b, d, R, V)
  BY <1>1, <1>2, CopiesEffect
<1>3. Runnable(ExitCode(g, b, k), t, R, V) /\ Execution(r, exit, t) = Execution(r, ExitCode(g, b, k), t)
  BY <1>1, LeaveFacts, IdleJump
<1> HIDE DEF copies, exit
<1>4. CASE ~OwnCopies(g, b, k)
  <2>1. IsList(exit) /\ Idle(exit) /\ Runnable(exit, t, R, V)
    <3>1. Idle(exit)
      BY <1>4, QuietExit DEF exit, ExitOf
    <3>2. IsList(exit)
      BY <1>1, AppendList
    <3> QED
      BY <3>1, <3>2 DEF exit
  <2>2. Execution(r, exit, t) = r
    BY <2>1, RunIdle
  <2>3. copies = <<>>
    BY <1>1, <1>4, NoCopies DEF CopiesAlone, copies
  <2>4. Runnable(copies, t, R, V) /\ Idle(copies)
    BY <2>3 DEF Runnable, Idle
  <2>5. Execution(r, copies, t) = r
    BY <1>1, <2>4, RunIdle
  <2>6. CopiesDone(r, r, g, b, d, R, V)
    BY <1>2, <2>4, <2>5
  <2>7. Returned(g, b, k) = {}
    BY <1>4 DEF Returned, OwnCopies
  <2>8. ValuesWritten(r, r, Returned(g, b, k), t, R)
    BY <2>7 DEF ValuesWritten
  <2> QED
    BY <2>2, <2>6, <2>8 DEF exit
<1>5. CASE ExitCode(g, b, k) = copies /\ Returned(g, b, k) = {}
  <2>1. CopiesDone(Execution(r, exit, t), r, g, b, d, R, V)
    BY <1>2, <1>3, <1>5
  <2>2. ValuesWritten(r, r, Returned(g, b, k), t, R)
    BY <1>5 DEF ValuesWritten
  <2> QED
    BY <2>1, <2>2 DEF exit
<1>6. CASE ExitCode(g, b, k) = def \o copies /\ Returned(g, b, k) = {x}
  <2>1. IsList(def)
    BY OneInstruction
  <2> HIDE DEF def
  <2>2. ToSet(def \o copies) = ToSet(def) \cup ToSet(copies)
    BY <1>1, <2>1, ConcatLists
  <2>3. Runnable(def, t, R, V) /\ Runnable(copies, t, R, V)
    BY <1>3, <1>6, <2>2, PartRunnable
  <2> DEFINE s == Execution(r, def, t)
  <2>4. RunsInTurn(r, def, copies, t, R, V)
    BY <1>1, <2>1, <2>3, RunInTurn
  <2>5. s \in [R -> V] /\ Execution(r, exit, t) = Execution(s, copies, t)
    BY <1>3, <1>6, <2>4 DEF RunsInTurn
  <2>6. ValuesWritten(s, r, {x}, t, R)
    <3>1. Runnable(<<Def(<<"value", x>>, x)>>, t, R, V)
      BY <2>3 DEF def
    <3>2. ValuesWritten(Execution(r, <<Def(<<"value", x>>, x)>>, t), r, {x}, t, R)
      BY <3>1, DefineOne
    <3> QED
      BY <3>2 DEF def
  <2> HIDE DEF s
  <2>7. ValuesWritten(s, r, Returned(g, b, k), t, R)
    BY <1>6, <2>6
  <2>8. CopiesDone(Execution(r, exit, t), s, g, b, d, R, V)
    BY <1>2, <2>3, <2>5
  <2> QED
    BY <2>5, <2>7, <2>8 DEF exit
<1>7. OwnCopies(g, b, k) =>
        \/ ExitCode(g, b, k) = copies /\ Returned(g, b, k) = {}
        \/ ExitCode(g, b, k) = def \o copies /\ Returned(g, b, k) = {x}
  <2> SUFFICES ASSUME OwnCopies(g, b, k)
               PROVE  \/ ExitCode(g, b, k) = copies /\ Returned(g, b, k) = {}
                      \/ ExitCode(g, b, k) = def \o copies /\ Returned(g, b, k) = {x}
    OBVIOUS
  <2>1. <<>> \o copies = copies /\ copies \o <<>> = copies
    BY <1>1 DEF IsList
  <2> HIDE DEF def
  <2>2. CASE g.kind[b] = "br"
    BY <2>2 DEF ExitCode, Returned, copies
  <2>3. CASE g.kind[b] = "switch" /\ k = Len(g.succs[b])
    <3>1. ExitCode(g, b, k) = copies \o <<>>
      BY <2>3 DEF ExitCode, copies
    <3> QED
      BY <2>1, <2>3, <3>1 DEF Returned
  <2>4. CASE g.kind[b] = "invoke" /\ k = 2
    <3>1. Resolve(g, b, x) = <<"value", x>>
      <4>1. b <= b
        BY FunctionShape
      <4> QED
        BY <2>4, <4>1 DEF Resolve
    <3>2. ExitCode(g, b, k) = (IF x = NoValue THEN <<>> ELSE def) \o copies
      BY <2>4, <3>1 DEF ExitCode, copies, def
    <3>3. Returned(g, b, k) = IF x = NoValue THEN {} ELSE {x}
      BY <2>4 DEF Returned
    <3> QED
      BY <2>1, <3>2, <3>3
  <2> QED
    BY <2>2, <2>3, <2>4 DEF OwnCopies
<1> QED
  BY <1>4, <1>5, <1>6, <1>7

(* All that runs for an edge, and what it does.                            *)
EdgeCode(g, b, k) ==
  IF g.kind[b] = "condbr" THEN UpToJump(LowerFunction(g)[b], k) \o LowerEdge(g, b, k)
                          ELSE UpToJump(LowerFunction(g)[b], k)

LEMMA EdgeEffect ==
  ASSUME NEW g, WellFormed(g), CopiesAlone(g), NEW b \in Blocks(g), NEW k \in LoweredEdges(g, b),
         Incomings(g, b, g.succs[b][k]),
         NEW R, NEW V, NEW r \in [R -> V], NEW t, AllRun(LowerFunction(g), t, R, V)
  PROVE  \E s \in [R -> V] :
           /\ ValuesWritten(s, r, ToSet(g.defs[b]) \cup Returned(g, b, k), t, R)
           /\ CopiesDone(Execution(r, EdgeCode(g, b, k), t), s, g, b, g.succs[b][k], R, V)
<1> DEFINE d == g.succs[b][k]
           path == UpToJump(LowerFunction(g)[b], k)
           r1 == Execution(r, Body(g, b), t)
           exit == ExitOf(g, b, k)
<1>1. b \in 1..Len(LowerFunction(g)) /\ d \in Blocks(g)
  <2>1. Len(LowerFunction(g)) \in Nat /\ Len(g.succs) <= Len(LowerFunction(g))
    BY LoweredBlocks
  <2> QED
    BY <2>1, LoweredOnes, FunctionShape
<1>2. Runnable(LowerFunction(g)[b], t, R, V)
  BY <1>1 DEF AllRun
<1>3. /\ Runnable(Body(g, b), t, R, V) /\ Runnable(exit, t, R, V) /\ IsList(exit)
      /\ IsList(path) /\ Runnable(path, t, R, V)
      /\ Execution(r, path, t) = Execution(r1, exit, t)
  BY <1>2, ReachExit
<1>4. r1 \in [R -> V] /\ ValuesWritten(r1, r, ToSet(g.defs[b]), t, R)
  BY <1>3, BodyEffect
<1> HIDE DEF path, r1, exit
<1>5. CASE g.kind[b] # "condbr"
  <2>1. PICK s \in [R -> V] :
          /\ ValuesWritten(s, r1, Returned(g, b, k), t, R)
          /\ CopiesDone(Execution(r1, exit, t), s, g, b, d, R, V)
    BY <1>3, <1>4, <1>5, ExitEffect DEF exit
  <2>2. ValuesWritten(s, r, ToSet(g.defs[b]) \cup Returned(g, b, k), t, R)
    BY <1>4, <2>1 DEF ValuesWritten
  <2> QED
    BY <1>3, <1>5, <2>1, <2>2 DEF EdgeCode, path
<1>6. CASE g.kind[b] = "condbr"
  <2> DEFINE at == EdgeBlock(g, b, k)
             copies == EmitPhiCopies(g, b, at, k, d)
             tail == LowerEdge(g, b, k)
  <2>1. /\ k \in {1, 2} /\ ExitTo(g, b, k) = at /\ ExitTo(g, b, k) \in 1..Len(LowerFunction(g))
        /\ LowerFunction(g)[ExitTo(g, b, k)] = tail
    BY <1>6, LoweredOnes, ExitTargets
  <2>2. Runnable(tail, t, R, V)
    BY <2>1 DEF AllRun
  <2>3. tail = Append(copies, Jump(d)) /\ IsList(copies) /\ IsList(tail)
    <3>1. NoJump(copies)
      BY <1>1, CopiesJumpNot
    <3>2. IsList(copies)
      BY <3>1 DEF NoJump
    <3>3. tail = Append(copies, Jump(d))
      BY DEF LowerEdge
    <3> HIDE DEF tail, copies
    <3> QED
      BY <3>2, <3>3, AppendList
  <2>4. Execution(r1, exit, t) = r1
    <3>1. Idle(exit)
      BY <1>6, QuietExit DEF exit, ExitOf
    <3> QED
      BY <1>3, <1>4, <3>1, RunIdle
  <2> HIDE DEF tail, copies
  <2>5. RunsInTurn(r, path, tail, t, R, V)
    BY <1>3, <2>2, <2>3, RunInTurn
  <2>6. Execution(r, path \o tail, t) = Execution(r1, tail, t)
    BY <1>3, <2>4, <2>5 DEF RunsInTurn
  <2>7. Runnable(copies, t, R, V) /\ Execution(r1, tail, t) = Execution(r1, copies, t)
    BY <1>4, <2>2, <2>3, LeaveFacts, IdleJump
  <2>8. CopiesDone(Execution(r1, copies, t), r1, g, b, d, R, V)
    <3> HIDE DEF at
    <3>1. Runnable(EmitPhiCopies(g, b, at, k, d), t, R, V)
      BY <2>7 DEF copies
    <3>2. CopiesDone(Execution(r1, EmitPhiCopies(g, b, at, k, d), t), r1, g, b, d, R, V)
      BY <1>1, <1>4, <3>1, CopiesEffect
    <3> QED
      BY <3>2 DEF copies
  <2>9. Returned(g, b, k) = {}
    BY <1>6 DEF Returned
  <2> QED
    BY <1>4, <1>6, <2>6, <2>7, <2>8, <2>9 DEF EdgeCode, path, tail
<1> QED
  BY <1>5, <1>6

LEMMA EdgePathCode ==
  ASSUME WellFormed(f), lowered = LowerFunction(f), NEW b \in Blocks(f), NEW k \in LoweredEdges(f, b)
  PROVE  EdgePath(b, k) = EdgeCode(f, b, k)
<1> DEFINE path == UpToJump(lowered[b], k)
           to == ExitTo(f, b, k)
<1>1. Last(path) = Leave(f, b, k)
  BY BlockPath
<1>2. Last(path).val = to
  BY <1>1, LeaveFacts
<1>3. EdgePath(b, k) = IF to \in Blocks(f) THEN path ELSE path \o lowered[to]
  BY <1>2 DEF EdgePath
<1>4. CASE f.kind[b] = "condbr"
  <2>1. to \notin Blocks(f) /\ lowered[to] = LowerEdge(f, b, k)
    BY <1>4, LoweredOnes, ExitTargets
  <2> QED
    BY <1>3, <1>4, <2>1 DEF EdgeCode
<1>5. CASE f.kind[b] # "condbr"
  <2>1. to \in Blocks(f)
    BY <1>5, LoweredOnes, ExitTargets
  <2> QED
    BY <1>3, <1>5, <2>1 DEF EdgeCode
<1> QED
  BY <1>4, <1>5

-----------------------------------------------------------------------------
(* The IR's values and the registers: constants are what they are, and     *)
(* every other value is in its register, if any instruction names that.    *)
Agree(e, r) ==
  /\ DOMAIN e = Values(f)
  /\ \A x \in Values(f) : x \in Consts => e[x] = <<x>>
  /\ \A x \in Values(f) : x \notin Consts =>
       (<<"value", x>> \in Registers(lowered) => r[<<"value", x>>] = e[x])

LEMMA EdgeIncomings ==
  ASSUME NEW g, WellFormed(g), Destructible(g), NEW b \in Blocks(g), NEW k \in DOMAIN g.succs[b]
  PROVE  /\ Incomings(g, b, g.succs[b][k]) /\ CopiesAlone(g)
         /\ \A p \in ToSet(g.phis[g.succs[b][k]]) :
              b \in DOMAIN p.inc /\ (p.inc[b] \in Consts \/ Known(g, b, p.inc[b]))
         /\ \A i \in 1..Len(Copied(g, b, g.succs[b][k])) :
              Copied(g, b, g.succs[b][k])[i] \in ToSet(Copied(g, b, g.succs[b][k]))
<1> DEFINE d == g.succs[b][k]
           c == Copied(g, b, d)
<1>1. d \in Blocks(g)
  BY FunctionShape
<1>2. \A p \in ToSet(g.phis[d]) : b \in DOMAIN p.inc /\ (p.inc[b] \in Consts \/ Known(g, b, p.inc[b]))
  BY DEF Destructible, KnownReads
<1>3. IsList(c) /\ \A p \in ToSet(c) : p \in ToSet(g.phis[d])
  BY <1>1, CopiedPhis
<1>4. \A i \in 1..Len(c) : c[i] \in ToSet(c)
  <2> HIDE DEF c
  <2> QED
    BY <1>3, ListFacts
<1>5. \A i \in 1..Len(c) : SourceKnown(g, b, d, i)
  BY <1>2, <1>3, <1>4 DEF SourceKnown, Incoming, Known
<1>6. \A p, q \in ToSet(g.phis[d]) : p.dst = q.dst => p = q
  BY <1>1 DEF Destructible, SingleAssignment
<1>7. CopiesAlone(g)
  BY DEF Destructible, CopiesAlone
<1> QED
  BY <1>2, <1>4, <1>5, <1>6, <1>7 DEF Incomings

LEMMA DefsAgree ==
  ASSUME WellFormed(f), Destructible(f), NEW b \in Blocks(f), NEW k, NEW e, NEW r, Agree(e, r),
         NEW t, NEW s, ValuesWritten(s, r, ToSet(f.defs[b]) \cup Returned(f, b, k), t, Registers(lowered))
  PROVE  Agree(IRDefs(e, b, k, t), s)
<1> DEFINE xs == ToSet(f.defs[b]) \cup Returned(f, b, k)
           e1 == IRDefs(e, b, k, t)
<1>1. e1 = [x \in DOMAIN e |-> IF x \in xs THEN <<x, t>> ELSE e[x]]
  BY DEF IRDefs, Returned
<1>2. xs \cap Consts = {}
  BY DEF Destructible, SingleAssignment, Returned
<1> HIDE DEF xs, e1
<1>3. DOMAIN e1 = Values(f) /\ \A x \in Values(f) : e1[x] = IF x \in xs THEN <<x, t>> ELSE e[x]
  BY <1>1 DEF Agree
<1>4. \A x \in Values(f) : x \in Consts => e1[x] = <<x>>
  BY <1>2, <1>3 DEF Agree
<1>5. \A x \in Values(f) : x \notin Consts =>
        (<<"value", x>> \in Registers(lowered) => s[<<"value", x>>] = e1[x])
  <2> TAKE x \in Values(f)
  <2> HAVE x \notin Consts
  <2> HAVE <<"value", x>> \in Registers(lowered)
  <2>1. s[<<"value", x>>] = IF x \in xs THEN <<x, t>> ELSE r[<<"value", x>>]
    BY DEF ValuesWritten, xs
  <2>2. r[<<"value", x>>] = e[x]
    BY DEF Agree
  <2> QED
    BY <1>3, <2>1, <2>2
<1> QED
  BY <1>3, <1>4, <1>5 DEF Agree, e1

LEMMA PhisAgree ==
  ASSUME WellFormed(f), Destructible(f), NEW b \in Blocks(f), NEW k \in DOMAIN f.succs[b],
         NEW e, NEW s, Agree(e, s), NEW V, NEW q,
         CopiesDone(q, s, f, b, f.succs[b][k], Registers(lowered), V)
  PROVE  Agree(IRPhis(e, b, f.succs[b][k]), q)
<1> DEFINE d == f.succs[b][k]
           c == Copied(f, b, d)
           n == Len(f.phis[d])
           at(x) == CHOOSE i \in 1..n : f.phis[d][i].dst = x
           e1 == IRPhis(e, b, d)
           R == Registers(lowered)
<1>1. /\ d \in Blocks(f) /\ IsList(f.phis[d]) /\ DOMAIN f.phis[d] = 1..n
      /\ PhiDsts(f, d) = {f.phis[d][i].dst : i \in 1..n}
  BY FunctionShape, ListFacts DEF PhiDsts
<1>2. e1 = [x \in DOMAIN e |-> IF x \in PhiDsts(f, d) THEN e[f.phis[d][at(x)].inc[b]] ELSE e[x]]
  BY DEF IRPhis
<1>3. /\ IsList(c)
      /\ \A p : p \in ToSet(c) <=> p \in ToSet(f.phis[d]) /\ b \in DOMAIN p.inc /\ p.inc[b] # p.dst
  BY <1>1, CopiedPhis
<1>4. /\ \A p \in ToSet(f.phis[d]) : b \in DOMAIN p.inc /\ (p.inc[b] \in Consts \/ Known(f, b, p.inc[b]))
      /\ \A i \in 1..Len(c) : c[i] \in ToSet(c)
      /\ \A p, p2 \in ToSet(f.phis[d]) : p.dst = p2.dst => p = p2
  BY EdgeIncomings DEF Incomings
<1>5. \A x \in PhiDsts(f, d) : f.phis[d][at(x)] \in ToSet(f.phis[d]) /\ f.phis[d][at(x)].dst = x
  <2> TAKE x \in PhiDsts(f, d)
  <2>1. at(x) \in 1..n /\ f.phis[d][at(x)].dst = x
    BY <1>1
  <2> HIDE DEF at, d, n
  <2> QED
    BY <1>1, <2>1 DEF ToSet
<1>6. PhiDsts(f, d) \cap Consts = {}
  BY <1>1 DEF Destructible, SingleAssignment
<1>7. PhisWritten(q, s, f, b, d, s, R) /\
      \A i \in 1..Len(c) : Incoming(f, b, d, i) \notin Consts => <<"value", Incoming(f, b, d, i)>> \in R
  BY DEF CopiesDone
<1>8. DOMAIN c = 1..Len(c)
  BY <1>3, ListFacts
<1> HIDE DEF at, d, n, e1, c, R
<1>9. DOMAIN e1 = Values(f)
  BY <1>2 DEF Agree
<1>10. \A x \in Values(f) : x \in Consts => e1[x] = <<x>>
  BY <1>2, <1>6 DEF Agree
<1>11. ASSUME NEW x \in Values(f), x \notin Consts, <<"value", x>> \in R
       PROVE  q[<<"value", x>>] = e1[x]
  <2>1. s[<<"value", x>>] = e[x] /\ x \in DOMAIN e
    BY <1>11 DEF Agree, R
  <2>2. CASE x \notin PhiDsts(f, d)
    <3>1. \A i \in 1..Len(c) : c[i].dst # x
      <4> SUFFICES ASSUME NEW i \in 1..Len(c), c[i].dst = x PROVE FALSE
        OBVIOUS
      <4>1. c[i] \in ToSet(f.phis[d])
        BY <1>3, <1>4
      <4> QED
        BY <1>1, <2>2, <4>1 DEF ToSet
    <3>2. q[<<"value", x>>] = s[<<"value", x>>]
      BY <1>7, <1>11, <3>1 DEF PhisWritten, c
    <3> QED
      BY <1>2, <2>1, <2>2, <3>2
  <2>3. CASE x \in PhiDsts(f, d)
    <3> DEFINE p == f.phis[d][at(x)]
               y == p.inc[b]
    <3>1. p \in ToSet(f.phis[d]) /\ p.dst = x /\ b \in DOMAIN p.inc /\ (y \in Consts \/ Known(f, b, y))
      BY <1>4, <1>5, <2>3
    <3>2. e1[x] = e[y]
      BY <1>2, <2>1, <2>3
    <3> HIDE DEF p
    <3>3. CASE y = x
      <4>1. \A i \in 1..Len(c) : c[i].dst # x
        <5> SUFFICES ASSUME NEW i \in 1..Len(c), c[i].dst = x PROVE FALSE
          OBVIOUS
        <5>1. c[i] \in ToSet(f.phis[d]) /\ c[i].inc[b] # c[i].dst
          BY <1>3, <1>4
        <5>2. c[i] = p
          BY <1>4, <3>1, <5>1
        <5> QED
          BY <3>1, <3>3, <5>1, <5>2
      <4>2. q[<<"value", x>>] = s[<<"value", x>>]
        BY <1>7, <1>11, <4>1 DEF PhisWritten, c
      <4> QED
        BY <2>1, <3>2, <3>3, <4>2
    <3>4. CASE y # x
      <4>1. p \in ToSet(c)
        BY <1>3, <3>1, <3>4
      <4>2. PICK i \in 1..Len(c) : c[i] = p
        BY <1>8, <4>1 DEF ToSet
      <4>3. Incoming(f, b, d, i) = y
        BY <4>2 DEF Incoming, c
      <4>4. q[<<"value", x>>] = PhiValue(s, y)
        BY <1>7, <1>11, <3>1, <4>2, <4>3 DEF PhisWritten, c
      <4>5. CASE y \in Consts
        <5>1. y \in Values(f)
          BY <4>5 DEF Values
        <5>2. e[y] = <<y>>
          BY <4>5, <5>1 DEF Agree
        <5> QED
          BY <3>2, <4>4, <4>5, <5>2 DEF PhiValue
      <4>6. CASE y \notin Consts
        <5>1. y \in Values(f)
          BY <3>1, <4>6 DEF Known
        <5>2. <<"value", y>> \in R
          BY <1>7, <4>2, <4>3, <4>6
        <5>3. s[<<"value", y>>] = e[y]
          BY <4>6, <5>1, <5>2 DEF Agree, R
        <5> QED
          BY <3>2, <4>4, <4>6, <5>3 DEF PhiValue
      <4> QED
        BY <4>5, <4>6
    <3> QED
      BY <3>3, <3>4
  <2> QED
    BY <2>2, <2>3
<1> QED
  BY <1>9, <1>10, <1>11 DEF Agree, R, e1, d

LEMMA StepAgrees ==
  ASSUME WellFormed(f), Destructible(f), lowered = LowerFunction(f),
         NEW b \in Blocks(f), NEW k \in LoweredEdges(f, b), NEW e,
         NEW r, r = [v \in Registers(lowered) |-> r[v]], Agree(e, r), NEW t
  PROVE  LET q == Execution(r, EdgePath(b, k), t)
         IN  /\ q = [v \in Registers(lowered) |-> q[v]]
             /\ Agree(IRPhis(IRDefs(e, b, k, t), b, f.succs[b][k]), q)
<1> DEFINE q == Execution(r, EdgePath(b, k), t)
           R == Registers(lowered)
           d == f.succs[b][k]
           e1 == IRDefs(e, b, k, t)
<1>1. PICK V : r \in [R -> V] /\ AllRun(lowered, t, R, V)
  BY CodeRuns
<1> k \in DOMAIN f.succs[b]
  BY LoweredOnes
<1>2. Incomings(f, b, d) /\ CopiesAlone(f)
  BY LoweredOnes, EdgeIncomings
<1>3. EdgePath(b, k) = EdgeCode(f, b, k)
  BY EdgePathCode
<1> HIDE DEF R, d, e1
<1>4. PICK s \in [R -> V] : /\ ValuesWritten(s, r, ToSet(f.defs[b]) \cup Returned(f, b, k), t, R)
                            /\ CopiesDone(q, s, f, b, d, R, V)
  BY <1>1, <1>2, <1>3, EdgeEffect DEF d
<1> HIDE DEF q
<1>5. Agree(e1, s)
  BY <1>4, DefsAgree DEF R, e1
<1>6. Agree(IRPhis(e1, b, d), q)
  BY <1>4, <1>5, PhisAgree DEF R, d
<1>7. q = [v \in R |-> q[v]]
  BY <1>4 DEF CopiesDone
<1> QED
  BY <1>6, <1>7 DEF q, R, d, e1

(* The registers that a block's reads and its tests name.                  *)
LEMMA ReadRegisters ==
  ASSUME NEW g, WellFormed(g), Destructible(g), NEW b \in Blocks(g)
  PROVE  /\ \A x \in ToSet(g.reads[b]) : Resolve(g, b, x) \in Registers(LowerFunction(g))
         /\ \A k \in Tests(g, b) :
              /\ k \in LoweredEdges(g, b) /\ (g.kind[b] = "condbr" \/ ~OwnCopies(g, b, k))
              /\ Resolve(g, b, g.operand[b]) \in Registers(LowerFunction(g))
              /\ Returned(g, b, k) = {}
<1> DEFINE m == LowerFunction(g)
<1>1. b \in 1..Len(m) /\ Len(m) \in Nat
  <2>1. Len(m) \in Nat /\ Len(g.succs) <= Len(m)
    BY LoweredBlocks
  <2> QED
    BY <2>1, FunctionShape
<1>2. ASSUME NEW in \in ToSet(m[b]) PROVE Uses(in) \subseteq Registers(m)
  BY <1>1, LoweredRegisters
<1>3. ASSUME NEW x \in ToSet(g.reads[b]) PROVE Resolve(g, b, x) \in Registers(m)
  <2> DEFINE n == Len(g.reads[b])
             srcs == [i \in 1..n |-> Resolve(g, b, g.reads[b][i])]
             use == Use(srcs)
             defs == [i \in 1..Len(g.defs[b]) |-> Def(Resolve(g, b, g.defs[b][i]), g.defs[b][i])]
  <2>1. Resolve(g, b, x) \in ToSet(srcs)
    <3>1. IsList(g.reads[b]) /\ DOMAIN g.reads[b] = 1..n
      BY FunctionShape, ListFacts
    <3>2. PICK i \in 1..n : g.reads[b][i] = x
      BY <1>3, <3>1 DEF ToSet
    <3>3. srcs[i] = Resolve(g, b, x) /\ i \in DOMAIN srcs
      BY <3>2
    <3> HIDE DEF srcs
    <3> QED
      BY <3>3 DEF ToSet
  <2> HIDE DEF srcs
  <2>2. Uses(use) = ToSet(srcs)
    BY DEF Use, MInstr, Uses
  <2>3. Body(g, b) = defs \o <<use>>
    BY DEF Body, srcs
  <2>4. IsList(defs)
    <3>1. defs = [i \in 1..Len(g.defs[b]) |-> defs[i]] /\ Len(g.defs[b]) \in Nat
      BY FunctionShape, ListFacts
    <3> HIDE DEF defs
    <3> QED
      BY <3>1, FunctionIsList
  <2> HIDE DEF use, defs
  <2>5. ToSet(Body(g, b)) = ToSet(defs) \cup {use}
    BY <2>3, <2>4, WithOne
  <2>6. ToSet(Body(g, b)) \subseteq ToSet(m[b])
    <3>1. CASE g.succs[b] = <<>>
      <4>1. g.kind[b] = "ret"
        BY <3>1 DEF WellFormed
      <4>2. m[b] = Body(g, b) \o <<Use(<<>>)>>
        BY <4>1, LoweredBlocks DEF LowerBlock, LowerTerminator
      <4>3. IsList(Body(g, b))
        BY BodyJumpNot DEF NoJump
      <4> DEFINE last == Use(<<>>)
      <4> HIDE DEF m, last
      <4>4. ToSet(Body(g, b) \o <<last>>) = ToSet(Body(g, b)) \cup {last}
        BY <4>3, WithOne
      <4> QED
        BY <4>2, <4>4 DEF last
    <3>2. CASE g.succs[b] # <<>>
      <4>1. 1 \in LoweredEdges(g, b)
        <5>1. g.kind[b] # "ret"
          BY <3>2 DEF WellFormed
        <5> QED
          BY <5>1, LoweredOnes
      <4> QED
        BY <4>1, PartsOfBlock
    <3> QED
      BY <3>1, <3>2
  <2> QED
    BY <1>2, <2>1, <2>2, <2>5, <2>6
<1>4. ASSUME NEW k \in Tests(g, b)
      PROVE  /\ k \in LoweredEdges(g, b) /\ (g.kind[b] = "condbr" \/ ~OwnCopies(g, b, k))
             /\ Resolve(g, b, g.operand[b]) \in Registers(m)
             /\ Returned(g, b, k) = {}
  <2> DEFINE operand == Resolve(g, b, g.operand[b])
             use == Use(<<operand>>)
             code1 == ExitCode(g, b, k)
  <2>1. DOMAIN g.succs[b] = 1..Len(g.succs[b]) /\ Len(g.succs[b]) \in Nat
    BY FunctionShape, ListFacts
  <2>2. /\ k \in DOMAIN g.succs[b] /\ k \in LoweredEdges(g, b) /\ (g.kind[b] = "condbr" \/ ~OwnCopies(g, b, k))
        /\ \/ g.kind[b] = "condbr" /\ k = 1
           \/ g.kind[b] = "switch" /\ k # Len(g.succs[b])
    <3>1. CASE g.kind[b] = "condbr"
      <4>1. Len(g.succs[b]) = 2
        BY <3>1 DEF WellFormed
      <4> QED
        BY <1>4, <2>1, <3>1, <4>1, LoweredOnes DEF Tests
    <3>2. CASE g.kind[b] = "switch"
      <4>1. k \in 1..(Len(g.succs[b]) - 1)
        BY <1>4, <3>2 DEF Tests
      <4>2. k \in 1..Len(g.succs[b]) /\ k # Len(g.succs[b])
        BY <2>1, <4>1
      <4> QED
        BY <2>1, <3>2, <4>2, LoweredOnes DEF OwnCopies
    <3> QED
      BY <1>4, <3>1, <3>2 DEF Tests
  <2>3. Returned(g, b, k) = {}
    BY <2>2 DEF Returned
  <2>4. use \in ToSet(code1)
    <3> DEFINE copies == EmitPhiCopies(g, b, b, k, g.succs[b][k])
    <3>1. ToSet(<<use>>) = {use} /\ IsList(<<use>>)
      <4> HIDE DEF use
      <4> QED
        BY OneInstruction
    <3>2. CASE g.kind[b] = "condbr" /\ k = 1
      <4>1. code1 = <<use>>
        BY <3>2 DEF ExitCode
      <4> QED
        BY <3>1, <4>1
    <3>3. CASE g.kind[b] = "switch" /\ k # Len(g.succs[b])
      <4>1. code1 = copies \o <<use>>
        BY <3>3 DEF ExitCode
      <4>2. IsList(copies)
        BY <2>2, FunctionShape, CopiesJumpNot DEF NoJump
      <4> HIDE DEF copies, use, code1
      <4> QED
        BY <4>1, <4>2, WithOne
    <3> QED
      BY <2>2, <3>2, <3>3
  <2>5. use \in ToSet(m[b])
    <3>1. IsList(code1)
      BY <2>2, ExitCodes DEF NoJump
    <3>2. ToSet(Append(code1, Leave(g, b, k))) \subseteq ToSet(m[b])
      BY <2>2, PartsOfBlock
    <3> HIDE DEF use, code1
    <3>3. ToSet(code1) \subseteq ToSet(Append(code1, Leave(g, b, k)))
      BY <3>1, AppendList
    <3> QED
      BY <2>4, <3>2, <3>3
  <2>6. operand \in Uses(use)
    <3>1. Uses(use) = ToSet(<<operand>>)
      BY DEF Uses, Use, MInstr
    <3> HIDE DEF operand, use
    <3>2. ToSet(<<operand>>) = {operand}
      BY OneElement
    <3> QED
      BY <3>1, <3>2
  <2>7. operand \in Registers(m)
    <3> HIDE DEF use, operand, m
    <3> QED
      BY <1>2, <2>5, <2>6
  <2> QED
    BY <2>2, <2>3, <2>7
<1> QED
  BY <1>3, <1>4

(* The invariant that ReadsAgree follows from: the registers and the IR    *)
(* agree on every value, read in this block or not.                        *)
AgreeInv ==
  /\ stage = "lower" =>
       /\ blk \in Blocks(f)
       /\ lowered = <<>> => irEnv = [x \in Values(f) |-> IF x \in Consts THEN <<x>> ELSE Undef]
  /\ lowered # <<>> => regs = [v \in Registers(lowered) |-> regs[v]] /\ Agree(irEnv, regs)

LEMMA AgreeStep ==
  ASSUME \A g \in Functions : Destructible(g), LowerInv, LowerInv', AgreeInv, [Next]_vars
  PROVE  AgreeInv'
<1>1. CASE RunLowered /\ Lower
  <2>1. /\ stage = "lower" /\ stage' = stage /\ lowered = <<>> /\ lowered' = LowerFunction(f)
        /\ f' = f /\ blk' = blk /\ irEnv' = irEnv /\ regs' = [v \in Registers(lowered') |-> Undef]
    BY <1>1 DEF RunLowered, Lower, spillVars
  <2>2. f \in Functions /\ WellFormed(f)
    BY <2>1, FunctionsAssumption DEF LowerInv
  <2>3. lowered' # <<>>
    <3>1. Len(lowered') \in Nat /\ Len(lowered') > 0
      <4>1. Len(LowerFunction(f)) \in Nat /\ Len(f.succs) <= Len(LowerFunction(f))
        BY <2>2, LoweredBlocks
      <4>2. Len(f.succs) \in Nat /\ Len(f.succs) > 0
        BY <2>2, FunctionShape
      <4> QED
        BY <2>1, <4>1, <4>2
    <3> QED
      BY <3>1
  <2>4. irEnv = [x \in Values(f) |-> IF x \in Consts THEN <<x>> ELSE Undef] /\ blk \in Blocks(f)
    BY <2>1 DEF AgreeInv
  <2>5. regs' = [v \in Registers(lowered') |-> regs'[v]] /\ \A v \in Registers(lowered') : regs'[v] = Undef
    BY <2>1
  <2>6. Agree(irEnv, regs)'
    BY <2>1, <2>4, <2>5 DEF Agree
  <2> QED
    BY <2>1, <2>3, <2>4, <2>5, <2>6 DEF AgreeInv
<1>2. CASE RunLowered /\ \E k \in LoweredEdges(f, blk) : Step(k)
  <2>1. PICK k \in LoweredEdges(f, blk) : Step(k)
    BY <1>2
  <2> DEFINE d == f.succs[blk][k]
  <2>2. /\ stage = "lower" /\ stage' = stage /\ lowered # <<>> /\ lowered' = lowered
        /\ f' = f /\ blk' = d /\ irEnv' = IRPhis(IRDefs(irEnv, blk, k, steps), blk, d)
        /\ regs' = Execution(regs, EdgePath(blk, k), steps)
    BY <1>2, <2>1 DEF RunLowered, Step, spillVars
  <2>3. f \in Functions /\ WellFormed(f) /\ Destructible(f) /\ lowered = LowerFunction(f)
    BY <2>2, FunctionsAssumption DEF LowerInv
  <2>4. blk \in Blocks(f) /\ regs = [v \in Registers(lowered) |-> regs[v]] /\ Agree(irEnv, regs)
    BY <2>2 DEF AgreeInv
  <2>5. d \in Blocks(f)
    BY <2>3, <2>4, LoweredOnes, FunctionShape
  <2>6. /\ regs' = [v \in Registers(lowered) |-> regs'[v]]
        /\ Agree(irEnv', regs')
    BY <2>2, <2>3, <2>4, StepAgrees
  <2>7. Agree(irEnv, regs)'
    BY <2>2, <2>6 DEF Agree
  <2> QED
    BY <2>2, <2>5, <2>6, <2>7 DEF AgreeInv
<1>3. CASE (RunLowered /\ LowerDone) \/ UNCHANGED vars
  <2>1. /\ stage' = stage /\ lowered' = lowered /\ f' = f /\ blk' = blk /\ irEnv' = irEnv
        /\ regs' = regs
    BY <1>3 DEF RunLowered, LowerDone, lowerVars, spillVars, vars
  <2>2. Agree(irEnv, regs)' <=> Agree(irEnv, regs)
    BY <2>1 DEF Agree
  <2> QED
    BY <2>1, <2>2 DEF AgreeInv
<1>4. CASE Generate
  BY <1>4 DEF Generate, AgreeInv
<1>5. CASE Intervals \/ BackEnd
  <2>1. lowered' = lowered /\ stage # "lower"
    BY <1>5 DEF Intervals, BackEnd, lowerVars, ComputeIntervals
  <2>2. stage' # "lower" /\ lowered = <<>>
    BY <1>5, <2>1, LaterStages DEF LowerInv
  <2> QED
    BY <2>1, <2>2 DEF AgreeInv
<1> QED
  BY <1>1, <1>2, <1>3, <1>4, <1>5 DEF Next, RunLowered, LowerNext

LEMMA AgreementEnough ==
  ASSUME \A g \in Functions : Destructible(g), LowerInv, AgreeInv, lowered # <<>>
  PROVE  OperandsAgree /\ ConditionAgrees
<1>1. f \in Functions /\ WellFormed(f) /\ Destructible(f) /\ lowered = LowerFunction(f)
  BY FunctionsAssumption DEF LowerInv
<1>2. blk \in Blocks(f) /\ regs = [v \in Registers(lowered) |-> regs[v]] /\ Agree(irEnv, regs)
  BY DEF AgreeInv, LowerInv
<1>3. OperandsAgree
  <2> SUFFICES ASSUME NEW x \in ToSet(f.reads[blk]), x \notin Consts
               PROVE  regs[Resolve(f, blk, x)] = irEnv[x]
    BY DEF OperandsAgree
  <2>1. Known(f, blk, x)
    BY <1>1, <1>2 DEF Destructible, KnownReads
  <2>2. Resolve(f, blk, x) \in Registers(lowered)
    BY <1>1, <1>2, ReadRegisters
  <2> QED
    BY <1>2, <2>1, <2>2 DEF Known, Agree
<1>4. ConditionAgrees
  <2> SUFFICES ASSUME NEW k \in Tests(f, blk)
               PROVE  Execution(regs, UpToJump(lowered[blk], k), steps)[Resolve(f, blk, f.operand[blk])] =
                        IRDefs(irEnv, blk, k, steps)[f.operand[blk]]
    BY DEF ConditionAgrees
  <2> DEFINE x == f.operand[blk]
             R == Registers(lowered)
             r1 == Execution(regs, Body(f, blk), steps)
             exit == ExitOf(f, blk, k)
  <2>1. x \notin Consts /\ Known(f, blk, x)
    BY <1>1, <1>2 DEF Destructible, KnownReads
  <2>2. /\ k \in LoweredEdges(f, blk) /\ (f.kind[blk] = "condbr" \/ ~OwnCopies(f, blk, k))
        /\ Resolve(f, blk, x) \in R /\ Returned(f, blk, k) = {}
    BY <1>1, <1>2, ReadRegisters
  <2>3. PICK V : regs \in [R -> V] /\ AllRun(lowered, steps, R, V)
    BY <1>1, <1>2, CodeRuns
  <2>4. Runnable(lowered[blk], steps, R, V)
    <3>1. Len(lowered) \in Nat /\ Len(f.succs) <= Len(lowered)
      BY <1>1, LoweredBlocks
    <3>2. blk \in 1..Len(lowered)
      BY <1>1, <1>2, <3>1, FunctionShape
    <3> QED
      BY <2>3, <3>2 DEF AllRun
  <2>5. CopiesAlone(f)
    BY <1>1 DEF Destructible, CopiesAlone
  <2>6. /\ Runnable(Body(f, blk), steps, R, V) /\ Runnable(exit, steps, R, V) /\ IsList(exit)
        /\ Execution(regs, UpToJump(lowered[blk], k), steps) = Execution(r1, exit, steps)
    BY <1>1, <1>2, <2>2, <2>3, <2>4, <2>5, ReachExit
  <2>7. r1 \in [R -> V] /\ ValuesWritten(r1, regs, ToSet(f.defs[blk]), steps, R)
    BY <1>1, <1>2, <2>3, <2>6, BodyEffect
  <2>8. Idle(exit)
    BY <1>1, <1>2, <2>2, <2>5, QuietExit DEF ExitOf
  <2> HIDE DEF r1, exit, R
  <2>9. Execution(r1, exit, steps) = r1
    BY <2>6, <2>7, <2>8, RunIdle
  <2>10. ValuesWritten(r1, regs, ToSet(f.defs[blk]) \cup Returned(f, blk, k), steps, R)
    BY <2>2, <2>7
  <2>11. Agree(IRDefs(irEnv, blk, k, steps), r1)
    BY <1>1, <1>2, <2>10, DefsAgree DEF R
  <2>12. r1[<<"value", x>>] = IRDefs(irEnv, blk, k, steps)[x]
    BY <2>1, <2>2, <2>11 DEF Agree, Known, R
  <2> QED
    BY <2>1, <2>6, <2>9, <2>12 DEF Known
<1> QED
  BY <1>3, <1>4

(* Lowered code agrees with the IR on every operand and every condition,   *)
(* along any path of any length.                                           *)
THEOREM ReadsAgreeAlways ==
  ASSUME \A g \in Functions : Destructible(g)
  PROVE  Spec => []ReadsAgree
<1>1. Init => AgreeInv
  <2> SUFFICES ASSUME Init PROVE AgreeInv
    OBVIOUS
  <2>1. CASE InitLower
    <3>1. f \in Functions /\ blk = 1 /\ lowered = <<>>
          /\ irEnv = [x \in Values(f) |-> IF x \in Consts THEN <<x>> ELSE Undef]
      BY <2>1 DEF InitLower, LowerInit
    <3>2. 1 \in Blocks(f)
      BY <3>1, FunctionsAssumption, FunctionShape
    <3> QED
      BY <3>1, <3>2 DEF AgreeInv
  <2>2. CASE InitBack
    BY <2>2 DEF InitBack, SpillInit, AgreeInv
  <2> QED
    BY <2>1, <2>2 DEF Init
<1>2. LowerInv /\ LowerInv' /\ AgreeInv /\ [Next]_vars => AgreeInv'
  BY AgreeStep
<1>3. LowerInv /\ AgreeInv => ReadsAgree
  BY AgreementEnough DEF ReadsAgree
<1> QED
  BY <1>1, <1>2, <1>3, LoweredOnce, PTL DEF Spec
=============================================================================
