------------------------------- MODULE Mem2Reg -------------------------------
(***************************************************************************)
(* llvm-transforms/src/mem2reg.rs: scalar slots of the entry block become  *)
(* values, with phis at the iterated dominance frontier of their stores.   *)
(* Dominance is that of FlowGraph, which DomTree computes.                 *)
(***************************************************************************)
EXTENDS Ir

(* find_promotable_allocas: scalar allocas of the entry whose address is   *)
(* only loaded from and stored to, by any instruction of the pool and not  *)
(* by a volatile one.                                                      *)
Promotable(f) ==
  {a \in ToSet(f.blocks[1].body) :
     /\ f.pool[a].op = "alloca"
     /\ \A i \in ToSet(f.pool) :
          \/ ~Uses(i, Res(a))
          \/ i.op = "load" /\ ~Volatile(i)
          \/ i.op = "store" /\ i.args[1] # Res(a) /\ ~Volatile(i)}

(* find_def_blocks.                                                        *)
DefBlocks(f, a) ==
  {b \in DOMAIN f.blocks :
     \E i \in ToSet(Ids(f, b)) : f.pool[i].op = "store" /\ f.pool[i].args[2] = Res(a)}

(* dominance_frontier, as DomTree's FrontierCorrect describes it.          *)
Frontier(g, b) ==
  {y \in Reachable(g) \ {1} : /\ \E p \in ToSet(Predecessors(g, y)) : Dominates(g, b, p)
                              /\ ~StrictlyDominates(g, b, y)}

(* iterated_df.                                                            *)
IteratedDf(g, defs) ==
  LET df == [b \in Blocks(g) |-> Frontier(g, b)]
      round[n \in Nat] ==
        IF n = 0 THEN UNION {df[b] : b \in defs}
        ELSE LET S == round[n - 1] IN S \cup UNION {df[b] : b \in S}
  IN  round[Len(g)]

(* insert_phis: at the front of each such block, one undefined entry per   *)
(* predecessor.  The order of the slots is that of a hash map; any will do.*)
InsertPhi(f, b) ==
  LET preds == Predecessors(Graph(f), b)
      phi == Instr("phi", [k \in DOMAIN preds |-> Undef], preds)
  IN  [Alloc(f, phi) EXCEPT !.blocks[b].body = <<Len(f.pool) + 1>> \o @]

InsertPhis(f) ==
  LET g == Graph(f)
      spots == SetToSeq({<<a, b>> \in Promotable(f) \X Blocks(g) :
                           b \in IteratedDf(g, DefBlocks(f, a))})
  IN  [f |-> FoldLeft(LAMBDA h, s : InsertPhi(h, s[2]), f, spots),
       phiOf |-> [k \in DOMAIN spots |-> [slot |-> spots[k][1], block |-> spots[k][2],
                                          phi |-> Len(f.pool) + k]]]

(* rename_dfs.  tops gives each slot its reaching definition, the top of   *)
(* its stack; a block hands its own to its dominator-tree children, so     *)
(* what a child pushes is gone when the next child is visited.             *)
Rename1(f, s, i) ==
  LET ins == f.pool[i]
      slot == ins.args[Len(ins.args)][2]
  IN  CASE ins.op = "load" /\ ~Volatile(ins) /\ slot \in DOMAIN s.tops ->
             [s EXCEPT !.subst = Put(@, i, s.tops[slot]), !.gone = @ \cup {i}]
        [] ins.op = "store" /\ ~Volatile(ins) /\ slot \in DOMAIN s.tops ->
             [s EXCEPT !.tops[slot] = Replace(ins.args[1], s.subst), !.gone = @ \cup {i}]
        [] OTHER -> s

Children(g, b) == SelectSeq([c \in Blocks(g) |-> c], LAMBDA c : IsIdom(g, b, c))

RenameBlock(p, s, b) ==
  LET f == p.f
      mine == {k \in DOMAIN p.phiOf : p.phiOf[k].block = b}
      top(a) == IF \E k \in mine : p.phiOf[k].slot = a
                THEN Res(p.phiOf[CHOOSE k \in mine : p.phiOf[k].slot = a].phi) ELSE s.tops[a]
      start == [s EXCEPT !.tops = [a \in DOMAIN @ |-> top(a)]]
      end == FoldLeft(LAMBDA t, i : Rename1(f, t, i), start,
                      SelectSeq(f.blocks[b].body,
                                LAMBDA i : f.pool[i].op \in {"load", "store"}))
      into(c) == SelectSeq(p.phiOf, LAMBDA o : o.block = c)
      fill(c) == [k \in DOMAIN into(c) |-> [phi |-> into(c)[k].phi, pred |-> b,
                                            val |-> end.tops[into(c)[k].slot]]]
      succs == Successors(Graph(f), b)
  IN  [end EXCEPT !.updates = @ \o FlattenSeq([k \in DOMAIN succs |-> fill(succs[k])])]

(* Mutant: the stacks are not restored between the children.               *)
RECURSIVE RenameDfs_Unrestored(_, _, _)
RenameDfs_Unrestored(p, s, b) ==
  FoldLeft(LAMBDA t, c : RenameDfs_Unrestored(p, t, c),
           RenameBlock(p, s, b), Children(Graph(p.f), b))

RECURSIVE RenameDfs(_, _, _)
RenameDfs(p, s, b) ==
  LET end == RenameBlock(p, s, b)
  IN  FoldLeft(LAMBDA t, c : RenameDfs(p, [t EXCEPT !.tops = end.tops], c),
               end, Children(Graph(p.f), b))

(* A phi's first entry for the predecessor takes the value.                *)
Fill(f, u) ==
  LET at == {k \in DOMAIN f.pool[u.phi].to : f.pool[u.phi].to[k] = u.pred}
  IN  IF at = {} THEN f
      ELSE [f EXCEPT !.pool[u.phi].args[CHOOSE k \in at : \A l \in at : k <= l] = u.val]

(* run_on_function.                                                        *)
Mem2RegPass(f) ==
  LET slots == Promotable(f)
      p == InsertPhis(f)
      r == RenameDfs(p, [tops |-> [a \in slots |-> Undef], subst |-> <<>>, gone |-> {},
                         updates |-> <<>>], 1)
      filled == FoldLeft(Fill, p.f, r.updates)
  IN  IF slots = {} THEN [f |-> f, changed |-> FALSE]
      ELSE [f |-> Drop(SubstAll(filled, r.subst), r.gone \cup slots), changed |-> TRUE]

-----------------------------------------------------------------------------
(***************************************************************************)
(* llvm-transforms/src/sroa.rs: a struct slot of the entry block that is   *)
(* only used through the addresses of its fields, and those only to load   *)
(* and store, becomes one scalar slot per field.                           *)
(***************************************************************************)

(* The instructions of the pool that take the address of a field of a.     *)
Geps(f, a) ==
  {i \in DOMAIN f.pool : f.pool[i].op = "gep" /\ f.pool[i].args[1] = Res(a)}

(* Mutant: a field that is stored to keeps its struct together.            *)
LoadStoreOnly_Loads(f, i) ==
  \A u \in ToSet(f.pool) : Uses(u, Res(i)) => u.op = "load" /\ ~Volatile(u)

(* gep_uses_are_load_store_only.                                           *)
LoadStoreOnly(f, i) ==
  \A u \in ToSet(f.pool) :
    \/ ~Uses(u, Res(i))
    \/ u.op = "load" /\ ~Volatile(u)
    \/ u.op = "store" /\ u.args[1] # Res(i) /\ ~Volatile(u)

(* candidate_for_alloca, with constant_component_index: an index must be   *)
(* the constant of a field.                                                *)
Candidate(f, a) ==
  /\ f.pool[a].op = "alloca2"
  /\ Geps(f, a) # {}
  /\ \A i \in DOMAIN f.pool : Uses(f.pool[i], Res(a)) => i \in Geps(f, a)
  /\ \A i \in Geps(f, a) :
       /\ f.pool[i].args[2] \in {Const(0), Const(1)}
       /\ LoadStoreOnly(f, i)

(* find_candidates, in the order of the entry block; the k-th gets the     *)
(* scalars 2k-1 and 2k after the pool.                                     *)
Candidates(f) == SelectSeq(f.blocks[1].body, LAMBDA a : Candidate(f, a))

ScalarOf(f, i) ==
  LET c == Candidates(f)
      k == CHOOSE k \in DOMAIN c : i \in Geps(f, c[k])
  IN  Len(f.pool) + 2 * k - 1 + f.pool[i].args[2][2]

(* run_on_function with its three rewrites: the pointers of loads and      *)
(* stores (the last operand), the entry block, the other blocks.           *)
SroaPass(f) ==
  LET c == Candidates(f)
      geps == UNION {Geps(f, c[k]) : k \in DOMAIN c}
      gone == geps \cup ToSet(c)
      scalars == [k \in 1..(2 * Len(c)) |-> Instr("alloca", <<>>, <<>>)]
      pointed(i) ==
        IF /\ i.op \in {"load", "store"}
           /\ IsRes(Last(i.args)) /\ Last(i.args)[2] \in geps
        THEN [i EXCEPT !.args[Len(i.args)] = Res(ScalarOf(f, @[2]))] ELSE i
      kept(i) == IF i \in gone THEN <<>> ELSE <<i>>
      rewritten(i) ==
        IF \E k \in DOMAIN c : c[k] = i
        THEN LET k == CHOOSE k \in DOMAIN c : c[k] = i
             IN  <<Len(f.pool) + 2 * k - 1, Len(f.pool) + 2 * k>> \o kept(i)
        ELSE kept(i)
      entry == f.blocks[1].body
  IN  IF c = <<>> THEN [f |-> f, changed |-> FALSE]
      ELSE [f |-> [Drop(f, gone) EXCEPT
                     !.pool = [i \in DOMAIN @ |-> pointed(@[i])] \o scalars,
                     !.blocks[1].body = FlattenSeq([k \in DOMAIN entry |-> rewritten(entry[k])])],
            changed |-> TRUE]
=============================================================================
