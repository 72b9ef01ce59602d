------------------------------ MODULE Objects ------------------------------
(***************************************************************************)
(* From a module to an object file (llvm, compile.rs; llvm-codegen,        *)
(* emit.rs) or to executable pages (llvm-jit, lib.rs).  The code of a      *)
(* function has one byte for each of its instructions; a byte is what it   *)
(* is a byte of, or 0.  Unwind and debug tables, which compile.rs and the  *)
(* JIT drop, and spilled registers in the frame are left out.              *)
(***************************************************************************)
EXTENDS Syntax, TLC
LOCAL INSTANCE Bitwise

VARIABLE object  \* the module that is compiled, what has been emitted of it, and its file

-----------------------------------------------------------------------------
(* Sizes.  align_of_ty is the size, at most 8.                             *)
FloatSize == [half |-> 2, bfloat |-> 2, float |-> 4, double |-> 8, fp128 |-> 16, x86_fp80 |-> 16]
DivCeil(n, d) == (n + d - 1) \div d
Clamp(n, low, high) == IF n < low THEN low ELSE IF n > high THEN high ELSE n
(* (n + al - 1) & !(al - 1).                                               *)
RoundUp(n, al) == LET x == n + al - 1 IN x - (x & (al - 1))

Body(m, t) ==
  IF t[1] = "named" THEN m.types[SelectInSeq(m.types, LAMBDA d : d[1] = t[2])][2] ELSE t

RECURSIVE SizeOf(_, _), FieldEnd(_, _, _)
AlignIn(m, s, t) == IF s[3] THEN 1 ELSE Clamp(SizeOf(m, t), 1, 8)
FieldOffset(m, s, k) == RoundUp(FieldEnd(m, s, k - 1), AlignIn(m, s, s[2][k]))
FieldEnd(m, s, k) == IF k = 0 THEN 0 ELSE FieldOffset(m, s, k) + SizeOf(m, s[2][k])
StructSize(m, s) ==
  RoundUp(FieldEnd(m, s, Len(s[2])), FoldLeft(LAMBDA al, t : Clamp(al, AlignIn(m, s, t), 8), 1, s[2]))
SizeOf(m, t) ==
  CASE t[1] = "int" -> DivCeil(t[2], 8)
    [] t[1] \in FloatKinds -> FloatSize[t[1]]
    [] t[1] = "ptr" -> 8
    [] t[1] \in {"array", "vector"} -> t[2] * SizeOf(m, t[3])
    [] t[1] \in {"struct", "named"} -> StructSize(m, Body(m, t))
    [] OTHER -> 0

(* gep_byte_offset: the first index counts values of the base type.        *)
GepOffset(m, base, indices) ==
  LET inner(w, k) ==
        LET t == Body(m, w.ty)
        IN  CASE t[1] \in {"array", "vector"} -> [off |-> w.off + k * SizeOf(m, t[3]), ty |-> t[3]]
              [] t[1] = "struct" /\ k + 1 \in DOMAIN t[2] ->
                   [off |-> w.off + FieldOffset(m, t, k + 1), ty |-> t[2][k + 1]]
              [] OTHER -> w
  IN  FoldLeft(inner, [off |-> indices[1] * SizeOf(m, base), ty |-> base], Tail(indices)).off
AsI64(c) == CASE c[1] # "int" -> 0 [] c[1] = "int" /\ 2 * c[3] < Modulus -> c[3] [] OTHER -> c[3] - Modulus

-----------------------------------------------------------------------------
(* Global variables.  A relocation whose symbol is 0 goes by its name.     *)
Section(name) == [name |-> name, data |-> <<>>, relocs |-> <<>>]
Put(sec, bytes) == [sec EXCEPT !.data = @ \o bytes]
Zeros(n) == [k \in 1..n |-> 0]
BytesOf(c, n) == [k \in 1..n |-> <<c, k>>]
Padding(n, al) == Zeros((al - (n % al)) % al)
Reloc(place, kind, addend, symbol, name) ==
  [at |-> place, kind |-> kind, addend |-> addend, symbol |-> symbol, name |-> name]

(* push_ptr_reloc.                                                         *)
Pointer(m, sec, name, addend) ==
  Put([sec EXCEPT !.relocs = Append(@, Reloc(Len(sec.data), "abs64", addend,
                                             SelectLastInSeq(m.globals, LAMBDA g : g.name = name), name))], Zeros(8))

Resized(bytes, n, fill) ==
  [k \in 1..n |-> IF k \in DOMAIN bytes THEN bytes[k] ELSE fill]

(* eval_const_bytes: sec with the bytes of c, and the relocations in them. *)
RECURSIVE Emit(_, _, _)
EmitField(m, s, start, sec, k, c) ==
  Emit(m, Put(sec, Padding(Len(sec.data) - start, AlignIn(m, s, s[2][k]))), c)
EmitStruct(m, s, sec, cs) ==
  LET start == Len(sec.data)
      full == FoldLeftDomain(LAMBDA out, k : EmitField(m, s, start, out, k, cs[k]), sec, cs)
      missing == StructSize(m, s) - (Len(full.data) - start)
  IN  Put(full, Zeros(Clamp(missing, 0, missing)))
EmitCast(m, sec, op, n, c) ==
  LET src == Emit(m, [sec EXCEPT !.data = <<>>], c)
      fill == IF op = "sext" /\ src.data # <<>> THEN <<"sign", Last(src.data)>> ELSE 0
  IN  [src EXCEPT !.data = sec.data \o Resized(@, n, fill)]
EmitExpr(m, sec, ty, op, base, args) ==
  LET n == SizeOf(m, ty)
      c == args[1]
  IN  CASE op \in {"bitcast", "addrspacecast"} -> Emit(m, sec, c)
        [] op = "getelementptr" /\ c[1] = "ref" ->
             Pointer(m, sec, c[3], GepOffset(m, base, [k \in DOMAIN Tail(args) |-> AsI64(Tail(args)[k])]))
        [] op = "getelementptr" /\ c[1] # "ref" -> Emit(m, sec, c)
        [] op = "inttoptr" -> Put(sec, IF c[1] = "int" THEN BytesOf(c, 8) ELSE Zeros(8))
        [] op = "ptrtoint" /\ c[1] = "ref" ->
             LET out == Pointer(m, sec, c[3], 0)
             IN  [out EXCEPT !.data = SubSeq(@, 1, Len(sec.data) + Clamp(n, 0, 8))]
        [] op = "ptrtoint" /\ c[1] # "ref" -> Put(sec, Zeros(n))
        [] op \in {"trunc", "zext", "sext"} -> EmitCast(m, sec, op, n, c)
Emit(m, sec, c) ==
  CASE c[1] \in {"int", "float"} -> Put(sec, BytesOf(c, SizeOf(m, c[2])))
    [] c[1] = "wide" -> Put(sec, BytesOf(c, Clamp(SizeOf(m, c[2]), 0, 8 * Len(c[3]))))
    [] c[1] \in Scalars -> Put(sec, Zeros(SizeOf(m, c[2])))
    [] c[1] \in {"elements", "lanes"} -> FoldLeft(LAMBDA out, e : Emit(m, out, e), sec, c[3])
    [] c[1] = "fields" -> EmitStruct(m, Body(m, c[2]), sec, c[3])
    [] c[1] = "ref" -> Pointer(m, sec, c[3], 0)
    [] c[1] = "expr" -> EmitExpr(m, sec, c[2], c[3].op, c[3].base, c[3].operands)

Symbol(name, section, offset, global, undefined) ==
  [name |-> name, section |-> section, offset |-> offset, global |-> global, undefined |-> undefined]
Undefined(name) == Symbol(name, 1, 0, TRUE, TRUE)
Position(list, name) == SelectInSeq(list, LAMBDA x : x.name = name)

(* emit_globals: one section for the constants, one for the others.        *)
SectionOf(fmt, constant) ==
  IF constant THEN IF fmt = "macho" THEN "__const" ELSE ".rodata"
              ELSE IF fmt = "macho" THEN "__data" ELSE ".data"
EmitGlobal(m, fmt, out, g) ==
  LET n == Position(out.sections, SectionOf(fmt, g.constant))
      size == SizeOf(m, g.ty)
      padded == Put(out.sections[n], Padding(Len(out.sections[n].data), Clamp(size, 1, 16)))
  IN  [sections |-> [out.sections EXCEPT ![n] = IF g.init = <<>> THEN Put(padded, Zeros(size))
                                                ELSE Emit(m, padded, g.init[1])],
       symbols |-> Append(out.symbols, Symbol(g.name, n, Len(padded.data),
                                              g.linkage \notin {"private", "internal"}, FALSE))]
EmitGlobals(m, fmt) ==
  LET present == SelectSeq(<<TRUE, FALSE>>, LAMBDA b : \E k \in DOMAIN m.globals : m.globals[k].constant = b)
  IN  FoldLeft(LAMBDA out, g : EmitGlobal(m, fmt, out, g),
               [sections |-> [k \in DOMAIN present |-> Section(SectionOf(fmt, present[k]))], symbols |-> <<>>], m.globals)

-----------------------------------------------------------------------------
(* Functions.  The prologue of a large frame calls __chkstk on Windows.    *)
FrameBytes(m, f) ==
  FoldLeft(LAMBDA n, i : IF i.op = "alloca" THEN n + RoundUp(Clamp(SizeOf(m, i.types[1]), 8, 8 + SizeOf(m, i.types[1])), 8)
                         ELSE n, 0, f.instrs)
ChecksStack(m, f, fmt) == fmt = "coff" /\ RoundUp(FrameBytes(m, f), 16) > 4096
(* emit_function and emit_object.                                          *)
EmitObject(m, f, fmt) ==
  LET calls == IF ChecksStack(m, f, fmt) THEN <<Reloc(1, "pc32", -4, 2, "__chkstk")>> ELSE <<>>
  IN  [text |-> [Section(IF fmt = "macho" THEN "__text" ELSE ".text") EXCEPT !.data = f.instrs, !.relocs = calls],
       symbols |-> <<Symbol(f.name, 1, 0, TRUE, FALSE)>> \o [k \in DOMAIN calls |-> Undefined(calls[k].name)]]

(* compile_ir_to_object: the text of a function goes behind that of those  *)
(* before it, and its symbol moves by shift; a symbol is entered where no  *)
(* other has its name.                                                     *)
Unify(symbols, news) ==
  FoldLeft(LAMBDA list, s : IF Position(list, s.name) # 0 THEN list ELSE Append(list, s), symbols, news)
MergeText(o, text, symbols, shift) ==
  LET base == Len(text.data)
      all == Unify(symbols, [k \in DOMAIN o.symbols |->
               [o.symbols[k] EXCEPT !.offset = IF o.symbols[k].undefined THEN @ ELSE @ + shift]])
      moved(r) == [r EXCEPT !.at = @ + base, !.symbol = Position(all, o.symbols[@].name)]
  IN  [sections |-> <<[text EXCEPT !.data = @ \o o.text.data,
                                   !.relocs = @ \o [k \in DOMAIN o.text.relocs |-> moved(o.text.relocs[k])]]>>,
       symbols |-> all]
Text(o, sections) == IF sections = <<>> THEN Section(o.text.name) ELSE sections[1]
(* Wrong: the symbol keeps its place in the function's own text.           *)
MergeFunction_Unmoved(o, sections, symbols) == MergeText(o, Text(o, sections), symbols, 0)
MergeFunction(o, sections, symbols) ==
  MergeText(o, Text(o, sections), symbols, Len(Text(o, sections).data))

(* The sections and symbols of the globals follow; a relocation by name    *)
(* takes the symbol of that name, or a new one.                            *)
MergeGlobals(globals, sections, symbols) ==
  LET base == Len(symbols)
      placed == [k \in DOMAIN globals.symbols |-> [globals.symbols[k] EXCEPT !.section = @ + 1]]
      names == FlattenSeq([k \in DOMAIN globals.sections |->
                 LET byName == SelectSeq(globals.sections[k].relocs, LAMBDA r : r.symbol = 0)
                 IN  [j \in DOMAIN byName |-> Undefined(byName[j].name)]])
      all == Unify(symbols \o placed, names)
      moved(r) == [r EXCEPT !.symbol = IF @ = 0 THEN Position(all, r.name) ELSE @ + base]
  IN  [sections |-> sections \o [k \in DOMAIN globals.sections |->
                     [globals.sections[k] EXCEPT !.relocs = [j \in DOMAIN @ |-> moved(@[j])]]],
       symbols |-> all]

-----------------------------------------------------------------------------
(* The file: a symbol that is in section 0 is undefined.                   *)
FileSymbol(s) == [name |-> s.name, section |-> IF s.undefined THEN 0 ELSE s.section, offset |-> s.offset]
(* serialize_elf: the table begins with an empty entry.                    *)
SerializeElf(sections, symbols) ==
  [sections |-> [k \in DOMAIN sections |->
      [sections[k] EXCEPT !.relocs = [j \in DOMAIN @ |-> [@[j] EXCEPT !.symbol = @ + 1]]]],
   symbols |-> <<[name |-> "", section |-> 0, offset |-> 0]>> \o [k \in DOMAIN symbols |-> FileSymbol(symbols[k])]]
(* serialize_coff: no addend is written; that of a call is understood.     *)
SerializeCoff(sections, symbols) ==
  [sections |-> [k \in DOMAIN sections |->
      [sections[k] EXCEPT !.relocs = [j \in DOMAIN @ |->
          [@[j] EXCEPT !.addend = IF sections[k].relocs[j].kind = "pc32" THEN -4 ELSE 0]]]],
   symbols |-> [k \in DOMAIN symbols |-> FileSymbol(symbols[k])]]
(* serialize_macho: the first section, and every symbol in it.             *)
SerializeMacho(sections, symbols) ==
  [sections |-> <<sections[1]>>,
   symbols |-> [k \in DOMAIN symbols |-> [name |-> symbols[k].name, section |-> 1, offset |-> symbols[k].offset]]]
Serialize(fmt, sections, symbols) ==
  CASE fmt = "elf" -> SerializeElf(sections, symbols)
    [] fmt = "coff" -> SerializeCoff(sections, symbols)
    [] fmt = "macho" -> SerializeMacho(sections, symbols)

Definitions(m) == SelectSeq(m.functions, LAMBDA f : ~f.declaration)
NoFile == [sections |-> <<>>, symbols |-> <<>>]
NoObject == [of |-> EmptyModule, fmt |-> "", stage |-> "idle", done |-> 0, sections |-> <<>>, symbols |-> <<>>, file |-> NoFile]
ObjectInit == object = NoObject

StartObject(m, fmt) ==
  /\ object' = [NoObject EXCEPT !.of = m, !.fmt = fmt, !.stage = IF Definitions(m) = <<>> THEN "error" ELSE "functions"]
Grown(o, merged, stage, done) == [o EXCEPT !.sections = merged.sections, !.symbols = merged.symbols, !.stage = stage, !.done = done]
CompileFunction ==
  /\ object.stage = "functions"
  /\ LET fs == Definitions(object.of)
         n == object.done + 1
     IN  object' = Grown(object, MergeFunction(EmitObject(object.of, fs[n], object.fmt), object.sections, object.symbols),
                         IF n = Len(fs) THEN "globals" ELSE "functions", n)
CompileGlobals ==
  /\ object.stage = "globals"
  /\ object' = Grown(object, MergeGlobals(EmitGlobals(object.of, object.fmt), object.sections, object.symbols),
                     "merged", object.done)
WriteObject ==
  /\ object.stage = "merged"
  /\ object' = [object EXCEPT !.stage = "written", !.file = Serialize(object.fmt, object.sections, object.symbols)]

ObjectDone == object.stage \in {"error", "written"}
ObjectNext == CompileFunction \/ CompileGlobals \/ WriteObject

-----------------------------------------------------------------------------
(* The pointers in a constant, from left to right: the function or global  *)
(* each names, and the path to the element of it.                          *)
RECURSIVE PointersOf(_)
PointersOf(c) ==
  CASE c[1] = "ref" -> <<[name |-> c[3], path |-> <<>>]>>
    [] c[1] \in Aggregates -> FlattenSeq([k \in DOMAIN c[3] |-> PointersOf(c[3][k])])
    [] c[1] = "expr" /\ c[3].op = "getelementptr" ->
         LET path == [k \in DOMAIN Tail(c[3].operands) |-> AsI64(c[3].operands[k + 1])]
         IN  <<[name |-> c[3].operands[1][3], path |-> Tail(path)]>>
    [] c[1] = "expr" /\ c[3].op \in {"bitcast", "ptrtoint"} -> PointersOf(c[3].operands[1])
    [] OTHER -> <<>>
RECURSIVE FirstScalar(_)
FirstScalar(c) == IF c[1] \in Aggregates THEN FirstScalar(c[3][1]) ELSE c
ElementAt(c, path) == FoldLeft(LAMBDA d, k : d[3][k + 1], c, path)

(* What lies where a pointer of that name and path must lead.              *)
Designated(m, ptr) ==
  LET f == Position(m.functions, ptr.name)
  IN  IF f # 0 THEN m.functions[f].instrs
      ELSE BytesOf(FirstScalar(ElementAt(m.globals[Position(m.globals, ptr.name)].init[1], ptr.path)), 1)
LiesAt(file, bytes, section, offset) ==
  section # 0 /\ SubSeq(file.sections[section].data, offset + 1, offset + Len(bytes)) = bytes
Leads(m, file, r, ptr) ==
  LET s == file.symbols[r.symbol]
      f == Position(m.functions, ptr.name)
  IN  /\ s.name = ptr.name
      /\ IF f # 0 /\ m.functions[f].declaration THEN s.section = 0
         ELSE LiesAt(file, Designated(m, ptr), s.section, s.offset + r.addend)
Wanted(m, constant) ==
  LET here == SelectSeq(m.globals, LAMBDA g : g.constant = constant /\ g.init # <<>>)
  IN  FlattenSeq([k \in DOMAIN here |-> PointersOf(here[k].init[1])])

(* Linkable: in the file each defined function is where its one symbol     *)
(* says, each call of __chkstk is relocated, and each pointer in a global  *)
(* variable leads to the function, or to the element of the global, that   *)
(* its constant names ("proper relocation entries", compile.rs); a Mach-O  *)
(* file has no global variables, a COFF file no pointers to elements.      *)
Linkable ==
  object.stage = "written" =>
    LET m == object.of
        file == object.file
        fs == Definitions(m)
    IN  /\ \A k \in DOMAIN fs :
             LET own == SelectSeq(file.symbols, LAMBDA s : s.name = fs[k].name)
             IN  Len(own) = 1 /\ LiesAt(file, fs[k].instrs, own[1].section, own[1].offset)
        /\ LET large == SelectSeq(fs, LAMBDA f : ChecksStack(m, f, object.fmt))
               calls == file.sections[1].relocs
           IN  /\ Len(calls) = Len(large)
               /\ \A k \in DOMAIN calls :
                    /\ file.symbols[calls[k].symbol] = [name |-> "__chkstk", section |-> 0, offset |-> 0]
                    /\ LiesAt(file, large[k].instrs, 1, calls[k].at - 1)
        /\ \A n \in 2..Len(file.sections) :
             LET relocs == file.sections[n].relocs
                 wanted == Wanted(m, file.sections[n].name = ".rodata")
             IN  /\ Len(relocs) = Len(wanted)
                 /\ \A k \in DOMAIN wanted :
                      \/ object.fmt = "coff" /\ wanted[k].path # <<>>
                      \/ /\ LiesAt(file, Zeros(8), n, relocs[k].at)
                         /\ Leads(m, file, relocs[k], wanted[k])
=============================================================================
