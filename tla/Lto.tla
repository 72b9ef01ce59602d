-------------------------------- MODULE Lto ---------------------------------
(***************************************************************************)
(* Link-time optimisation (llvm, lto.rs): modules are embedded in objects  *)
(* as bitcode, read back, and merged into the first of them.               *)
(***************************************************************************)
EXTENDS Lrir, Linker

VARIABLE objects   \* the modules that are embedded, each with how much of its file is lost

linkVars == <<file, reader, objects, mergeVars>>

LinkInit == file = <<>> /\ reader = Reader0 /\ objects = <<>> /\ MergeInit

(* embed_lto_payload; cut is how many tokens the end of the file will lack.*)
Embed(m, cut) ==
  /\ objects' = Append(objects, [mod |-> m, cut |-> cut])
  /\ UNCHANGED <<file, reader, mergeVars>>

(* run_lto_from_objects: all are read before the first is merged.          *)
Object == objects[Len(decoded) + 1]
Payload(o) == LET all == Bitcode(Context(o.mod), o.mod) IN SubSeq(all, 1, Len(all) - o.cut)
Reading == file # <<>>
Load ==
  /\ ~Reading /\ Len(decoded) < Len(objects) /\ reader.err = ""
  /\ Start(Payload(Object))
  /\ UNCHANGED <<objects, mergeVars>>
ReadObject == Reading /\ Read /\ UNCHANGED <<objects, mergeVars>>
Decode ==
  /\ Reading /\ reader.section = "done"
  /\ Decoded(reader)
  /\ file' = <<>> /\ reader' = Reader0
  /\ UNCHANGED objects
(* All are read before the first is merged.                                *)
Merge ==
  /\ objects # <<>> /\ Len(decoded) = Len(objects)
  /\ MergeStep
  /\ UNCHANGED <<file, reader, objects>>

LinkDone == objects # <<>> /\ (reader.err # "" \/ ~linked.ok \/ linked.merged = Len(objects))
Link == Load \/ ReadObject \/ Decode \/ Merge

-----------------------------------------------------------------------------
(* What is kept of a module: not the flags of its floating-point           *)
(* instructions, and no metadata.                                          *)
KeptInstr(i) == [i EXCEPT !.md = <<>>, !.words = IF i.op \in Floating THEN {} ELSE @]
KeptFunction(f) == [f EXCEPT !.instrs = [k \in DOMAIN @ |-> KeptInstr(@[k])]]

(* EveryFileComesBack: what is read from the bitcode of a module is the    *)
(* module, its flags on floating point and its metadata apart, with the    *)
(* bodies of its types (write_bitcode, then read_bitcode).                 *)
EveryFileComesBack ==
  \A k \in DOMAIN decoded :
    LET m == objects[k].mod
    IN  /\ decoded[k].globals = m.globals
        /\ decoded[k].functions = [j \in DOMAIN m.functions |-> KeptFunction(m.functions[j])]
        /\ decoded[k].bodies = Context(m).bodies

(* RefusedForAReason: a file is refused when its end is missing, however   *)
(* much of it, or when a struct is numbered before a type it contains; the *)
(* reader never takes a field for another one.                             *)
BeforeItsBody(m) ==
  \E k \in DOMAIN m.types : \E j \in DOMAIN m.types[k][2][2] :
    Id(Context(m).types, m.types[k][2][2][j]) > Id(Context(m).types, Named(m.types[k][1]))
RefusedForAReason ==
  /\ \/ reader.err = ""
     \/ reader.err = "truncated" /\ Object.cut > 0
     \/ reader.err = "type id" /\ BeforeItsBody(Object.mod)
  /\ \A k \in DOMAIN decoded : objects[k].cut = 0
=============================================================================
