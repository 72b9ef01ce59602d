------------------------------- MODULE Files --------------------------------
(***************************************************************************)
(* A module on its way through the files of the compiler: its text is      *)
(* parsed, printed and parsed again (Parser), and what was parsed is       *)
(* embedded in an object, read back and linked with other modules (Lto).   *)
(* Or it comes from a file of LLVM's (LlvmBitcode), or has been built by   *)
(* the builder (Builder), and then is printed and parsed.  What has been   *)
(* parsed twice may also be reduced (Reduce) or compiled to an object file *)
(* (Objects); a program with a JIT loads modules into it instead.          *)
(***************************************************************************)
EXTENDS Parser, Reduce, Linker

CONSTANTS
  Cuts,        \* how many tokens the end of the file of a parsed module may lack
  Companions,  \* the lists of modules that a module is linked with
  LlvmFiles,   \* files of LLVM's: [mod, layout, cut], cut items missing at the end
  Scripts,     \* what is asked of the builder
  Reducible,   \* the first functions of the modules that are reduced
  Compiled,    \* the first functions of the modules that are compiled
  JitModules, MaxLoads   \* the modules loaded into the JIT, and how many times at most

VARIABLES file, reader, objects, stream, bc, builder, object

Linking == INSTANCE Lto
Importing == INSTANCE LlvmBitcode
Making == INSTANCE Builder
Native == INSTANCE Objects

(* What the theorems ask of the modules that are reduced, merged or loaded.*)
ASSUME ModulesAssumption == \A m \in Modules : IsModule(m) /\ IsUnit(m)
ASSUME UnitsAssumption ==
  \A m \in JitModules \cup UNION {ToSet(c) : c \in Companions} : IsUnit(m)

linkVars == <<file, reader, objects, decoded, linked>>
bitVars == <<stream, bc>>
nativeVars == <<object, jit>>
otherVars == <<linkVars, bitVars, builder, reducer, nativeVars>>
allVars == <<vars, otherVars>>

FilesInit == Init /\ Linking!LinkInit /\ Importing!BitcodeInit /\ Making!BuildInit /\ ReduceInit
             /\ Native!ObjectInit /\ jit = NoJit

Fresh == text = <<>> /\ ~reread /\ p = Parser0 /\ ~Importing!Opened /\ ~Making!Building /\ jit = NoJit
Parse == ~Done /\ ~Importing!Opened /\ ~Making!Building /\ jit = NoJit /\ Next /\ UNCHANGED otherVars

(* The module and its companions are embedded, then linked.                *)
EmbedParsed ==
  /\ Done /\ level # "error" /\ objects = <<>> /\ reducer = IdleReducer /\ object = Native!NoObject
  /\ \E cut \in Cuts : Linking!Embed(p.mod, cut)
  /\ UNCHANGED <<vars, bitVars, builder, reducer, nativeVars>>
EmbedCompanion ==
  /\ objects # <<>> /\ file = <<>> /\ decoded = <<>> /\ reader.err = ""
  /\ \E c \in Companions : /\ Len(objects) <= Len(c)
                           /\ [k \in 1..(Len(objects) - 1) |-> objects[k + 1].mod] = SubSeq(c, 1, Len(objects) - 1)
                           /\ Linking!Embed(c[Len(objects)], 0)
  /\ UNCHANGED <<vars, bitVars, builder, reducer, nativeVars>>
Link == Linking!Link /\ UNCHANGED <<vars, bitVars, builder, reducer, nativeVars>>

(* Instead of a text, a file of LLVM's is read.                            *)
OpenLlvmFile ==
  /\ Fresh
  /\ \E f \in LlvmFiles : Importing!OpenBitcode(f.mod, f.layout, f.cut)
  /\ UNCHANGED <<vars, linkVars, builder, reducer, nativeVars>>
Import == Importing!ReadBitcode /\ UNCHANGED <<vars, linkVars, builder, reducer, nativeVars>>

(* Or a module is built, then printed.                                     *)
StartBuilding ==
  /\ Fresh
  /\ \E s \in Scripts : Making!StartBuilding(s)
  /\ UNCHANGED <<vars, linkVars, bitVars, reducer, nativeVars>>
Build == Making!BuildNext /\ UNCHANGED <<vars, linkVars, bitVars, reducer, nativeVars>>
UseBuilt ==
  /\ Making!Built
  /\ p' = [p EXCEPT !.mod = builder.mod] /\ builder' = [builder EXCEPT !.used = TRUE]
  /\ UNCHANGED <<source, text, level, reread, linkVars, bitVars, reducer, nativeVars>>

(* What was parsed is reduced.                                             *)
ReduceParsed ==
  /\ Done /\ level # "error" /\ objects = <<>> /\ object = Native!NoObject
  /\ p.mod.functions # <<>> /\ p.mod.functions[1].name \in Reducible
  /\ StartReducing(p.mod)
  /\ UNCHANGED <<vars, linkVars, bitVars, builder, nativeVars>>
Reduce == ReduceNext /\ UNCHANGED <<vars, linkVars, bitVars, builder, nativeVars>>

(* What was parsed is compiled, at the level that leaves it as it is.      *)
CompileParsed ==
  /\ Done /\ level # "error" /\ objects = <<>> /\ reducer = IdleReducer /\ object = Native!NoObject
  /\ p.mod.functions # <<>> /\ p.mod.functions[1].name \in Compiled
  /\ \E fmt \in {"elf", "coff", "macho"} : Native!StartObject(p.mod, fmt)
  /\ UNCHANGED <<vars, linkVars, bitVars, builder, reducer, jit>>
Compile == Native!ObjectNext /\ UNCHANGED <<vars, linkVars, bitVars, builder, reducer, jit>>

(* Modules are loaded, one after the other, where nothing else is done.    *)
LoadJit ==
  /\ text = <<>> /\ ~reread /\ p = Parser0 /\ ~Importing!Opened /\ ~Making!Building
  /\ Len(jit.loads) < MaxLoads
  /\ \E m \in JitModules, outcome \in Outcomes : AddModule(m, outcome)
  /\ UNCHANGED <<vars, linkVars, bitVars, builder, reducer, object>>

FilesDone ==
  \/ Done /\ (level = "error" \/ Linking!LinkDone \/ ReduceDone \/ Native!ObjectDone)
  \/ jit # NoJit /\ Len(jit.loads) = MaxLoads
  \/ Importing!Opened /\ Importing!BitcodeDone
FilesStop == FilesDone /\ UNCHANGED allVars

FilesNext == Parse \/ EmbedParsed \/ EmbedCompanion \/ Link \/ OpenLlvmFile \/ Import
             \/ StartBuilding \/ Build \/ UseBuilt \/ ReduceParsed \/ Reduce
             \/ CompileParsed \/ Compile \/ LoadJit \/ FilesStop

FilesSpec == FilesInit /\ [][FilesNext]_allVars

-----------------------------------------------------------------------------
(* EveryFileComesBack, RefusedForAReason: of the modules that have been    *)
(* parsed (see Lto).                                                       *)
EveryFileComesBack == Linking!EveryFileComesBack
RefusedForAReason == Linking!RefusedForAReason
(* Progress: the parser advances with every step (see Advances in Parser); *)
(* the other way to a module is the builder.                               *)
Progress == [][Advances \/ builder' # builder]_vars
(* BodiesComeBack, RefusedBitcode: of LLVM's files (see LlvmBitcode).      *)
BodiesComeBack == Importing!BodiesComeBack
RefusedBitcode == Importing!RefusedBitcode
(* Linkable: of the object files that have been written (see Objects).     *)
Linkable == Native!Linkable
=============================================================================
