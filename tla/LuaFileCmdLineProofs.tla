------------------------- MODULE LuaFileCmdLineProofs -------------------------
(***************************************************************************)
(* Proofs about LuaFile_Tool's command line parse: the overflow check      *)
(* after the argv copy is exact, and every configuration file is read with *)
(* the images directory of the last --images-dir.                          *)
(***************************************************************************)
EXTENDS LuaFileCmdLine, NaturalsInduction, SequenceTheorems, TLAPS

USE CmdLineAssumption

-----------------------------------------------------------------------------
(* The two counts over argv[1..k], by their recursive definitions.         *)

NeededStep(v, k) == v + argv[k].len + 1

\* The bytes needed for argv[1..k] are those for argv[1..k-1] and argv[k]
\* with its NUL.
LEMMA NeededEq ==
    /\ NeededUpTo[0] = 0
    /\ \A k \in Nat \ {0} : NeededUpTo[k] = NeededUpTo[k - 1] + argv[k].len + 1
<1>1. NatInductiveDefHypothesis(NeededUpTo, 0, NeededStep)
  BY DEF NatInductiveDefHypothesis, NeededUpTo, NeededStep
<1>2. NatInductiveDefConclusion(NeededUpTo, 0, NeededStep)
  BY <1>1, NatInductiveDef
<1>3. QED
  BY <1>2 DEF NatInductiveDefConclusion, NeededStep

LastDirStep(v, k) == IF argv[k].opt = "i" THEN argv[k].arg ELSE v

\* The last --images-dir of argv[1..k] is argv[k]'s argument if argv[k] is
\* one, and that of argv[1..k-1] otherwise.
LEMMA LastDirEq ==
    /\ LastDirUpTo[0] = NoDir
    /\ \A k \in Nat \ {0} :
          LastDirUpTo[k] = IF argv[k].opt = "i" THEN argv[k].arg ELSE LastDirUpTo[k - 1]
<1>1. NatInductiveDefHypothesis(LastDirUpTo, NoDir, LastDirStep)
  BY DEF NatInductiveDefHypothesis, LastDirUpTo, LastDirStep
<1>2. NatInductiveDefConclusion(LastDirUpTo, NoDir, LastDirStep)
  BY <1>1, NatInductiveDef
<1>3. QED
  BY <1>2 DEF NatInductiveDefConclusion, LastDirStep

-----------------------------------------------------------------------------
(* Types.                                                                  *)

PcSet == {"copy", "overflow", "pass1", "pass2", "pos", "enforce", "done", "exit", "fatal"}
LogRec == [file : Files, dir : Dirs \cup {NoDir}, out : ConfigOutcomes]

\* argv is the program name followed by elements; the counters are natural.
TypeInv ==
    /\ argv \in Seq(Elements \cup {Argv0})
    /\ Len(argv) >= 1 /\ argv[1] = Argv0
    /\ pc \in PcSet
    /\ i \in Nat \ {0} /\ bufp \in Nat
    /\ imagesDir \in Dirs \cup {NoDir}
    /\ found \in BOOLEAN /\ enforce \in BOOLEAN
    /\ configLog \in Seq(LogRec)

\* The command lines Init chooses are of this type.
LEMMA InitType == Init => TypeInv
<1> SUFFICES ASSUME Init PROVE TypeInv
  OBVIOUS
<1>1. PICK n \in 0..MaxArgs : \E s \in [1..n -> Elements] : argv = <<Argv0>> \o s
  BY DEF Init
<1>2. PICK s \in [1..n -> Elements] : argv = <<Argv0>> \o s
  BY <1>1
<1>3. s \in Seq(Elements \cup {Argv0}) /\ <<Argv0>> \in Seq(Elements \cup {Argv0})
  BY <1>2
<1>4. Len(s) = n /\ Len(<<Argv0>>) = 1 /\ n \in Nat
  BY <1>2
<1>5. argv \in Seq(Elements \cup {Argv0}) /\ Len(argv) = n + 1 /\ argv[1] = Argv0
  <2>1. /\ <<Argv0>> \o s \in Seq(Elements \cup {Argv0})
        /\ Len(<<Argv0>> \o s) = Len(<<Argv0>>) + Len(s)
        /\ \A k \in 1 .. Len(<<Argv0>>) + Len(s) : (<<Argv0>> \o s)[k] =
              IF k <= Len(<<Argv0>>) THEN <<Argv0>>[k] ELSE s[k - Len(<<Argv0>>)]
    BY <1>3, ConcatProperties
  <2>2. QED
    BY <1>2, <1>4, <2>1
<1>6. configLog \in Seq(LogRec)
  BY EmptySeq DEF Init
<1>7. pc \in PcSet /\ i \in Nat \ {0} /\ bufp \in Nat /\ imagesDir \in Dirs \cup {NoDir}
  BY DEF Init, PcSet
<1>8. found \in BOOLEAN /\ enforce \in BOOLEAN
  BY DEF Init
<1>9. QED
  BY <1>5, <1>6, <1>7, <1>8 DEF TypeInv

\* What an element of argv carries: a length, a file name for
\* --gs_luafile and a positional argument, a directory for --images-dir.
LEMMA ElemFacts ==
    ASSUME TypeInv, NEW k \in 1..Len(argv)
    PROVE  /\ argv[k].len \in Nat
           /\ argv[k].opt \in {"l", "pos"} => argv[k].arg \in Files
           /\ argv[k].opt = "i" => argv[k].arg \in Dirs
           /\ argv[k].opt = "p" => argv[k].arg \in ParamForms
<1>1. argv[k] \in Elements \cup {Argv0}
  BY ElementOfSeq DEF TypeInv
<1>2. QED
  BY <1>1 DEF Elements, Argv0

\* config(file) appends one well-typed record to the log, or is fatal.
LEMMA ConfigType ==
    ASSUME TypeInv, NEW f \in Files, NEW nx \in PcSet, Config(f, nx)
    PROVE  configLog' \in Seq(LogRec) /\ pc' \in PcSet
<1>1. CASE HAS_LUA
  <2>1. PICK o \in ConfigOutcomes :
          /\ configLog' = Append(configLog, [file |-> f, dir |-> imagesDir, out |-> o])
          /\ pc' = nx
    BY <1>1 DEF Config
  <2>2. [file |-> f, dir |-> imagesDir, out |-> o] \in LogRec
    BY DEF TypeInv, LogRec
  <2>3. QED
    BY <2>1, <2>2, AppendProperties DEF TypeInv
<1>2. CASE ~HAS_LUA
  BY <1>2 DEF Config, PcSet, TypeInv
<1>3. QED
  BY <1>1, <1>2

\* Every step of the parse keeps TypeInv.
LEMMA TypeStep == TypeInv /\ [Next]_vars => TypeInv'
<1> SUFFICES ASSUME TypeInv, [Next]_vars PROVE TypeInv'
  OBVIOUS
<1> USE DEF TypeInv
<1>1. CASE CopyArg
  <2>1. argv[i].len \in Nat
    BY <1>1, ElemFacts DEF CopyArg
  <2>2. QED
    BY <1>1, <2>1 DEF CopyArg
<1>2. CASE CopyDone
  BY <1>2 DEF CopyDone, PcSet
<1>3. CASE Pass1
  <2>1. CASE i <= Len(argv)
    <3>1. argv[i].opt = "i" => argv[i].arg \in Dirs
      BY <2>1, ElemFacts
    <3>2. QED
      BY <1>3, <2>1, <3>1 DEF Pass1
  <2>2. CASE ~(i <= Len(argv))
    BY <1>3, <2>2 DEF Pass1, PcSet
  <2>3. QED
    BY <2>1, <2>2
<1>4. CASE Pass2
  <2>1. CASE i > Len(argv)
    BY <1>4, <2>1 DEF Pass2, PcSet
  <2>2. CASE i <= Len(argv) /\ argv[i].opt = "l"
    <3>1. argv[i].arg \in Files /\ "pass2" \in PcSet
      BY <2>2, ElemFacts DEF PcSet
    <3>2. Config(argv[i].arg, "pass2") /\ found' = TRUE /\ i' = i + 1
      BY <1>4, <2>2 DEF Pass2
    <3>3. configLog' \in Seq(LogRec) /\ pc' \in PcSet
      BY <3>1, <3>2, ConfigType
    <3>4. QED
      BY <1>4, <3>2, <3>3 DEF Pass2
  <2>3. CASE i <= Len(argv) /\ argv[i].opt # "l"
    BY <1>4, <2>3 DEF Pass2, PcSet
  <2>4. QED
    BY <2>1, <2>2, <2>3
<1>5. CASE Positional
  <2>1. CASE i > Len(argv)
    BY <1>5, <2>1 DEF Positional, PcSet
  <2>2. CASE i <= Len(argv) /\ ~IsOption(argv[i])
    <3>1. argv[i].arg \in Files /\ "pos" \in PcSet
      BY <2>2, ElemFacts DEF PcSet, IsOption
    <3>2. Config(argv[i].arg, "pos") /\ found' = TRUE /\ i' = i + 1
      BY <1>5, <2>2 DEF Positional
    <3>3. configLog' \in Seq(LogRec) /\ pc' \in PcSet
      BY <3>1, <3>2, ConfigType
    <3>4. QED
      BY <1>5, <3>2, <3>3 DEF Positional
  <2>3. CASE i <= Len(argv) /\ IsOption(argv[i])
    BY <1>5, <2>3 DEF Positional
  <2>4. QED
    BY <2>1, <2>2, <2>3
<1>6. CASE Enforce
  BY <1>6 DEF Enforce, PcSet
<1>7. CASE Terminated /\ UNCHANGED vars
  BY <1>7 DEF vars
<1>8. CASE UNCHANGED vars
  BY <1>8 DEF vars
<1>9. QED
  BY <1>1, <1>2, <1>3, <1>4, <1>5, <1>6, <1>7, <1>8 DEF Next

-----------------------------------------------------------------------------
(* argv is only read.                                                      *)

\* No step of the parse changes argv (the copy is argv_cp, permuted only in
\* getopt's view).
LEMMA ArgvConst == [Next]_vars => argv' = argv
BY DEF Next, vars, CopyArg, CopyDone, Pass1, Pass2, Positional, Enforce

\* So the counts over argv are the same after a step.
LEMMA CountsConst ==
    argv' = argv => /\ NeededUpTo' = NeededUpTo /\ Needed' = Needed
                    /\ LastDirUpTo' = LastDirUpTo /\ LastImagesDir' = LastImagesDir
BY DEF NeededUpTo, Needed, LastDirUpTo, LastImagesDir

-----------------------------------------------------------------------------
(* The overflow check is exact.                                            *)

Parsing == {"pass1", "pass2", "pos", "enforce", "done", "exit", "fatal"}

\* config(file) goes on with the parse or is fatal.
LEMMA ConfigPc ==
    ASSUME NEW f, NEW nx, Config(f, nx)
    PROVE  pc' \in {nx, "fatal"}
BY DEF Config

\* Once past the copy, the parse never returns to it or to the overflow
\* throw, and buffer_p is not moved again.
LEMMA ParsingStays ==
    ASSUME TypeInv, pc \in Parsing, [Next]_vars
    PROVE  pc' \in Parsing /\ bufp' = bufp
<1>0. i \in Nat /\ Len(argv) \in Nat
  BY DEF TypeInv
<1>1. CASE Pass2
  <2>1. CASE i <= Len(argv) /\ argv[i].opt = "l"
    <3>1. Config(argv[i].arg, "pass2")
      BY <1>1, <2>1, <1>0 DEF Pass2
    <3>2. QED
      BY <1>1, <3>1, ConfigPc DEF Pass2, Parsing
  <2>2. CASE ~(i <= Len(argv) /\ argv[i].opt = "l")
    BY <1>1, <2>2, <1>0 DEF Pass2, Parsing
  <2>3. QED
    BY <2>1, <2>2
<1>2. CASE Positional
  <2>1. CASE i <= Len(argv) /\ ~IsOption(argv[i])
    <3>1. Config(argv[i].arg, "pos")
      BY <1>2, <2>1, <1>0 DEF Positional
    <3>2. QED
      BY <1>2, <3>1, ConfigPc DEF Positional, Parsing
  <2>2. CASE ~(i <= Len(argv) /\ ~IsOption(argv[i]))
    BY <1>2, <2>2, <1>0 DEF Positional, Parsing
  <2>3. QED
    BY <2>1, <2>2
<1>3. CASE ~Pass2 /\ ~Positional
  BY <1>3 DEF Next, vars, CopyArg, CopyDone, Pass1, Enforce, Parsing
<1>4. QED
  BY <1>1, <1>2, <1>3

\* The strengthening of OverflowCheckExact: during the copy buffer_p has
\* moved by the bytes of argv[1..i-1]; after it, by those of all of argv.
OverflowInv ==
    /\ pc = "copy" => i \in 1..Len(argv) + 1 /\ bufp = NeededUpTo[i - 1]
    /\ pc # "copy" => bufp = Needed
    /\ pc \in Parsing => bufp <= BUFFER_SIZE
    /\ pc = "overflow" => bufp > BUFFER_SIZE

LEMMA OverflowInit == Init => OverflowInv
BY NeededEq DEF Init, OverflowInv

LEMMA OverflowStep ==
    TypeInv /\ OverflowInv /\ [Next]_vars => OverflowInv'
<1> SUFFICES ASSUME TypeInv, OverflowInv, [Next]_vars PROVE OverflowInv'
  OBVIOUS
<1>1. argv' = argv /\ NeededUpTo' = NeededUpTo /\ Needed' = Needed
  BY ArgvConst, CountsConst
<1>2. CASE UNCHANGED vars
  BY <1>1, <1>2 DEF vars, OverflowInv
<1>3. CASE CopyArg
  <2>1. i \in 1..Len(argv) /\ i \in Nat \ {0} /\ Len(argv) \in Nat
    BY <1>3 DEF CopyArg, OverflowInv, TypeInv
  <2>2. NeededUpTo[i] = NeededUpTo[i - 1] + argv[i].len + 1
    BY <2>1, NeededEq
  <2>3. pc' = "copy" /\ i' \in 1..Len(argv') + 1 /\ bufp' = NeededUpTo'[i' - 1]
    BY <1>1, <1>3, <2>1, <2>2 DEF CopyArg, OverflowInv
  <2>4. QED
    BY <2>3 DEF OverflowInv, Parsing
<1>4. CASE CopyDone
  <2>1. i = Len(argv) + 1 /\ bufp = Needed
    BY <1>4 DEF CopyDone, OverflowInv, Needed
  <2>2. bufp' = Needed' /\ pc' # "copy"
    BY <1>1, <1>4, <2>1 DEF CopyDone
  <2>3. pc' = "overflow" => bufp' > BUFFER_SIZE
    BY <1>4 DEF CopyDone
  <2>4. pc' \in Parsing => pc' = "pass1" /\ bufp' <= BUFFER_SIZE
    BY <1>4 DEF CopyDone, Parsing, TypeInv
  <2>5. QED
    BY <2>2, <2>3, <2>4 DEF OverflowInv
<1>5. CASE pc \in Parsing
  <2>1. pc' \in Parsing /\ bufp' = bufp
    BY <1>5, ParsingStays
  <2>2. QED
    BY <1>1, <1>5, <2>1 DEF OverflowInv, Parsing
<1>6. CASE pc = "overflow"
  BY <1>1, <1>6 DEF Next, vars, CopyArg, CopyDone, Pass1, Pass2, Positional, Enforce,
     OverflowInv, Terminated
<1>7. QED
  BY <1>2, <1>3, <1>4, <1>5, <1>6 DEF Next, Pass1, Pass2,
     Positional, Enforce, TypeInv, PcSet, Parsing

\* The type invariant holds in every reachable state.
LEMMA TypeHolds == Spec => []TypeInv
BY InitType, TypeStep, PTL DEF Spec

\* "Check the rare case that BUFFER_SIZE is not enough" (line 293): for
\* every BUFFER_SIZE and command line, the parse goes on past the copy
\* exactly when argv with its NULs fits in argv_buffer, and throws
\* overflow_error exactly when it does not.
THEOREM OverflowExact == Spec => []OverflowCheckExact
<1>1. OverflowInv => OverflowCheckExact
  BY DEF OverflowInv, OverflowCheckExact, Parsing
<1>2. QED
  BY <1>1, InitType, TypeStep, OverflowInit, OverflowStep, PTL DEF Spec

-----------------------------------------------------------------------------
(* Every configuration file is read with the last --images-dir.            *)

\* The strengthening of ImagesDirBeforeConfig: before the first pass no
\* directory is set; during it p_images_dir is the last --images-dir of
\* argv[1..i-1]; after it, that of all of argv; and no file is read before
\* the first pass has ended.
DirInv ==
    /\ pc \in {"copy", "overflow"} => imagesDir = NoDir
    /\ pc = "pass1" => i \in 2..Len(argv) + 1 /\ imagesDir = LastDirUpTo[i - 1]
    /\ pc \in Parsing \ {"pass1"} => imagesDir = LastImagesDir
    /\ pc \in {"copy", "overflow", "pass1"} => configLog = <<>>
    /\ \A k \in DOMAIN configLog : configLog[k].dir = imagesDir

LEMMA DirInit == Init => DirInv
BY DEF Init, DirInv, Parsing

\* config(file) logs the images directory it is called with.
LEMMA ConfigLogsDir ==
    ASSUME TypeInv, NEW f, NEW nx, Config(f, nx), UNCHANGED imagesDir,
           \A k \in DOMAIN configLog : configLog[k].dir = imagesDir
    PROVE  \A k \in DOMAIN configLog' : configLog'[k].dir = imagesDir'
<1>1. CASE HAS_LUA
  <2>1. PICK o \in ConfigOutcomes :
          configLog' = Append(configLog, [file |-> f, dir |-> imagesDir, out |-> o])
    BY <1>1 DEF Config
  <2>2. configLog \in Seq(LogRec)
    BY DEF TypeInv
  <2>3. QED
    BY <2>1, <2>2
<1>2. CASE ~HAS_LUA
  BY <1>2 DEF Config
<1>3. QED
  BY <1>1, <1>2

LEMMA DirStep ==
    TypeInv /\ DirInv /\ [Next]_vars => DirInv'
<1> SUFFICES ASSUME TypeInv, DirInv, [Next]_vars PROVE DirInv'
  OBVIOUS
<1>1. argv' = argv /\ LastDirUpTo' = LastDirUpTo /\ LastImagesDir' = LastImagesDir
  BY ArgvConst, CountsConst
<1>0. Len(argv) \in Nat /\ Len(argv) >= 1 /\ argv[1] = Argv0 /\ i \in Nat \ {0}
  BY DEF TypeInv
<1>2. CASE UNCHANGED vars
  BY <1>1, <1>2 DEF vars, DirInv
<1>3. CASE CopyArg
  BY <1>3 DEF CopyArg, DirInv, Parsing
<1>4. CASE CopyDone
  <2>1. LastDirUpTo[1] = NoDir
    BY <1>0, LastDirEq DEF Argv0
  <2>2. QED
    BY <1>0, <1>1, <1>4, <2>1 DEF CopyDone, DirInv, Parsing
<1>5. CASE Pass1 /\ i <= Len(argv)
  <2>1. i \in 2..Len(argv) /\ imagesDir = LastDirUpTo[i - 1] /\ configLog = <<>>
    BY <1>0, <1>5 DEF Pass1, DirInv
  <2>2. imagesDir' = LastDirUpTo[i]
    BY <1>5, <2>1, LastDirEq DEF Pass1
  <2>3. pc' = "pass1" /\ i' = i + 1 /\ configLog' = <<>>
    BY <1>5, <2>1 DEF Pass1
  <2>4. QED
    BY <1>0, <1>1, <2>1, <2>2, <2>3 DEF DirInv, Parsing
<1>6. CASE Pass1 /\ ~(i <= Len(argv))
  <2>1. i = Len(argv) + 1 /\ imagesDir = LastDirUpTo[i - 1] /\ configLog = <<>>
    BY <1>0, <1>6 DEF Pass1, DirInv
  <2>2. pc' = "pass2" /\ imagesDir' = LastImagesDir' /\ configLog' = <<>>
    BY <1>1, <1>6, <2>1 DEF Pass1, LastImagesDir
  <2>3. QED
    BY <2>2 DEF DirInv, Parsing
<1>7. CASE Pass2 \/ Positional \/ Enforce
  <2>1. pc \in Parsing \ {"pass1"} /\ imagesDir = LastImagesDir
    BY <1>7 DEF Pass2, Positional, Enforce, DirInv, Parsing
  <2>2. pc' \in Parsing /\ UNCHANGED imagesDir
    BY <1>7, <2>1, ParsingStays DEF Pass2, Positional, Enforce, Parsing
  <2>3. pc' # "pass1"
    BY <1>7, <2>1 DEF Pass2, Positional, Enforce, Config
  <2>4. \A k \in DOMAIN configLog' : configLog'[k].dir = imagesDir'
    <3>1. CASE Pass2 /\ i <= Len(argv) /\ argv[i].opt = "l"
      BY <1>0, <3>1, <2>2, ConfigLogsDir DEF Pass2, DirInv
    <3>2. CASE Positional /\ i <= Len(argv) /\ ~IsOption(argv[i])
      BY <1>0, <3>2, <2>2, ConfigLogsDir DEF Positional, DirInv
    <3>3. CASE ~(Pass2 /\ i <= Len(argv) /\ argv[i].opt = "l")
               /\ ~(Positional /\ i <= Len(argv) /\ ~IsOption(argv[i]))
      BY <1>0, <1>7, <3>3 DEF Pass2, Positional, Enforce, DirInv
    <3>4. QED
      BY <3>1, <3>2, <3>3
  <2>5. QED
    BY <1>1, <2>1, <2>2, <2>3, <2>4 DEF DirInv, Parsing
<1>8. CASE Terminated /\ UNCHANGED vars
  BY <1>8, <1>2
<1>9. QED
  BY <1>2, <1>3, <1>4, <1>5, <1>6, <1>7, <1>8 DEF Next

\* "parse --images-dir first to make it available for the lua config"
\* (line 318): for every command line, every configuration file, given by
\* --gs_luafile or as a positional argument and wherever it stands relative
\* to --images-dir, is read with the images directory of the last
\* --images-dir.
THEOREM ImagesDirFirst == Spec => []ImagesDirBeforeConfig
<1>1. TypeInv /\ DirInv => ImagesDirBeforeConfig
  BY DEF TypeInv, PcSet, DirInv, ImagesDirBeforeConfig, Parsing
<1>2. QED
  BY <1>1, InitType, TypeStep, DirInit, DirStep, PTL DEF Spec

====
