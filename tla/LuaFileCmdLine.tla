---------------------------- MODULE LuaFileCmdLine ----------------------------
(***************************************************************************)
(* LuaFile_Tool's command line (src/include/greensocs/gsutils/             *)
(* luafile_tool.h, parseCommandLineWithGetOpt and config): argv is copied  *)
(* into a fixed buffer, getopt_long runs twice over the copy (first for    *)
(* --images-dir, then for every option), the positional arguments are      *)
(* configuration files, and enforce_config_file demands that one was seen. *)
(*                                                                         *)
(* An argv element is a record: the option it is (with its argument        *)
(* attached, as in --gs_luafile=f), its length in bytes, and its           *)
(* argument.  GNU getopt_long permutes argv so that every option is        *)
(* returned, in order, before optind reaches the positional arguments: so  *)
(* each pass walks argv from argv[1] on, taking the elements it reads in   *)
(* their order and passing over the others.                                *)
(***************************************************************************)
EXTENDS Naturals, Sequences

CONSTANTS
    Files,        \* configuration file names
    Dirs,         \* --images-dir arguments
    BUFFER_SIZE,  \* the size of argv_buffer (8192 in the code)
    MaxArgs,      \* bound on argc - 1
    MaxLen,       \* bound on the length of one argument
    HAS_LUA       \* whether Lua support is compiled in

ASSUME CmdLineAssumption ==
    /\ BUFFER_SIZE \in Nat /\ MaxArgs \in Nat /\ MaxLen \in Nat \ {0}
    /\ HAS_LUA \in BOOLEAN

NoDir == "NULL"

\* The forms of a --param argument: key=value, =value, key, key= and "".
ParamForms == {"kv", "v", "k", "ke", "empty"}

Elements ==
    [opt : {"l", "pos"}, len : 1..MaxLen, arg : Files] \cup
    [opt : {"i"}, len : 1..MaxLen, arg : Dirs] \cup
    [opt : {"p"}, len : 1..MaxLen, arg : ParamForms] \cup
    [opt : {"d", "h", "v", "?"}, len : 1..MaxLen, arg : {"none"}]

Argv0 == [opt |-> "prog", len |-> 1, arg |-> "none"]

\* The outcomes of config(file) (lines 125-214): read and run; load error
\* (return 1); the script raised an error, which is logged and the table
\* walk still runs (return 0); the walk failed (return -1).
ConfigOutcomes == {"ok", "loaderr", "runerr", "tableerr"}

VARIABLES
    argv,        \* the command line
    enforce,     \* enforce_config_file
    pc,          \* where parseCommandLineWithGetOpt is
    i,           \* the index of the current loop
    bufp,        \* buffer_p - argv_buffer
    imagesDir,   \* p_images_dir
    found,       \* luafile_found
    configLog    \* the config() calls: file, images dir seen, outcome

vars == <<argv, enforce, pc, i, bufp, imagesDir, found, configLog>>

IsOption(e) == e.opt # "pos"

Init ==
    /\ \E n \in 0..MaxArgs : \E s \in [1..n -> Elements] : argv = <<Argv0>> \o s
    /\ enforce \in BOOLEAN
    /\ pc = "copy" /\ i = 1 /\ bufp = 0
    /\ imagesDir = NoDir /\ found = FALSE /\ configLog = <<>>

-----------------------------------------------------------------------------

\* One iteration of the copy loop (lines 286-291): strcpy writes len + 1
\* bytes at buffer_p.
CopyArg ==
    /\ pc = "copy" /\ i <= Len(argv)
    /\ bufp' = bufp + argv[i].len + 1
    /\ i' = i + 1
    /\ UNCHANGED <<argv, enforce, pc, imagesDir, found, configLog>>

\* Mutant: the overflow test is off by one.
CopyDone_OffByOne ==
    /\ pc = "copy" /\ i > Len(argv)
    /\ pc' = IF bufp >= BUFFER_SIZE THEN "overflow" ELSE "pass1"
    /\ i' = 2
    /\ UNCHANGED <<argv, enforce, bufp, imagesDir, found, configLog>>

\* The check of lines 294-296, after the loop.
CopyDone ==
    /\ pc = "copy" /\ i > Len(argv)
    /\ pc' = IF bufp > BUFFER_SIZE THEN "overflow" ELSE "pass1"
    /\ i' = 2
    /\ UNCHANGED <<argv, enforce, bufp, imagesDir, found, configLog>>

\* Mutant: the first pass is dropped; --images-dir is seen only after the
\* files before it were read.
Pass1_Skip ==
    /\ pc = "pass1"
    /\ pc' = "pass2" /\ i' = 2
    /\ UNCHANGED <<argv, enforce, bufp, imagesDir, found, configLog>>

\* The first getopt_long loop (lines 319-333): each --images-dir replaces
\* p_images_dir; every other option is skipped.
Pass1 ==
    /\ pc = "pass1"
    /\ IF i <= Len(argv)
       THEN /\ imagesDir' = IF argv[i].opt = "i" THEN argv[i].arg ELSE imagesDir
            /\ i' = i + 1 /\ UNCHANGED pc
       ELSE /\ pc' = "pass2" /\ i' = 2 /\ UNCHANGED imagesDir
    /\ UNCHANGED <<argv, enforce, bufp, found, configLog>>

\* config(file): without Lua support it is SCP_FATAL; otherwise the file
\* is loaded with the images directory known at this moment.
Config(f, next) ==
    IF HAS_LUA
    THEN \E o \in ConfigOutcomes :
            /\ configLog' = Append(configLog, [file |-> f, dir |-> imagesDir, out |-> o])
            /\ pc' = next
    ELSE pc' = "fatal" /\ UNCHANGED configLog

\* --param (lines 349-362): getline up to '=' finds no name only in an
\* empty argument, and the value is missing when nothing follows the '='.
ParamFatal(form) == form \in {"k", "ke", "empty"}

\* The second getopt_long loop (lines 337-374): the switch on the option,
\* with the positional arguments passed over.
Pass2 ==
    /\ pc = "pass2"
    /\ IF i > Len(argv)
       THEN pc' = "pos" /\ i' = 2 /\ UNCHANGED <<found, configLog>>
       ELSE LET e == argv[i] IN
            /\ i' = i + 1
            /\ IF e.opt = "l" THEN Config(e.arg, "pass2") /\ found' = TRUE
               ELSE IF e.opt = "p"
               THEN /\ pc' = (IF ParamFatal(e.arg) THEN "fatal" ELSE "pass2")
                    /\ UNCHANGED <<found, configLog>>
               ELSE IF e.opt = "?" THEN pc' = "exit" /\ UNCHANGED <<found, configLog>>
               ELSE UNCHANGED <<pc, found, configLog>>  \* d, h, v, i; positional
    /\ UNCHANGED <<argv, enforce, bufp, imagesDir>>

\* The positional configuration files (lines 376-380), which the
\* permutation left after optind in their order.
Positional ==
    /\ pc = "pos"
    /\ IF i > Len(argv)
       THEN pc' = "enforce" /\ UNCHANGED <<i, found, configLog>>
       ELSE /\ i' = i + 1
            /\ IF IsOption(argv[i]) THEN UNCHANGED <<pc, found, configLog>>
               ELSE Config(argv[i].arg, "pos") /\ found' = TRUE
    /\ UNCHANGED <<argv, enforce, bufp, imagesDir>>

\* Lines 384-387: exit(1) when a file was required and none was given.
Enforce ==
    /\ pc = "enforce"
    /\ pc' = IF enforce /\ ~found THEN "exit" ELSE "done"
    /\ UNCHANGED <<argv, enforce, i, bufp, imagesDir, found, configLog>>

Terminated == pc \in {"done", "exit", "fatal", "overflow"}

Next ==
    \/ CopyArg \/ CopyDone \/ Pass1 \/ Pass2 \/ Positional \/ Enforce
    \/ (Terminated /\ UNCHANGED vars)

Spec == Init /\ [][Next]_vars

-----------------------------------------------------------------------------
(* Properties.                                                             *)

\* The bytes the copy loop needs for argv[1..k]: each argument and its
\* terminating NUL.
NeededUpTo[k \in Nat] == IF k = 0 THEN 0 ELSE NeededUpTo[k - 1] + argv[k].len + 1
Needed == NeededUpTo[Len(argv)]

\* "Check the rare case that BUFFER_SIZE is not enough" (line 293): the
\* parse goes on past the copy exactly when every argument fits in the
\* buffer, and throws overflow_error exactly when they do not.
OverflowCheckExact ==
    /\ pc \in {"pass1", "pass2", "pos", "enforce", "done"} => Needed <= BUFFER_SIZE
    /\ pc = "overflow" => Needed > BUFFER_SIZE

\* strcpy never writes past argv_buffer.
NoBufferOverrun == bufp <= BUFFER_SIZE

\* The argument of the last --images-dir in argv[1..k], or none.
LastDirUpTo[k \in Nat] ==
    IF k = 0 THEN NoDir
    ELSE IF argv[k].opt = "i" THEN argv[k].arg ELSE LastDirUpTo[k - 1]
LastImagesDir == LastDirUpTo[Len(argv)]

\* "parse --images-dir first to make it available for the lua config"
\* (line 318): every configuration file, given by --gs_luafile or as a
\* positional argument, anywhere on the command line, is read with the
\* images directory of the last --images-dir.
ImagesDirBeforeConfig ==
    \A k \in DOMAIN configLog : configLog[k].dir = LastImagesDir

\* "fatal: missing required --gs_luafile argument" (line 385): when a
\* configuration file is required and the parse returns, one was read.
EnforcedConfigLoaded ==
    pc = "done" /\ enforce => \E k \in DOMAIN configLog : configLog[k].out # "loaderr"

====
