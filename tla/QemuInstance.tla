----------------------------- MODULE QemuInstance -----------------------------
(***************************************************************************)
(* QemuInstance and QemuInstanceManager (src/include/libqbox/              *)
(* qemu-instance.h).  sc_main creates instances with new_instance, which   *)
(* emplaces them in a std::vector and returns a reference to the element;  *)
(* CPUs bound to an instance call set_tcg_mode and set_icount_mode with    *)
(* the mode their synchronization policy needs, then get(), which          *)
(* initializes the instance on first use and builds QEMU's command line.   *)
(*                                                                         *)
(* A reference is <<index, generation>>: the generation of the vector's    *)
(* buffer when the reference was taken.  emplace_back on a full vector     *)
(* moves the elements to a new buffer (a new generation) and every older   *)
(* reference dangles.  A call through a dangling reference is undefined    *)
(* behaviour and ends the run with fault = "dangling".  A failed assert    *)
(* ends it with fault = "assert", unless the build defines NDEBUG.         *)
(***************************************************************************)
EXTENDS Naturals, Sequences

CONSTANTS
    Cpus,        \* the CPU objects that use an instance
    Mips,        \* the mips_shift values a policy may ask for
    MaxInsts,    \* bound on new_instance calls
    MaxCap,      \* bound on the capacity the vector may grow to
    NDEBUG,      \* TRUE in a release build: assert() does nothing
    ShiftText(_) \* the token "<mips>,nosleep" that push_icount_mode_args()
                 \* prints with an ostringstream

ASSUME QemuAssumption ==
    /\ Mips \subseteq Nat /\ 0 \in Mips
    /\ MaxInsts \in Nat /\ MaxCap \in Nat /\ MaxInsts <= MaxCap
    /\ NDEBUG \in BOOLEAN

TcgModes == {"TCG_UNSPECIFIED", "TCG_SINGLE", "TCG_SINGLE_COROUTINE", "TCG_MULTI"}
IcountModes == {"ICOUNT_UNSPECIFIED", "ICOUNT_OFF", "ICOUNT_ON"}

VARIABLES
    insts,      \* m_insts: one record per QemuInstance
    cap,        \* m_insts.capacity()
    gen,        \* generation of m_insts's buffer
    handles,    \* the references new_instance has returned
    pc,         \* where each CPU is
    ref,        \* the reference each CPU holds
    reqTcg,     \* the TCG mode each CPU asked for
    reqIcount,  \* the icount mode and shift each CPU asked for
    reqMips,
    fault       \* "none", "assert", "dangling"

vars == <<insts, cap, gen, handles, pc, ref, reqTcg, reqIcount, reqMips, fault>>

NoRef == <<0, 0>>

\* push_default_args() (lines 83-93); the fixed arguments are one token.
DefaultArgs == <<"defaults">>

\* The switch of push_tcg_mode_args(): the -accel value of each mode (no
\* value for TCG_UNSPECIFIED, where it asserts).
TcgAccel == [TCG_SINGLE           |-> "tcg,thread=single",
             TCG_SINGLE_COROUTINE |-> "tcg,thread=single,coroutine=on",
             TCG_MULTI            |-> "tcg,thread=multi"]

\* push_tcg_mode_args() (lines 111-131).
TcgArgs(m) == <<"-accel", TcgAccel[m]>>

\* The tokens init() and the constructor push on QEMU's command line.
ArgTokens ==
    {"defaults", "-accel", "-icount"} \cup {TcgAccel[m] : m \in DOMAIN TcgAccel}
        \cup {ShiftText(s) : s \in Mips}

\* push_icount_mode_args() (lines 95-109): nothing when icount is off.
IcountArgs(m, mips) ==
    IF m = "ICOUNT_OFF" THEN <<>> ELSE <<"-icount", ShiftText(mips)>>

\* The QemuInstance constructor (lines 134-139).
NewInst == [tcg |-> "TCG_UNSPECIFIED", icount |-> "ICOUNT_UNSPECIFIED",
            mips |-> 0, inited |-> FALSE, args |-> DefaultArgs]

Init ==
    /\ insts = <<>> /\ cap = 0 /\ gen = 0 /\ handles = {}
    /\ pc = [c \in Cpus |-> "unbound"]
    /\ ref = [c \in Cpus |-> NoRef]
    /\ reqTcg = [c \in Cpus |-> "TCG_UNSPECIFIED"]
    /\ reqIcount = [c \in Cpus |-> "ICOUNT_UNSPECIFIED"]
    /\ reqMips = [c \in Cpus |-> 0]
    /\ fault = "none"

Live == fault = "none"

-----------------------------------------------------------------------------
(* QemuInstanceManager::new_instance (lines 310-315), called by sc_main.   *)

\* emplace_back constructs in place while size() < capacity(); otherwise it
\* moves every element to a larger buffer.
HasRoom == Len(insts) < cap

NewInstance ==
    /\ Live /\ Len(insts) < MaxInsts
    /\ insts' = Append(insts, NewInst)
    /\ IF HasRoom
       THEN UNCHANGED <<cap, gen>>
       ELSE /\ cap' \in (Len(insts) + 1)..MaxCap
            /\ gen' = gen + 1
    /\ handles' = handles \cup {<<Len(insts) + 1, gen'>>}
    /\ UNCHANGED <<pc, ref, reqTcg, reqIcount, reqMips, fault>>

\* A CPU is handed one of the references sc_main holds.
Bind(c, h) ==
    /\ Live /\ pc[c] = "unbound"
    /\ pc' = [pc EXCEPT ![c] = "bound"]
    /\ ref' = [ref EXCEPT ![c] = h]
    /\ UNCHANGED <<insts, cap, gen, handles, reqTcg, reqIcount, reqMips, fault>>

Dangles(c) == ref[c][2] # gen

\* A call through a reference: a dangling one is the end of the run.
CallThrough(c, from, Body) ==
    /\ Live /\ pc[c] = from
    /\ IF Dangles(c)
       THEN /\ fault' = "dangling"
            /\ UNCHANGED <<insts, cap, gen, handles, pc, ref, reqTcg, reqIcount, reqMips>>
       ELSE /\ Body
            /\ UNCHANGED <<cap, gen, handles, ref>>

-----------------------------------------------------------------------------
(* QemuInstance::set_tcg_mode (lines 155-168).                             *)

\* Mutant: the mode mismatch check is dropped; a later call overwrites the
\* mode.
TcgMismatch_Dropped(i, m) == FALSE

\* Lines 163-165: a mode was set already and this one differs.
TcgMismatch(i, m) == insts[i].tcg # "TCG_UNSPECIFIED" /\ m # insts[i].tcg

SetTcgModeBody(c, i, m) ==
    /\ reqTcg' = [reqTcg EXCEPT ![c] = m]
    /\ UNCHANGED <<reqIcount, reqMips>>
    /\ IF insts[i].inited /\ ~NDEBUG            \* assert(!is_inited())
       THEN fault' = "assert" /\ UNCHANGED <<insts, pc>>
       ELSE IF m = "TCG_UNSPECIFIED"           \* return
       THEN pc' = [pc EXCEPT ![c] = "tcgset"] /\ UNCHANGED <<insts, fault>>
       ELSE IF TcgMismatch(i, m)               \* throw
       THEN pc' = [pc EXCEPT ![c] = "failed"] /\ UNCHANGED <<insts, fault>>
       ELSE /\ insts' = [insts EXCEPT ![i].tcg = m]
            /\ pc' = [pc EXCEPT ![c] = "tcgset"]
            /\ UNCHANGED fault

SetTcgMode(c, m) == CallThrough(c, "bound", SetTcgModeBody(c, ref[c][1], m))

-----------------------------------------------------------------------------
(* QemuInstance::set_icount_mode (lines 184-202).                          *)

\* Mutant: the mips_shift comparison of lines 196-198 is dropped.
IcountMismatch_NoMipsCheck(i, m, s) ==
    insts[i].icount # "ICOUNT_UNSPECIFIED" /\ m # insts[i].icount

\* Lines 192-198: an icount mode was set already and this one, or its
\* shift, differs.
IcountMismatch(i, m, s) ==
    insts[i].icount # "ICOUNT_UNSPECIFIED" /\ (m # insts[i].icount \/ s # insts[i].mips)

SetIcountModeBody(c, i, m, s) ==
    /\ reqIcount' = [reqIcount EXCEPT ![c] = m]
    /\ reqMips' = [reqMips EXCEPT ![c] = s]
    /\ UNCHANGED reqTcg
    /\ IF insts[i].inited /\ ~NDEBUG            \* assert(!is_inited())
       THEN fault' = "assert" /\ UNCHANGED <<insts, pc>>
       ELSE IF m = "ICOUNT_UNSPECIFIED"        \* return
       THEN pc' = [pc EXCEPT ![c] = "icountset"] /\ UNCHANGED <<insts, fault>>
       ELSE IF IcountMismatch(i, m, s)         \* throw
       THEN pc' = [pc EXCEPT ![c] = "failed"] /\ UNCHANGED <<insts, fault>>
       ELSE /\ insts' = [insts EXCEPT ![i].icount = m, ![i].mips = s]
            /\ pc' = [pc EXCEPT ![c] = "icountset"]
            /\ UNCHANGED fault

SetIcountMode(c, m, s) ==
    CallThrough(c, "tcgset", SetIcountModeBody(c, ref[c][1], m, s))

-----------------------------------------------------------------------------
(* QemuInstance::get (lines 253-260) and init (lines 213-236).             *)

\* init(): unspecified modes take their defaults, then the -accel and
\* -icount arguments are pushed and QEMU is started.
InitInst(r) ==
    LET tcg == IF r.tcg = "TCG_UNSPECIFIED" THEN "TCG_SINGLE" ELSE r.tcg
        ic  == IF r.icount = "ICOUNT_UNSPECIFIED" THEN "ICOUNT_OFF" ELSE r.icount
    IN [r EXCEPT !.tcg = tcg, !.icount = ic, !.inited = TRUE,
                 !.args = @ \o TcgArgs(tcg) \o IcountArgs(ic, r.mips)]

GetBody(c, i) ==
    /\ insts' = IF insts[i].inited THEN insts ELSE [insts EXCEPT ![i] = InitInst(@)]
    /\ pc' = [pc EXCEPT ![c] = "running"]
    /\ UNCHANGED <<reqTcg, reqIcount, reqMips, fault>>

Get(c) == CallThrough(c, "icountset", GetBody(c, ref[c][1]))

-----------------------------------------------------------------------------

\* Elaboration is over: every CPU runs or has thrown, and no more
\* instances are created; the simulation goes on without these objects.
Configured ==
    /\ Live /\ Len(insts) = MaxInsts
    /\ \A c \in Cpus : pc[c] \in {"running", "failed"}
    /\ UNCHANGED vars

Next ==
    \/ NewInstance
    \/ \E c \in Cpus, h \in handles : Bind(c, h)
    \/ \E c \in Cpus, m \in TcgModes : SetTcgMode(c, m)
    \/ \E c \in Cpus, m \in IcountModes, s \in Mips : SetIcountMode(c, m, s)
    \/ \E c \in Cpus : Get(c)
    \/ Configured
    \/ (~Live /\ UNCHANGED vars)

Spec == Init /\ [][Next]_vars

-----------------------------------------------------------------------------
(* Properties.                                                             *)

TypeOK ==
    /\ insts \in Seq([tcg : TcgModes, icount : IcountModes, mips : Mips,
                      inited : BOOLEAN, args : Seq(ArgTokens)])
    /\ Len(insts) <= cap /\ cap <= MaxCap
    /\ handles \subseteq (1..Len(insts)) \X (1..gen)
    /\ pc \in [Cpus -> {"unbound", "bound", "tcgset", "icountset", "running", "failed"}]
    /\ ref \in [Cpus -> Nat \X Nat]
    /\ \A c \in Cpus : pc[c] # "unbound" => ref[c] \in handles
    /\ reqTcg \in [Cpus -> TcgModes]
    /\ reqIcount \in [Cpus -> IcountModes]
    /\ reqMips \in [Cpus -> Mips]
    /\ fault \in {"none", "assert", "dangling"}

Holds(c) == pc[c] \in {"tcgset", "icountset", "running"} /\ ~Dangles(c)

\* "All CPUs should use the same mode" (the comments of set_tcg_mode and
\* set_icount_mode): a CPU whose calls returned without an exception runs
\* its instance in the TCG mode, icount mode and shift it asked for, whatever
\* other CPUs asked for before or after it and whenever get() initialized it.
AgreedMode ==
    \A c \in Cpus : Holds(c) =>
        LET r == insts[ref[c][1]] IN
        /\ reqTcg[c] # "TCG_UNSPECIFIED" => r.tcg = reqTcg[c]
        /\ pc[c] # "tcgset" /\ reqIcount[c] # "ICOUNT_UNSPECIFIED" =>
              r.icount = reqIcount[c] /\ r.mips = reqMips[c]

\* The command line QEMU was started with encodes the modes the instance
\* reports afterwards, even in a release build where the asserts of
\* set_tcg_mode and set_icount_mode against late calls are compiled out.
ArgsMatchMode ==
    \A i \in 1..Len(insts) : insts[i].inited =>
        insts[i].args = DefaultArgs \o TcgArgs(insts[i].tcg)
                                    \o IcountArgs(insts[i].icount, insts[i].mips)

\* The reference new_instance returns stays usable: no CPU ever calls into
\* an instance through a reference the vector's growth has invalidated.
NoDanglingUse == fault # "dangling"

====
