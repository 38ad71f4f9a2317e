------------------------- MODULE QemuInstanceProofs -------------------------
(***************************************************************************)
(* Proofs about QemuInstance: the type invariant, the agreement of the     *)
(* modes the CPUs asked for, and the command line built by init().         *)
(***************************************************************************)
EXTENDS QemuInstance, SequenceTheorems, TLAPS

USE QemuAssumption

\* One element of m_insts.
InstRec == [tcg : TcgModes, icount : IcountModes, mips : Mips,
            inited : BOOLEAN, args : Seq(ArgTokens)]

PcSet == {"unbound", "bound", "tcgset", "icountset", "running", "failed"}

\* The part of TypeOK about the vector and the references it returned.
TypeStore ==
    /\ insts \in Seq(InstRec)
    /\ cap \in Nat /\ gen \in Nat
    /\ Len(insts) <= cap /\ cap <= MaxCap
    /\ handles \subseteq (1..Len(insts)) \X (1..gen)

\* The part of TypeOK about the CPUs.
TypeCpus ==
    /\ pc \in [Cpus -> PcSet]
    /\ ref \in [Cpus -> Nat \X Nat]
    /\ \A c \in Cpus : pc[c] # "unbound" => ref[c] \in handles
    /\ reqTcg \in [Cpus -> TcgModes]
    /\ reqIcount \in [Cpus -> IcountModes]
    /\ reqMips \in [Cpus -> Mips]
    /\ fault \in {"none", "assert", "dangling"}

\* The strengthening of TypeOK: before the first reallocation the capacity
\* is zero, so a reference new_instance returns always has a generation of
\* at least one.
TypeInv == TypeStore /\ TypeCpus /\ (gen = 0 => cap = 0)

LEMMA TypeParts == TypeStore /\ TypeCpus => TypeOK
BY DEF TypeStore, TypeCpus, TypeOK, InstRec, PcSet

\* A CPU past Bind holds a reference to an element of the vector.
LEMMA RefInRange ==
    ASSUME TypeInv, NEW c \in Cpus, pc[c] # "unbound"
    PROVE  /\ ref[c][1] \in 1..Len(insts)
           /\ ref[c][2] \in 1..gen
BY DEF TypeInv, TypeStore, TypeCpus

\* push_tcg_mode_args() and push_icount_mode_args() push command-line tokens.
LEMMA ModeArgsType ==
    ASSUME NEW m \in TcgModes \ {"TCG_UNSPECIFIED"}, NEW k \in IcountModes,
           NEW s \in Mips
    PROVE  /\ TcgArgs(m) \in Seq(ArgTokens)
           /\ IcountArgs(k, s) \in Seq(ArgTokens)
<1>1. TcgAccel[m] \in ArgTokens
  BY DEF TcgAccel, TcgModes, ArgTokens
<1>2. "-accel" \in ArgTokens /\ "-icount" \in ArgTokens /\ ShiftText(s) \in ArgTokens
  BY DEF ArgTokens
<1>3. QED
  BY <1>1, <1>2 DEF TcgArgs, IcountArgs

\* init() turns an element into an element.
LEMMA InitInstType ==
    ASSUME NEW r \in InstRec PROVE InitInst(r) \in InstRec
<1> DEFINE tcg == IF r.tcg = "TCG_UNSPECIFIED" THEN "TCG_SINGLE" ELSE r.tcg
           ic  == IF r.icount = "ICOUNT_UNSPECIFIED" THEN "ICOUNT_OFF" ELSE r.icount
<1>1. tcg \in TcgModes \ {"TCG_UNSPECIFIED"} /\ ic \in IcountModes
  BY DEF InstRec, TcgModes, IcountModes
<1>2. r.args \o TcgArgs(tcg) \o IcountArgs(ic, r.mips) \in Seq(ArgTokens)
  <2>1. TcgArgs(tcg) \in Seq(ArgTokens) /\ IcountArgs(ic, r.mips) \in Seq(ArgTokens)
    BY <1>1, ModeArgsType DEF InstRec
  <2>2. QED
    BY <2>1, ConcatProperties DEF InstRec
<1>3. QED
  BY <1>1, <1>2 DEF InitInst, InstRec

\* Replacing one element of the vector by an element keeps its type and
\* its length.
LEMMA ReplaceInst ==
    ASSUME TypeStore, NEW i \in 1..Len(insts), NEW r \in InstRec
    PROVE  /\ [insts EXCEPT ![i] = r] \in Seq(InstRec)
           /\ Len([insts EXCEPT ![i] = r]) = Len(insts)
BY ExceptSeq DEF TypeStore

\* A step that keeps the vector keeps TypeStore.
LEMMA StoreFrame ==
    ASSUME TypeStore, UNCHANGED <<insts, cap, gen, handles>>
    PROVE  TypeStore'
BY DEF TypeStore

\* The constructor builds an element.
LEMMA NewInstType == NewInst \in InstRec
BY DEF NewInst, InstRec, DefaultArgs, ArgTokens, TcgModes, IcountModes

\* A call through a reference moves only its CPU, to one of its states, and
\* replaces at most the element the CPU refers to.
CallShape(c) ==
    LET i == ref[c][1] IN
    /\ pc[c] # "unbound"
    /\ UNCHANGED <<cap, gen, handles, ref>>
    /\ pc' = [pc EXCEPT ![c] = pc'[c]] /\ pc'[c] \in PcSet \ {"unbound"}
    /\ insts' = [insts EXCEPT ![i] = insts'[i]] /\ insts'[i] \in InstRec
    /\ reqTcg' \in [Cpus -> TcgModes]
    /\ reqIcount' \in [Cpus -> IcountModes]
    /\ reqMips' \in [Cpus -> Mips]
    /\ fault' \in {"none", "assert", "dangling"}

\* The facts every branch of a call establishes give its shape.
LEMMA ShapeIntro ==
    ASSUME TypeInv, NEW c \in Cpus, pc[c] # "unbound",
           UNCHANGED <<cap, gen, handles, ref>>,
           NEW v \in PcSet \ {"unbound"}, pc' = pc \/ pc' = [pc EXCEPT ![c] = v],
           NEW r \in InstRec,
           insts' = insts \/ insts' = [insts EXCEPT ![ref[c][1]] = r],
           reqTcg' \in [Cpus -> TcgModes], reqIcount' \in [Cpus -> IcountModes],
           reqMips' \in [Cpus -> Mips], fault' \in {"none", "assert", "dangling"}
    PROVE  CallShape(c)
<1> DEFINE i == ref[c][1]
<1>1. i \in 1..Len(insts) /\ insts[i] \in InstRec /\ insts \in [1..Len(insts) -> InstRec]
  BY RefInRange, ElementOfSeq, LenProperties DEF TypeInv, TypeStore
<1>2. pc' = [pc EXCEPT ![c] = pc'[c]] /\ pc'[c] \in PcSet \ {"unbound"}
  BY DEF TypeInv, TypeCpus
<1>3. insts' = [insts EXCEPT ![i] = insts'[i]] /\ insts'[i] \in InstRec
  <2>1. CASE insts' = insts
    <3>1. [insts EXCEPT ![i] = insts[i]] = insts
      BY <1>1
    <3>2. QED
      BY <1>1, <2>1, <3>1
  <2>2. CASE insts' = [insts EXCEPT ![i] = r]
    BY <1>1, <2>2
  <2>3. QED
    BY <2>1, <2>2
<1>4. QED
  BY <1>2, <1>3 DEF CallShape

\* The three calls of a CPU, in every branch of their code, have that shape.
LEMMA SetTcgShape ==
    ASSUME TypeInv, NEW c \in Cpus, NEW m \in TcgModes, SetTcgMode(c, m)
    PROVE  CallShape(c)
<1> DEFINE i == ref[c][1]
<1>0. pc[c] = "bound" /\ fault = "none"
  BY DEF SetTcgMode, CallThrough, Live
<1>1. /\ i \in 1..Len(insts) /\ insts[i] \in InstRec
      /\ [insts[i] EXCEPT !.tcg = m] \in InstRec
      /\ pc[c] = "bound" /\ fault = "none"
  <2>1. i \in 1..Len(insts)
    BY <1>0, RefInRange
  <2>2. insts[i] \in InstRec
    BY <2>1, ElementOfSeq DEF TypeInv, TypeStore
  <2>3. QED
    BY <1>0, <2>1, <2>2 DEF InstRec
<1>2. CASE Dangles(c)
  BY <1>1, <1>2, ShapeIntro DEF SetTcgMode, CallThrough, TypeInv, TypeCpus, PcSet
<1>3. CASE ~Dangles(c)
  <2>1. /\ SetTcgModeBody(c, i, m) /\ UNCHANGED <<cap, gen, handles, ref>>
        /\ reqTcg' \in [Cpus -> TcgModes] /\ UNCHANGED <<reqIcount, reqMips>>
    BY <1>3 DEF SetTcgMode, CallThrough, SetTcgModeBody, TypeInv, TypeCpus
  <2>2. CASE insts[i].inited /\ ~NDEBUG
    BY <1>1, <2>1, <2>2, ShapeIntro DEF SetTcgModeBody, TypeInv, TypeCpus, PcSet
  <2>3. CASE ~(insts[i].inited /\ ~NDEBUG) /\ m = "TCG_UNSPECIFIED"
    BY <1>1, <2>1, <2>3, ShapeIntro DEF SetTcgModeBody, TypeInv, TypeCpus, PcSet
  <2>4. CASE ~(insts[i].inited /\ ~NDEBUG) /\ m # "TCG_UNSPECIFIED" /\ TcgMismatch(i, m)
    BY <1>1, <2>1, <2>4, ShapeIntro DEF SetTcgModeBody, TypeInv, TypeCpus, PcSet
  <2>5. CASE ~(insts[i].inited /\ ~NDEBUG) /\ m # "TCG_UNSPECIFIED" /\ ~TcgMismatch(i, m)
    <3>1. /\ insts' = [insts EXCEPT ![i] = [insts[i] EXCEPT !.tcg = m]]
          /\ pc' = [pc EXCEPT ![c] = "tcgset"] /\ fault' = fault
      BY <2>1, <2>5 DEF SetTcgModeBody
    <3>2. QED
      BY <1>1, <2>1, <3>1, ShapeIntro DEF TypeInv, TypeCpus, PcSet
  <2>6. QED
    BY <2>2, <2>3, <2>4, <2>5
<1>4. QED
  BY <1>2, <1>3

LEMMA SetIcountShape ==
    ASSUME TypeInv, NEW c \in Cpus, NEW m \in IcountModes, NEW s \in Mips,
           SetIcountMode(c, m, s)
    PROVE  CallShape(c)
<1> DEFINE i == ref[c][1]
<1>0. pc[c] = "tcgset" /\ fault = "none"
  BY DEF SetIcountMode, CallThrough, Live
<1>1. /\ i \in 1..Len(insts) /\ insts[i] \in InstRec
      /\ [insts[i] EXCEPT !.icount = m, !.mips = s] \in InstRec
      /\ pc[c] = "tcgset" /\ fault = "none"
  <2>1. i \in 1..Len(insts)
    BY <1>0, RefInRange
  <2>2. insts[i] \in InstRec
    BY <2>1, ElementOfSeq DEF TypeInv, TypeStore
  <2>3. QED
    BY <1>0, <2>1, <2>2 DEF InstRec
<1>2. CASE Dangles(c)
  BY <1>1, <1>2, ShapeIntro DEF SetIcountMode, CallThrough, TypeInv, TypeCpus, PcSet
<1>3. CASE ~Dangles(c)
  <2>1. /\ SetIcountModeBody(c, i, m, s) /\ UNCHANGED <<cap, gen, handles, ref>>
        /\ reqIcount' \in [Cpus -> IcountModes] /\ reqMips' \in [Cpus -> Mips]
        /\ UNCHANGED reqTcg
    BY <1>3 DEF SetIcountMode, CallThrough, SetIcountModeBody, TypeInv, TypeCpus
  <2>2. CASE insts[i].inited /\ ~NDEBUG
    BY <1>1, <2>1, <2>2, ShapeIntro DEF SetIcountModeBody, TypeInv, TypeCpus, PcSet
  <2>3. CASE ~(insts[i].inited /\ ~NDEBUG) /\ m = "ICOUNT_UNSPECIFIED"
    BY <1>1, <2>1, <2>3, ShapeIntro DEF SetIcountModeBody, TypeInv, TypeCpus, PcSet
  <2>4. CASE ~(insts[i].inited /\ ~NDEBUG) /\ m # "ICOUNT_UNSPECIFIED" /\ IcountMismatch(i, m, s)
    BY <1>1, <2>1, <2>4, ShapeIntro DEF SetIcountModeBody, TypeInv, TypeCpus, PcSet
  <2>5. CASE ~(insts[i].inited /\ ~NDEBUG) /\ m # "ICOUNT_UNSPECIFIED" /\ ~IcountMismatch(i, m, s)
    <3>1. /\ insts' = [insts EXCEPT ![i] = [insts[i] EXCEPT !.icount = m, !.mips = s]]
          /\ pc' = [pc EXCEPT ![c] = "icountset"] /\ fault' = fault
      BY <2>1, <2>5 DEF SetIcountModeBody
    <3>2. QED
      BY <1>1, <2>1, <3>1, ShapeIntro DEF TypeInv, TypeCpus, PcSet
  <2>6. QED
    BY <2>2, <2>3, <2>4, <2>5
<1>4. QED
  BY <1>2, <1>3

LEMMA GetShape ==
    ASSUME TypeInv, NEW c \in Cpus, Get(c)
    PROVE  CallShape(c)
<1> DEFINE i == ref[c][1]
<1>1. /\ i \in 1..Len(insts) /\ insts[i] \in InstRec
      /\ InitInst(insts[i]) \in InstRec
      /\ pc[c] = "icountset" /\ fault = "none"
  BY RefInRange, ElementOfSeq, InitInstType DEF Get, CallThrough, Live, TypeInv, TypeStore
<1>2. CASE Dangles(c)
  BY <1>1, <1>2, ShapeIntro DEF Get, CallThrough, TypeInv, TypeCpus, PcSet
<1>3. CASE ~Dangles(c)
  <2>1. /\ GetBody(c, i) /\ UNCHANGED <<cap, gen, handles, ref>>
        /\ UNCHANGED <<reqTcg, reqIcount, reqMips, fault>>
    BY <1>3 DEF Get, CallThrough, GetBody
  <2>2. insts' = insts \/ insts' = [insts EXCEPT ![i] = InitInst(insts[i])]
    BY <2>1 DEF GetBody
  <2>3. QED
    BY <1>1, <2>1, <2>2, ShapeIntro DEF GetBody, TypeInv, TypeCpus, PcSet
<1>4. QED
  BY <1>2, <1>3

\* A call of that shape keeps TypeInv.
LEMMA CallKeepsType ==
    ASSUME TypeInv, NEW c \in Cpus, CallShape(c)
    PROVE  TypeInv'
<1> DEFINE i == ref[c][1]
<1>1. i \in 1..Len(insts)
  BY RefInRange DEF CallShape
<1>2. insts' \in Seq(InstRec) /\ Len(insts') = Len(insts)
  BY <1>1, ReplaceInst DEF CallShape, TypeInv
<1>3. TypeStore' /\ (gen' = 0 => cap' = 0)
  BY <1>2 DEF CallShape, TypeInv, TypeStore
<1>4. pc' \in [Cpus -> PcSet]
  BY DEF CallShape, TypeInv, TypeCpus
<1>5. \A d \in Cpus : pc'[d] # "unbound" => ref'[d] \in handles'
  BY DEF CallShape, TypeInv, TypeCpus
<1>6. QED
  BY <1>3, <1>4, <1>5 DEF CallShape, TypeInv, TypeCpus

\* TypeInv holds in every state.
LEMMA TypeInvHolds == Spec => []TypeInv
<1>1. Init => TypeInv
  <2> SUFFICES ASSUME Init PROVE TypeInv
    OBVIOUS
  <2>1. TypeStore /\ (gen = 0 => cap = 0)
    BY EmptySeq DEF Init, TypeStore
  <2>2. pc \in [Cpus -> PcSet] /\ ref \in [Cpus -> Nat \X Nat]
    BY DEF Init, PcSet, NoRef
  <2>3. /\ reqTcg \in [Cpus -> TcgModes] /\ reqIcount \in [Cpus -> IcountModes]
        /\ reqMips \in [Cpus -> Mips]
    BY DEF Init, TcgModes, IcountModes
  <2>4. QED
    BY <2>1, <2>2, <2>3 DEF Init, TypeInv, TypeCpus
<1>2. TypeInv /\ [Next]_vars => TypeInv'
  <2> SUFFICES ASSUME TypeInv, [Next]_vars PROVE TypeInv'
    OBVIOUS
  <2>1. CASE NewInstance
    <3>1. insts' \in Seq(InstRec) /\ Len(insts') = Len(insts) + 1
      BY <2>1, NewInstType, AppendProperties DEF NewInstance, TypeInv, TypeStore
    <3>2. /\ cap' \in Nat /\ gen' \in Nat /\ Len(insts') <= cap' /\ cap' <= MaxCap
          /\ gen' # 0 /\ gen <= gen'
      BY <2>1, <3>1 DEF NewInstance, HasRoom, TypeInv, TypeStore
    <3>3. handles' \subseteq (1..Len(insts')) \X (1..gen')
      BY <2>1, <3>1, <3>2 DEF NewInstance, TypeInv, TypeStore
    <3>4. QED
      BY <2>1, <3>1, <3>2, <3>3 DEF NewInstance, TypeInv, TypeStore, TypeCpus
  <2>2. ASSUME NEW c \in Cpus, NEW h \in handles, Bind(c, h) PROVE TypeInv'
    <3>1. pc' \in [Cpus -> PcSet] /\ fault' = fault
      BY <2>2 DEF Bind, TypeInv, TypeCpus, PcSet
    <3>2. \A d \in Cpus : pc'[d] # "unbound" => ref'[d] \in handles'
      BY <2>2 DEF Bind, TypeInv, TypeCpus
    <3>3. TypeStore' /\ (gen' = 0 => cap' = 0)
      BY <2>2, StoreFrame DEF Bind, TypeInv
    <3>4. ref' \in [Cpus -> Nat \X Nat]
      BY <2>2 DEF Bind, TypeInv, TypeCpus, TypeStore
    <3>5. QED
      BY <2>2, <3>1, <3>2, <3>3, <3>4 DEF Bind, TypeInv, TypeCpus
  <2>3. ASSUME NEW c \in Cpus, NEW m \in TcgModes, SetTcgMode(c, m) PROVE TypeInv'
    BY <2>3, SetTcgShape, CallKeepsType
  <2>4. ASSUME NEW c \in Cpus, NEW m \in IcountModes, NEW s \in Mips,
               SetIcountMode(c, m, s)
        PROVE  TypeInv'
    BY <2>4, SetIcountShape, CallKeepsType
  <2>5. ASSUME NEW c \in Cpus, Get(c) PROVE TypeInv'
    BY <2>5, GetShape, CallKeepsType
  <2>6. CASE Configured \/ (~Live /\ UNCHANGED vars) \/ UNCHANGED vars
    BY <2>6 DEF Configured, vars, TypeInv, TypeStore, TypeCpus
  <2>7. QED
    BY <2>1, <2>2, <2>3, <2>4, <2>5, <2>6 DEF Next
<1>3. QED
  BY <1>1, <1>2, PTL DEF Spec

\* The type invariant of the instance manager holds in every state: the
\* vector never exceeds its capacity, and every reference a CPU holds was
\* returned by new_instance for an element of the vector.
THEOREM TypeCorrect == Spec => []TypeOK
BY TypeInvHolds, TypeParts, PTL DEF TypeInv

-----------------------------------------------------------------------------
(* All CPUs of an instance agree on its modes.                             *)

\* What AgreedMode says of one CPU c and the element r it refers to.
AgreedFor(c, r) ==
    /\ reqTcg[c] # "TCG_UNSPECIFIED" => r.tcg = reqTcg[c]
    /\ pc[c] # "tcgset" /\ reqIcount[c] # "ICOUNT_UNSPECIFIED" =>
          r.icount = reqIcount[c] /\ r.mips = reqMips[c]

LEMMA AgreedDef ==
    AgreedMode <=> \A c \in Cpus : Holds(c) => AgreedFor(c, insts[ref[c][1]])
BY DEF AgreedMode, AgreedFor

\* A step that keeps the vector, the CPUs and their requests keeps
\* AgreedMode; a dangling reference never comes back.
LEMMA AgreedFrame ==
    ASSUME AgreedMode, UNCHANGED <<insts, pc, ref, reqTcg, reqIcount, reqMips>>,
           gen' = gen
    PROVE  AgreedMode'
BY DEF AgreedMode, Holds, Dangles

\* new_instance appends an element; a CPU's element is unchanged, and a
\* reallocation only makes references dangle.
LEMMA AgreedNewInstance ==
    ASSUME TypeInv, AgreedMode, NewInstance PROVE AgreedMode'
<1> SUFFICES ASSUME NEW c \in Cpus, Holds(c)' PROVE AgreedFor(c, insts[ref[c][1]])'
  BY DEF AgreedMode, AgreedFor
<1>1. UNCHANGED <<pc, ref, reqTcg, reqIcount, reqMips>> /\ (gen' = gen \/ gen' = gen + 1)
  BY DEF NewInstance
<1>2. pc[c] \in {"tcgset", "icountset", "running"} /\ ref[c][2] = gen'
  BY <1>1 DEF Holds, Dangles
<1>3. gen' = gen
  BY <1>1, <1>2, RefInRange DEF TypeInv, TypeStore
<1>4. Holds(c) /\ ref[c][1] \in 1..Len(insts)
  BY <1>2, <1>3, RefInRange DEF Holds, Dangles
<1>5. insts'[ref[c][1]] = insts[ref[c][1]]
  BY <1>4, NewInstType, AppendProperties DEF NewInstance, TypeInv, TypeStore
<1>6. QED
  BY <1>1, <1>4, <1>5 DEF AgreedMode, AgreedFor

\* A CPU whose requests, state and reference a step keeps, and whose
\* element keeps every mode the CPU asked for, still agrees with it.
LEMMA AgreedOther ==
    ASSUME AgreedMode, NEW d \in Cpus, Holds(d)', UNCHANGED <<ref, gen>>,
           pc'[d] = pc[d], reqTcg'[d] = reqTcg[d], reqIcount'[d] = reqIcount[d],
           reqMips'[d] = reqMips[d],
           reqTcg[d] # "TCG_UNSPECIFIED" =>
               insts'[ref[d][1]].tcg = insts[ref[d][1]].tcg,
           pc[d] # "tcgset" /\ reqIcount[d] # "ICOUNT_UNSPECIFIED" =>
               /\ insts'[ref[d][1]].icount = insts[ref[d][1]].icount
               /\ insts'[ref[d][1]].mips = insts[ref[d][1]].mips
    PROVE  AgreedFor(d, insts[ref[d][1]])'
<1>1. Holds(d)
  BY DEF Holds, Dangles
<1>2. AgreedFor(d, insts[ref[d][1]])
  BY <1>1 DEF AgreedMode, AgreedFor
<1>3. QED
  BY <1>2 DEF AgreedFor

\* set_tcg_mode: the mismatch check lets a CPU set the mode only while it
\* is unspecified or equal to its own, so no other CPU's mode changes.
LEMMA AgreedSetTcg ==
    ASSUME TypeInv, AgreedMode, NEW c \in Cpus, NEW m \in TcgModes, SetTcgMode(c, m)
    PROVE  AgreedMode'
<1> DEFINE i == ref[c][1]
<1>1. CASE Dangles(c)
  BY <1>1, AgreedFrame DEF SetTcgMode, CallThrough
<1>2. CASE ~Dangles(c)
  <2>0. /\ SetTcgModeBody(c, i, m) /\ UNCHANGED <<ref, gen>> /\ pc[c] = "bound"
        /\ i \in 1..Len(insts) /\ insts[i] \in InstRec
    <3>1. pc[c] = "bound" /\ SetTcgModeBody(c, i, m) /\ UNCHANGED <<ref, gen>>
      BY <1>2 DEF SetTcgMode, CallThrough
    <3>2. QED
      BY <3>1, RefInRange, ElementOfSeq DEF TypeInv, TypeStore
  <2>1. /\ reqTcg' = [reqTcg EXCEPT ![c] = m] /\ UNCHANGED <<reqIcount, reqMips>>
    BY <2>0 DEF SetTcgModeBody
  <2> SUFFICES ASSUME NEW d \in Cpus, Holds(d)' PROVE AgreedFor(d, insts[ref[d][1]])'
    BY DEF AgreedMode, AgreedFor
  <2>2. ASSUME d # c, pc'[d] = pc[d],
               reqTcg[d] # "TCG_UNSPECIFIED" =>
                   insts'[ref[d][1]].tcg = insts[ref[d][1]].tcg,
               insts'[ref[d][1]].icount = insts[ref[d][1]].icount,
               insts'[ref[d][1]].mips = insts[ref[d][1]].mips
        PROVE  AgreedFor(d, insts[ref[d][1]])'
    BY <2>0, <2>1, <2>2, AgreedOther DEF TypeInv, TypeCpus
  <2>3. CASE insts[i].inited /\ ~NDEBUG
    <3>1. UNCHANGED <<insts, pc>>
      BY <2>0, <2>3 DEF SetTcgModeBody
    <3>2. d # c
      BY <2>0, <3>1 DEF Holds
    <3>3. QED
      BY <2>2, <3>1, <3>2
  <2>4. CASE ~(insts[i].inited /\ ~NDEBUG) /\ m = "TCG_UNSPECIFIED"
    <3>1. insts' = insts /\ pc' = [pc EXCEPT ![c] = "tcgset"]
      BY <2>0, <2>4 DEF SetTcgModeBody
    <3>2. CASE d = c
      BY <2>1, <2>4, <3>1, <3>2 DEF AgreedFor, TypeInv, TypeCpus
    <3>3. CASE d # c
      BY <2>2, <3>1, <3>3 DEF TypeInv, TypeCpus
    <3>4. QED
      BY <3>2, <3>3
  <2>9. CASE ~(insts[i].inited /\ ~NDEBUG) /\ m # "TCG_UNSPECIFIED" /\ TcgMismatch(i, m)
    <3>1. insts' = insts /\ pc' = [pc EXCEPT ![c] = "failed"]
      BY <2>0, <2>9 DEF SetTcgModeBody
    <3>2. d # c
      BY <3>1 DEF Holds, TypeInv, TypeCpus
    <3>3. QED
      BY <2>2, <3>1, <3>2 DEF TypeInv, TypeCpus
  <2>5. CASE ~(insts[i].inited /\ ~NDEBUG) /\ m # "TCG_UNSPECIFIED" /\ ~TcgMismatch(i, m)
    <3>1. /\ insts' = [insts EXCEPT ![i] = [insts[i] EXCEPT !.tcg = m]]
          /\ pc' = [pc EXCEPT ![c] = "tcgset"]
      BY <2>0, <2>5 DEF SetTcgModeBody
    <3>2. insts'[i] = [insts[i] EXCEPT !.tcg = m]
      BY <2>0, <3>1 DEF TypeInv, TypeStore
    <3>3. CASE d = c
      BY <2>0, <2>1, <3>1, <3>2, <3>3 DEF AgreedFor, TypeInv, TypeCpus, InstRec
    <3>4. CASE d # c /\ ref[d][1] = i
      <4>0. pc'[d] = pc[d]
        BY <3>1, <3>4 DEF TypeInv, TypeCpus
      <4>1. Holds(d)
        BY <2>0, <4>0 DEF Holds, Dangles
      <4>2. AgreedFor(d, insts[i])
        BY <3>4, <4>1 DEF AgreedMode, AgreedFor
      <4>3. reqTcg[d] # "TCG_UNSPECIFIED" => m = insts[i].tcg
        BY <2>5, <4>2 DEF AgreedFor, TcgMismatch
      <4>4. /\ insts'[i].tcg = m /\ insts'[i].icount = insts[i].icount
            /\ insts'[i].mips = insts[i].mips
        BY <2>0, <3>2 DEF InstRec
      <4>5. QED
        BY <2>2, <3>4, <4>0, <4>3, <4>4
    <3>5. CASE d # c /\ ref[d][1] # i
      BY <2>2, <3>1, <3>5 DEF TypeInv, TypeCpus
    <3>6. QED
      BY <3>3, <3>4, <3>5
  <2>6. QED
    BY <2>3, <2>4, <2>5, <2>9
<1>3. QED
  BY <1>1, <1>2

\* set_icount_mode: the mismatch checks let a CPU set the mode and shift
\* only while the mode is unspecified or both equal its own.
LEMMA AgreedSetIcount ==
    ASSUME TypeInv, AgreedMode, NEW c \in Cpus, NEW m \in IcountModes,
           NEW s \in Mips, SetIcountMode(c, m, s)
    PROVE  AgreedMode'
<1> DEFINE i == ref[c][1]
<1>1. CASE Dangles(c)
  BY <1>1, AgreedFrame DEF SetIcountMode, CallThrough
<1>2. CASE ~Dangles(c)
  <2>0. /\ SetIcountModeBody(c, i, m, s) /\ UNCHANGED <<ref, gen>> /\ pc[c] = "tcgset"
        /\ i \in 1..Len(insts) /\ insts[i] \in InstRec
    <3>1. pc[c] = "tcgset" /\ SetIcountModeBody(c, i, m, s) /\ UNCHANGED <<ref, gen>>
      BY <1>2 DEF SetIcountMode, CallThrough
    <3>2. QED
      BY <3>1, RefInRange, ElementOfSeq DEF TypeInv, TypeStore
  <2>1. /\ reqIcount' = [reqIcount EXCEPT ![c] = m]
        /\ reqMips' = [reqMips EXCEPT ![c] = s] /\ UNCHANGED reqTcg
    BY <2>0 DEF SetIcountModeBody
  \* The caller held its element before the call.
  <2>7. reqTcg[c] # "TCG_UNSPECIFIED" => insts[i].tcg = reqTcg[c]
    BY <1>2, <2>0 DEF AgreedMode, AgreedFor, Holds
  <2> SUFFICES ASSUME NEW d \in Cpus, Holds(d)' PROVE AgreedFor(d, insts[ref[d][1]])'
    BY DEF AgreedMode, AgreedFor
  <2>2. ASSUME d # c, pc'[d] = pc[d],
               insts'[ref[d][1]].tcg = insts[ref[d][1]].tcg,
               pc[d] # "tcgset" /\ reqIcount[d] # "ICOUNT_UNSPECIFIED" =>
                   /\ insts'[ref[d][1]].icount = insts[ref[d][1]].icount
                   /\ insts'[ref[d][1]].mips = insts[ref[d][1]].mips
        PROVE  AgreedFor(d, insts[ref[d][1]])'
    BY <2>0, <2>1, <2>2, AgreedOther DEF TypeInv, TypeCpus
  <2>3. CASE insts[i].inited /\ ~NDEBUG
    <3>1. UNCHANGED <<insts, pc>>
      BY <2>0, <2>3 DEF SetIcountModeBody
    <3>2. CASE d = c
      BY <2>0, <2>1, <2>7, <3>1, <3>2 DEF AgreedFor
    <3>3. CASE d # c
      BY <2>2, <3>1, <3>3
    <3>4. QED
      BY <3>2, <3>3
  <2>4. CASE ~(insts[i].inited /\ ~NDEBUG) /\ m = "ICOUNT_UNSPECIFIED"
    <3>1. insts' = insts /\ pc' = [pc EXCEPT ![c] = "icountset"]
      BY <2>0, <2>4 DEF SetIcountModeBody
    <3>2. CASE d = c
      BY <2>0, <2>1, <2>4, <2>7, <3>1, <3>2 DEF AgreedFor, TypeInv, TypeCpus
    <3>3. CASE d # c
      BY <2>2, <3>1, <3>3 DEF TypeInv, TypeCpus
    <3>4. QED
      BY <3>2, <3>3
  <2>5. CASE ~(insts[i].inited /\ ~NDEBUG) /\ m # "ICOUNT_UNSPECIFIED" /\ IcountMismatch(i, m, s)
    <3>1. insts' = insts /\ pc' = [pc EXCEPT ![c] = "failed"]
      BY <2>0, <2>5 DEF SetIcountModeBody
    <3>2. d # c
      BY <3>1 DEF Holds, TypeInv, TypeCpus
    <3>3. QED
      BY <2>2, <3>1, <3>2 DEF TypeInv, TypeCpus
  <2>6. CASE ~(insts[i].inited /\ ~NDEBUG) /\ m # "ICOUNT_UNSPECIFIED" /\ ~IcountMismatch(i, m, s)
    <3>1. /\ insts' = [insts EXCEPT ![i] = [insts[i] EXCEPT !.icount = m, !.mips = s]]
          /\ pc' = [pc EXCEPT ![c] = "icountset"]
      BY <2>0, <2>6 DEF SetIcountModeBody
    <3>2. /\ insts'[i].icount = m /\ insts'[i].mips = s
          /\ insts'[i].tcg = insts[i].tcg
      BY <2>0, <3>1 DEF TypeInv, TypeStore, InstRec
    <3>3. CASE d = c
      BY <2>0, <2>1, <2>7, <3>1, <3>2, <3>3 DEF AgreedFor, TypeInv, TypeCpus
    <3>4. CASE d # c /\ ref[d][1] = i
      <4>0. pc'[d] = pc[d]
        BY <3>1, <3>4 DEF TypeInv, TypeCpus
      <4>1. Holds(d)
        BY <2>0, <4>0 DEF Holds, Dangles
      <4>2. AgreedFor(d, insts[i])
        BY <3>4, <4>1 DEF AgreedMode, AgreedFor
      <4>3. pc[d] # "tcgset" /\ reqIcount[d] # "ICOUNT_UNSPECIFIED" =>
                m = insts[i].icount /\ s = insts[i].mips
        BY <2>6, <4>2 DEF AgreedFor, IcountMismatch
      <4>4. QED
        BY <2>2, <3>2, <3>4, <4>0, <4>3
    <3>5. CASE d # c /\ ref[d][1] # i
      BY <2>2, <3>1, <3>5 DEF TypeInv, TypeCpus
    <3>6. QED
      BY <3>3, <3>4, <3>5
  <2>8. QED
    BY <2>3, <2>4, <2>5, <2>6
<1>3. QED
  BY <1>1, <1>2

\* init() keeps every mode that was set and the shift, gives the
\* unspecified ones their defaults, and pushes the arguments of the modes.
LEMMA InitInstModes ==
    ASSUME NEW r \in InstRec
    PROVE  /\ r.tcg # "TCG_UNSPECIFIED" => InitInst(r).tcg = r.tcg
           /\ r.icount # "ICOUNT_UNSPECIFIED" => InitInst(r).icount = r.icount
           /\ InitInst(r).mips = r.mips
           /\ InitInst(r).inited
           /\ InitInst(r).tcg # "TCG_UNSPECIFIED"
           /\ InitInst(r).icount # "ICOUNT_UNSPECIFIED"
           /\ InitInst(r).args = r.args \o TcgArgs(InitInst(r).tcg)
                                        \o IcountArgs(InitInst(r).icount, r.mips)
BY DEF InitInst, InstRec

\* get(): init() keeps the modes every CPU asked for.
LEMMA AgreedGet ==
    ASSUME TypeInv, AgreedMode, NEW c \in Cpus, Get(c)
    PROVE  AgreedMode'
<1> DEFINE i == ref[c][1]
<1>1. CASE Dangles(c)
  BY <1>1, AgreedFrame DEF Get, CallThrough
<1>2. CASE ~Dangles(c)
  <2>0. /\ GetBody(c, i) /\ UNCHANGED <<ref, gen>> /\ pc[c] = "icountset"
        /\ i \in 1..Len(insts) /\ insts[i] \in InstRec
    <3>1. pc[c] = "icountset" /\ GetBody(c, i) /\ UNCHANGED <<ref, gen>>
      BY <1>2 DEF Get, CallThrough
    <3>2. QED
      BY <3>1, RefInRange, ElementOfSeq DEF TypeInv, TypeStore
  <2>1. /\ UNCHANGED <<reqTcg, reqIcount, reqMips>>
        /\ pc' = [pc EXCEPT ![c] = "running"]
        /\ insts'[i] = IF insts[i].inited THEN insts[i] ELSE InitInst(insts[i])
        /\ \A j \in 1..Len(insts) : j # i => insts'[j] = insts[j]
    <3>1. UNCHANGED <<reqTcg, reqIcount, reqMips>> /\ pc' = [pc EXCEPT ![c] = "running"]
      BY <2>0 DEF GetBody
    <3>2. CASE insts[i].inited
      BY <2>0, <3>2 DEF GetBody
    <3>3. CASE ~insts[i].inited
      BY <2>0, <3>3 DEF GetBody, TypeInv, TypeStore
    <3>4. QED
      BY <3>1, <3>2, <3>3
  <2> SUFFICES ASSUME NEW d \in Cpus, Holds(d)' PROVE AgreedFor(d, insts[ref[d][1]])'
    BY DEF AgreedMode, AgreedFor
  <2>3. /\ Holds(d)
        /\ (pc'[d] = "tcgset") = (pc[d] = "tcgset")
    BY <2>0, <2>1 DEF Holds, Dangles, TypeInv, TypeCpus
  \* The element of the CPU keeps each mode that is set.
  <2>2. LET j == ref[d][1] IN
        /\ insts[j].tcg # "TCG_UNSPECIFIED" => insts'[j].tcg = insts[j].tcg
        /\ insts[j].icount # "ICOUNT_UNSPECIFIED" =>
              /\ insts'[j].icount = insts[j].icount
              /\ insts'[j].mips = insts[j].mips
    <3>0. ref[d][1] \in 1..Len(insts)
      BY <2>3, RefInRange DEF Holds
    <3>1. CASE ref[d][1] = i
      <4>1. CASE insts[i].inited
        BY <2>1, <3>1, <4>1
      <4>2. CASE ~insts[i].inited
        <5>1. insts'[i] = InitInst(insts[i])
          BY <2>1, <4>2
        <5>2. /\ insts[i].tcg # "TCG_UNSPECIFIED" => insts'[i].tcg = insts[i].tcg
              /\ insts[i].icount # "ICOUNT_UNSPECIFIED" =>
                    insts'[i].icount = insts[i].icount
              /\ insts'[i].mips = insts[i].mips
          BY <2>0, <5>1, InitInstModes
        <5>3. QED
          BY <3>1, <5>2
      <4>3. QED
        BY <4>1, <4>2
    <3>2. CASE ref[d][1] # i
      BY <2>1, <3>0, <3>2
    <3>3. QED
      BY <3>1, <3>2
  <2>4. AgreedFor(d, insts[ref[d][1]])
    BY <2>3 DEF AgreedMode, AgreedFor
  <2>5. QED
    BY <2>0, <2>1, <2>2, <2>3, <2>4 DEF AgreedFor
<1>3. QED
  BY <1>1, <1>2

\* "All CPUs should use the same mode": a CPU whose set_tcg_mode,
\* set_icount_mode and get() calls went through runs its instance in the
\* TCG mode, icount mode and shift it asked for, whatever the other CPUs
\* asked for and whenever get() initialized the instance.  TypeInv is the
\* only strengthening needed: the mismatch checks make the modes of an
\* element change only from unspecified, and init() only fills in defaults.
THEOREM ModesAgreed == Spec => []AgreedMode
<1>1. Init => AgreedMode
  BY DEF Init, AgreedMode, Holds
<1>2. TypeInv /\ AgreedMode /\ [Next]_vars => AgreedMode'
  <2> SUFFICES ASSUME TypeInv, AgreedMode, [Next]_vars PROVE AgreedMode'
    OBVIOUS
  <2>1. CASE NewInstance
    BY <2>1, AgreedNewInstance
  <2>2. ASSUME NEW c \in Cpus, NEW h \in handles, Bind(c, h) PROVE AgreedMode'
    <3>1. Holds(c)' = FALSE
      BY <2>2 DEF Bind, Holds, TypeInv, TypeCpus
    <3>2. QED
      BY <2>2, <3>1 DEF Bind, AgreedMode, Holds, Dangles, TypeInv, TypeCpus
  <2>3. ASSUME NEW c \in Cpus, NEW m \in TcgModes, SetTcgMode(c, m) PROVE AgreedMode'
    BY <2>3, AgreedSetTcg
  <2>4. ASSUME NEW c \in Cpus, NEW m \in IcountModes, NEW s \in Mips,
               SetIcountMode(c, m, s)
        PROVE  AgreedMode'
    BY <2>4, AgreedSetIcount
  <2>5. ASSUME NEW c \in Cpus, Get(c) PROVE AgreedMode'
    BY <2>5, AgreedGet
  <2>6. CASE Configured \/ (~Live /\ UNCHANGED vars) \/ UNCHANGED vars
    BY <2>6, AgreedFrame DEF Configured, vars
  <2>7. QED
    BY <2>1, <2>2, <2>3, <2>4, <2>5, <2>6 DEF Next
<1>3. QED
  BY <1>1, <1>2, TypeInvHolds, PTL DEF Spec

-----------------------------------------------------------------------------
(* The command line encodes the modes.                                     *)

\* An element's arguments: the constructor's before init(), and those of
\* its modes, neither unspecified, after.
ArgsOK(r) ==
    IF r.inited
    THEN /\ r.tcg # "TCG_UNSPECIFIED" /\ r.icount # "ICOUNT_UNSPECIFIED"
         /\ r.args = DefaultArgs \o TcgArgs(r.tcg) \o IcountArgs(r.icount, r.mips)
    ELSE r.args = DefaultArgs

\* The strengthening of ArgsMatchMode: it also says that the modes of an
\* initialized element are set, so that the mismatch checks refuse to change
\* them even where NDEBUG compiles out the asserts, and that an element not
\* yet initialized holds the constructor's arguments only.
ArgsInv == \A i \in 1..Len(insts) : ArgsOK(insts[i])

LEMMA ArgsInvMatch == ArgsInv => ArgsMatchMode
BY DEF ArgsInv, ArgsOK, ArgsMatchMode

\* Replacing one element by one whose arguments are right keeps ArgsInv.
LEMMA ArgsReplace ==
    ASSUME TypeInv, ArgsInv, NEW i \in 1..Len(insts),
           insts' = [insts EXCEPT ![i] = insts'[i]], ArgsOK(insts'[i])
    PROVE  ArgsInv'
<1>1. Len(insts') = Len(insts)
  BY ExceptSeq DEF TypeInv, TypeStore
<1>2. \A j \in 1..Len(insts) : j # i => insts'[j] = insts[j]
  OBVIOUS
<1>3. QED
  BY <1>1, <1>2 DEF ArgsInv

\* set_tcg_mode on an initialized element (possible only where NDEBUG
\* compiles the assert out) passes the mismatch check only with the mode it
\* has, and on an element not yet initialized leaves its arguments alone.
LEMMA ArgsSetTcg ==
    ASSUME TypeInv, ArgsInv, NEW c \in Cpus, NEW m \in TcgModes, SetTcgMode(c, m)
    PROVE  ArgsInv'
<1> DEFINE i == ref[c][1]
<1>1. CallShape(c) /\ i \in 1..Len(insts) /\ insts[i] \in InstRec /\ ArgsOK(insts[i])
  BY SetTcgShape, RefInRange, ElementOfSeq DEF CallShape, ArgsInv, TypeInv, TypeStore
<1>2. ArgsOK(insts'[i])
  <2>1. CASE insts' = insts
    BY <1>1, <2>1
  <2>2. CASE insts' # insts
    <3>1. /\ ~(insts[i].inited /\ ~NDEBUG) /\ m # "TCG_UNSPECIFIED" /\ ~TcgMismatch(i, m)
          /\ insts' = [insts EXCEPT ![i] = [insts[i] EXCEPT !.tcg = m]]
      BY <2>2 DEF SetTcgMode, CallThrough, SetTcgModeBody
    <3>2. insts'[i] = [insts[i] EXCEPT !.tcg = m]
      BY <1>1, <3>1 DEF TypeInv, TypeStore
    <3>3. CASE insts[i].inited
      <4>1. m = insts[i].tcg
        BY <1>1, <3>1, <3>3 DEF ArgsOK, TcgMismatch
      <4>2. insts'[i] = insts[i]
        BY <1>1, <3>2, <4>1 DEF InstRec
      <4>3. QED
        BY <1>1, <4>2
    <3>4. CASE ~insts[i].inited
      BY <1>1, <3>2, <3>4 DEF ArgsOK, InstRec
    <3>5. QED
      BY <3>3, <3>4
  <2>3. QED
    BY <2>1, <2>2
<1>3. QED
  BY <1>1, <1>2, ArgsReplace DEF CallShape

\* set_icount_mode, likewise for the icount mode and the shift.
LEMMA ArgsSetIcount ==
    ASSUME TypeInv, ArgsInv, NEW c \in Cpus, NEW m \in IcountModes, NEW s \in Mips,
           SetIcountMode(c, m, s)
    PROVE  ArgsInv'
<1> DEFINE i == ref[c][1]
<1>1. CallShape(c) /\ i \in 1..Len(insts) /\ insts[i] \in InstRec /\ ArgsOK(insts[i])
  BY SetIcountShape, RefInRange, ElementOfSeq DEF CallShape, ArgsInv, TypeInv, TypeStore
<1>2. ArgsOK(insts'[i])
  <2>1. CASE insts' = insts
    BY <1>1, <2>1
  <2>2. CASE insts' # insts
    <3>1. /\ ~(insts[i].inited /\ ~NDEBUG) /\ m # "ICOUNT_UNSPECIFIED"
          /\ ~IcountMismatch(i, m, s)
          /\ insts' = [insts EXCEPT ![i] = [insts[i] EXCEPT !.icount = m, !.mips = s]]
      BY <2>2 DEF SetIcountMode, CallThrough, SetIcountModeBody
    <3>2. insts'[i] = [insts[i] EXCEPT !.icount = m, !.mips = s]
      <4>1. insts \in [1..Len(insts) -> InstRec]
        BY LenProperties DEF TypeInv, TypeStore
      <4>2. QED
        BY <1>1, <3>1, <4>1
    <3>3. CASE insts[i].inited
      <4>1. m = insts[i].icount /\ s = insts[i].mips
        BY <1>1, <3>1, <3>3 DEF ArgsOK, IcountMismatch
      <4>2. insts'[i] = insts[i]
        BY <1>1, <3>2, <4>1 DEF InstRec
      <4>3. QED
        BY <1>1, <4>2
    <3>4. CASE ~insts[i].inited
      BY <1>1, <3>2, <3>4 DEF ArgsOK, InstRec
    <3>5. QED
      BY <3>3, <3>4
  <2>3. QED
    BY <2>1, <2>2
<1>3. QED
  BY <1>1, <1>2, ArgsReplace DEF CallShape

\* get(): init() runs on an element still holding the constructor's
\* arguments, and appends those of the modes it settles on.
LEMMA ArgsGet ==
    ASSUME TypeInv, ArgsInv, NEW c \in Cpus, Get(c)
    PROVE  ArgsInv'
<1> DEFINE i == ref[c][1]
<1>1. CallShape(c) /\ i \in 1..Len(insts) /\ insts[i] \in InstRec /\ ArgsOK(insts[i])
  BY GetShape, RefInRange, ElementOfSeq DEF CallShape, ArgsInv, TypeInv, TypeStore
<1>2. ArgsOK(insts'[i])
  <2>1. CASE insts' = insts
    BY <1>1, <2>1
  <2>2. CASE insts' # insts
    <3>1. ~insts[i].inited /\ insts' = [insts EXCEPT ![i] = InitInst(insts[i])]
      BY <2>2 DEF Get, CallThrough, GetBody
    <3>2. insts'[i] = InitInst(insts[i]) /\ insts[i].args = DefaultArgs
      BY <1>1, <3>1 DEF TypeInv, TypeStore, ArgsOK
    <3>3. QED
      BY <1>1, <3>2, InitInstModes DEF ArgsOK
  <2>3. QED
    BY <2>1, <2>2
<1>3. QED
  BY <1>1, <1>2, ArgsReplace DEF CallShape

\* The command line QEMU is started with encodes the TCG mode, the icount
\* mode and the shift the instance reports afterwards, in debug and in
\* release builds: in a release build a set_tcg_mode or set_icount_mode
\* after get() is not stopped by the assert, but the mismatch checks only
\* let it through when it asks for the modes the instance already has.
THEOREM ArgsEncodeModes == Spec => []ArgsMatchMode
<1>1. Init => ArgsInv
  BY EmptySeq DEF Init, ArgsInv
<1>2. TypeInv /\ ArgsInv /\ [Next]_vars => ArgsInv'
  <2> SUFFICES ASSUME TypeInv, ArgsInv, [Next]_vars PROVE ArgsInv'
    OBVIOUS
  <2>1. CASE NewInstance
    <3>1. insts' = Append(insts, NewInst) /\ ArgsOK(NewInst)
      BY <2>1 DEF NewInstance, NewInst, ArgsOK
    <3>2. QED
      BY <3>1, NewInstType, AppendProperties DEF ArgsInv, TypeInv, TypeStore
  <2>2. ASSUME NEW c \in Cpus, NEW h \in handles, Bind(c, h) PROVE ArgsInv'
    BY <2>2 DEF Bind, ArgsInv
  <2>3. ASSUME NEW c \in Cpus, NEW m \in TcgModes, SetTcgMode(c, m) PROVE ArgsInv'
    BY <2>3, ArgsSetTcg
  <2>4. ASSUME NEW c \in Cpus, NEW m \in IcountModes, NEW s \in Mips,
               SetIcountMode(c, m, s)
        PROVE  ArgsInv'
    BY <2>4, ArgsSetIcount
  <2>5. ASSUME NEW c \in Cpus, Get(c) PROVE ArgsInv'
    BY <2>5, ArgsGet
  <2>6. CASE Configured \/ (~Live /\ UNCHANGED vars) \/ UNCHANGED vars
    BY <2>6 DEF Configured, vars, ArgsInv
  <2>7. QED
    BY <2>1, <2>2, <2>3, <2>4, <2>5, <2>6 DEF Next
<1>3. QED
  BY <1>1, <1>2, TypeInvHolds, ArgsInvMatch, PTL DEF Spec

=============================================================================
