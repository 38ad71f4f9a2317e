------------------------ MODULE CharBackendStdioProofs ------------------------
(***************************************************************************)
(* Proofs about the stdio UART backend: the model is well typed, and the   *)
(* receive thread and the SIGINT handler, interleaved in any order,        *)
(* forward the bytes of stdin to the socket once each and in order.        *)
(***************************************************************************)
EXTENDS CharBackendStdio, FiniteSetTheorems, SequenceTheorems, TLAPS

USE StdioAssumption

QueueBytes == Chars \cup {CtrlC}

-----------------------------------------------------------------------------
(* Lemmas about DataPos and Rank, the places of the data bytes of a queue. *)

\* The data places of a queue are finitely many places of the queue.
LEMMA DataPosFinite ==
    ASSUME NEW q \in Seq(QueueBytes)
    PROVE  /\ DataPos(q) \subseteq 1..Len(q)
           /\ IsFiniteSet(DataPos(q))
<1>1. DataPos(q) \subseteq 1..Len(q)
  BY DEF DataPos
<1>2. IsFiniteSet(1..Len(q))
  BY FS_Interval
<1>3. QED
  BY <1>1, <1>2, FS_Subset

\* The rank of a data place counts it, and no more places than there are.
LEMMA RankRange ==
    ASSUME NEW q \in Seq(QueueBytes), NEW j \in DataPos(q)
    PROVE  Rank(q, j) \in 1..Cardinality(DataPos(q))
<1> DEFINE S == {d \in DataPos(q) : d <= j}
<1>1. IsFiniteSet(DataPos(q)) /\ DataPos(q) \subseteq 1..Len(q)
  BY DataPosFinite
<1>2. IsFiniteSet(S) /\ Cardinality(S) <= Cardinality(DataPos(q))
  BY <1>1, FS_Subset
<1>3. Cardinality(S) \in Nat /\ Cardinality(DataPos(q)) \in Nat
  BY <1>1, <1>2, FS_CardinalityType
<1>4. S # {}
  BY <1>1
<1>5. Cardinality(S) # 0
  BY <1>2, <1>4, FS_EmptySet
<1>6. QED
  BY <1>2, <1>3, <1>5 DEF Rank

\* Appending Ctrl-C adds no data place and changes no rank.
LEMMA AppendCtrlC ==
    ASSUME NEW q \in Seq(QueueBytes)
    PROVE  /\ DataPos(Append(q, CtrlC)) = DataPos(q)
           /\ \A j \in Nat : Rank(Append(q, CtrlC), j) = Rank(q, j)
<1>1. DataPos(Append(q, CtrlC)) = DataPos(q)
  BY DEF DataPos, IsData
<1>2. QED
  BY <1>1 DEF Rank

\* Appending a byte of stdin adds one data place, at the end, whose rank is
\* the new number of data bytes, and changes the rank of no earlier place.
LEMMA AppendData ==
    ASSUME NEW q \in Seq(QueueBytes), NEW x \in Chars
    PROVE  /\ DataPos(Append(q, x)) = DataPos(q) \cup {Len(q) + 1}
           /\ Cardinality(DataPos(Append(q, x))) = Cardinality(DataPos(q)) + 1
           /\ Rank(Append(q, x), Len(q) + 1) = Cardinality(DataPos(q)) + 1
           /\ \A j \in DataPos(q) : Rank(Append(q, x), j) = Rank(q, j)
<1> DEFINE r == Append(q, x)
<1>1. DataPos(r) = DataPos(q) \cup {Len(q) + 1}
  BY StdioAssumption DEF DataPos, IsData
<1>2. IsFiniteSet(DataPos(q)) /\ DataPos(q) \subseteq 1..Len(q)
  BY DataPosFinite
<1>3. Len(q) + 1 \notin DataPos(q)
  BY <1>2
<1>4. Cardinality(DataPos(r)) = Cardinality(DataPos(q)) + 1
  BY <1>1, <1>2, <1>3, FS_AddElement
<1>5. {d \in DataPos(r) : d <= Len(q) + 1} = DataPos(r)
  BY <1>1, <1>2
<1>6. Rank(r, Len(q) + 1) = Cardinality(DataPos(q)) + 1
  BY <1>4, <1>5 DEF Rank
<1>7. ASSUME NEW j \in DataPos(q)
      PROVE  {d \in DataPos(r) : d <= j} = {d \in DataPos(q) : d <= j}
  BY <1>1, <1>2
<1>8. \A j \in DataPos(q) : Rank(r, j) = Rank(q, j)
  BY <1>7 DEF Rank
<1>9. QED
  BY <1>1, <1>4, <1>6, <1>8

-----------------------------------------------------------------------------
(* Type correctness.                                                       *)

\* Every step of the receive thread, the destructor, the terminal and the
\* SIGINT handler keeps the variables in their types: the read position
\* stays within what was typed, and the queue holds only bytes and Ctrl-C.
LEMMA TypeStep == TypeOK /\ [Next]_vars => TypeOK'
<1> SUFFICES ASSUME TypeOK, [Next]_vars PROVE TypeOK'
  OBVIOUS
<1>1. CASE InstallHandler \/ SetId \/ Unmask \/ CheckRunning \/ EnterRead
  BY <1>1 DEF InstallHandler, SetId, Unmask, CheckRunning, EnterRead, TypeOK, RcvStates
<1>2. CASE ReadByte
  BY <1>2 DEF ReadByte, TypeOK, RcvStates
<1>3. CASE ReadEOF
  BY <1>3 DEF ReadEOF, TypeOK, RcvStates
<1>4. CASE ReadInterrupted \/ SignalLost
  BY <1>4 DEF ReadInterrupted, SignalLost, TypeOK, RcvStates
<1>5. CASE StopRunning \/ Kill \/ Join
  BY <1>5 DEF StopRunning, Kill, Join, TypeOK
<1>6. ASSUME NEW ch \in Chars, Type(ch) PROVE TypeOK'
  BY <1>6 DEF Type, TypeOK
<1>7. CASE CloseStdin
  BY <1>7 DEF CloseStdin, TypeOK
<1>8. CASE SigInt
  BY <1>8 DEF SigInt, TypeOK
<1>9. CASE UNCHANGED vars
  BY <1>9 DEF vars, TypeOK
<1>10. QED
  BY <1>1, <1>2, <1>3, <1>4, <1>5, <1>6, <1>7, <1>8, <1>9 DEF Next, RcvStep

\* The model of the backend is well typed in every reachable state.
THEOREM TypeCorrect == Spec => []TypeOK
<1>1. Init => TypeOK
  <2> SUFFICES ASSUME Init PROVE TypeOK
    OBVIOUS
  <2>1. input \in Seq(Chars) /\ queue \in Seq(Chars \cup {CtrlC})
    BY EmptySeq DEF Init
  <2>2. Len(input) = 0 /\ pos = 0
    BY DEF Init
  <2>3. Len(input) <= MaxInput /\ pos \in 0..Len(input) /\ nCtrlC \in 0..MaxCtrlC
    BY <2>2 DEF Init
  <2>4. /\ m_running \in BOOLEAN /\ pidSet \in BOOLEAN /\ masked \in BOOLEAN
        /\ sigPending \in BOOLEAN /\ eof \in BOOLEAN
        /\ rpc \in RcvStates /\ mpc \in {"sim", "kill", "join", "joined"}
        /\ c \in Chars
    BY DEF Init, RcvStates
  <2>5. QED
    BY <2>1, <2>3, <2>4 DEF TypeOK
<1>2. QED
  BY <1>1, TypeStep, PTL DEF Spec

-----------------------------------------------------------------------------
(* The bytes of stdin reach the socket once each and in order.             *)

\* A step that leaves the queue, stdin and the read position alone keeps
\* the order of the forwarded bytes.
LEMMA FwdFrame ==
    InputForwardedInOrder /\ UNCHANGED <<queue, input, pos>> => InputForwardedInOrder'
BY DEF InputForwardedInOrder, DataPos, Rank, IsData

\* Typing a byte on stdin extends input past every byte already forwarded.
LEMMA FwdType ==
    ASSUME TypeOK, InputForwardedInOrder, NEW ch \in Chars, Type(ch)
    PROVE  InputForwardedInOrder'
<1>1. queue' = queue /\ pos' = pos /\ input' = Append(input, ch)
  BY DEF Type
<1>2. ASSUME NEW j \in DataPos(queue)
      PROVE  input'[Rank(queue, j)] = input[Rank(queue, j)]
  <2>1. Rank(queue, j) \in 1..pos
    BY RankRange DEF TypeOK, QueueBytes, InputForwardedInOrder
  <2>2. pos \in 0..Len(input) /\ input \in Seq(Chars)
    BY DEF TypeOK
  <2>3. \A k \in 1..Len(input) : Append(input, ch)[k] = input[k]
    BY <2>2
  <2>4. QED
    BY <1>1, <2>1, <2>2, <2>3
<1>3. QED
  BY <1>1, <1>2 DEF InputForwardedInOrder

\* read() returning 1: the byte enqueued is the next byte of stdin, the
\* (pos + 1)-th data byte of the queue.
LEMMA FwdReadByte ==
    ASSUME TypeOK, InputForwardedInOrder, ReadByte
    PROVE  InputForwardedInOrder'
<1> DEFINE x == input[pos + 1]
<1>1. queue' = Append(queue, x) /\ pos' = pos + 1 /\ input' = input
  BY DEF ReadByte
<1>2. x \in Chars /\ queue \in Seq(QueueBytes)
  BY DEF ReadByte, TypeOK, QueueBytes
<1>3. /\ DataPos(queue') = DataPos(queue) \cup {Len(queue) + 1}
      /\ Cardinality(DataPos(queue')) = pos + 1
      /\ Rank(queue', Len(queue) + 1) = pos + 1
      /\ \A j \in DataPos(queue) : Rank(queue', j) = Rank(queue, j)
  BY <1>1, <1>2, AppendData DEF InputForwardedInOrder
<1>4. queue'[Len(queue) + 1] = x
  BY <1>1, <1>2
<1>5. ASSUME NEW j \in DataPos(queue) PROVE queue'[j] = queue[j]
  BY <1>1, <1>2, DataPosFinite
<1>6. QED
  BY <1>1, <1>3, <1>4, <1>5 DEF InputForwardedInOrder

\* The SIGINT handler's Ctrl-C is no byte of stdin: it moves no data byte.
LEMMA FwdSigInt ==
    ASSUME TypeOK, InputForwardedInOrder, SigInt
    PROVE  InputForwardedInOrder'
<1>1. queue' = Append(queue, CtrlC) /\ pos' = pos /\ input' = input
  BY DEF SigInt
<1>2. queue \in Seq(QueueBytes)
  BY DEF TypeOK, QueueBytes
<1>3. DataPos(queue') = DataPos(queue)
      /\ \A j \in Nat : Rank(queue', j) = Rank(queue, j)
  BY <1>1, <1>2, AppendCtrlC
<1>4. ASSUME NEW j \in DataPos(queue) PROVE queue'[j] = queue[j] /\ j \in Nat
  BY <1>1, <1>2, DataPosFinite
<1>5. QED
  BY <1>1, <1>3, <1>4 DEF InputForwardedInOrder

\* Whatever the receive thread, the SIGINT handler, the destructor and the
\* terminal do, in any interleaving, the socket has received the bytes of
\* stdin read so far, once each and in order, with only Ctrl-C between.
THEOREM ForwardedInOrder == Spec => []InputForwardedInOrder
<1> DEFINE Inv == TypeOK /\ InputForwardedInOrder
<1>1. Init => InputForwardedInOrder
  BY FS_EmptySet DEF Init, InputForwardedInOrder, DataPos
<1>2. Inv /\ [Next]_vars => InputForwardedInOrder'
  <2> SUFFICES ASSUME Inv, [Next]_vars PROVE InputForwardedInOrder'
    OBVIOUS
  <2>1. CASE ReadByte
    BY <2>1, FwdReadByte
  <2>2. CASE \E ch \in Chars : Type(ch)
    BY <2>2, FwdType
  <2>3. CASE SigInt
    BY <2>3, FwdSigInt
  <2>4. CASE ~ReadByte /\ ~(\E ch \in Chars : Type(ch)) /\ ~SigInt
    <3>1. UNCHANGED <<queue, input, pos>>
      BY <2>4 DEF Next, RcvStep, vars, InstallHandler, SetId, Unmask,
         CheckRunning, EnterRead, ReadEOF, ReadInterrupted, SignalLost,
         StopRunning, Kill, Join, CloseStdin
    <3>2. QED
      BY <3>1, FwdFrame
  <2>5. QED
    BY <2>1, <2>2, <2>3, <2>4
<1>3. QED
  BY <1>1, <1>2, TypeCorrect, TypeStep, PTL DEF Spec

====
