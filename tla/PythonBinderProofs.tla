-------------------------- MODULE PythonBinderProofs --------------------------
(***************************************************************************)
(* Proofs about the threads the Python sc_spawn creates: a generator that  *)
(* yields only wait arguments and None makes its thread perform exactly    *)
(* those waits, in order, and never abort or throw unless it raises.       *)
(***************************************************************************)
EXTENDS PythonBinder, FiniteSetTheorems, SequenceTheorems, TLAPS

USE BinderAssumption

\* The values a generator of the model yields.
YieldValues == WaitValues \cup {Atom("none")}

-----------------------------------------------------------------------------
(* The dispatch of one yielded value (lines 93-106).                       *)

\* Each wait argument of the FIXME comment is waited on as it intends: the
\* try of its own type succeeds and the tries before it return false.
LEMMA DispatchWait ==
    ASSUME NEW v \in WaitValues
    PROVE  /\ Dispatch(v) = {Intended(v)}
           /\ Intended(v) \in Waits
<1>1. CASE v = Atom("event")
  BY <1>1 DEF Dispatch, OrElse, TryWait, WaitTypes, Intended, Atom, Tuple, Waits
<1>2. CASE v = Atom("time")
  BY <1>2 DEF Dispatch, OrElse, TryWait, WaitTypes, Intended, Atom, Tuple, Waits
<1>3. CASE v = Atom("async")
  BY <1>3 DEF Dispatch, OrElse, TryWait, WaitTypes, Intended, Atom, Tuple, Waits
<1>4. CASE v = Tuple(<<"time", "event">>)
  BY <1>4 DEF Dispatch, OrElse, TryWait, TimedWait, CastsInOrder, IsSequence, ItemCast,
              WaitTypes, Intended, Atom, Tuple, Waits
<1>5. QED
  BY <1>1, <1>2, <1>3, <1>4 DEF WaitValues

\* None passes every try and returns from the thread.
LEMMA DispatchNone ==
    /\ Dispatch(Atom("none")) = {"return"}
    /\ Intended(Atom("none")) = "return"
    /\ "return" \notin Waits
BY DEF Dispatch, OrElse, TryWait, TimedWait, CastsInOrder, IsSequence, StrIsNone,
       WaitTypes, Intended, Atom, Tuple, Waits

\* A generator's script yields values of the model, then stops or raises.
LEMMA ScriptType ==
    ASSUME NEW sc \in Scripts
    PROVE  sc.vals \in Seq(YieldValues) /\ sc.stop \in {"StopIteration", "raise"}
<1>1. PICK s \in UNION {[1..n -> YieldValues] : n \in 0..MaxYields},
           e \in {"StopIteration", "raise"} : sc = [vals |-> s, stop |-> e]
  BY DEF Scripts, YieldValues
<1>2. PICK n \in 0..MaxYields : s \in [1..n -> YieldValues]
  BY <1>1
<1>3. s \in Seq(YieldValues)
  BY <1>2 DEF Seq
<1>4. QED
  BY <1>1, <1>3

-----------------------------------------------------------------------------
(* The invariant of one thread, over its script sc, its place tp, the      *)
(* values pr it has yielded and the waits wa it has performed.             *)

\* The thread has yielded a prefix of its script; each value but possibly
\* a last None was a wait argument, and was waited on as intended; a last
\* None ended the thread; and the thread aborts or throws only when its
\* generator raises.
ThreadOK(sc, tp, pr, wa) ==
    /\ Len(pr) \in {Len(wa), Len(wa) + 1}
    /\ Len(pr) <= Len(sc.vals)
    /\ \A i \in 1..Len(pr) : pr[i] = sc.vals[i]
    /\ \A i \in 1..Len(wa) : pr[i] \in WaitValues /\ wa[i] = Intended(pr[i])
    /\ Len(pr) = Len(wa) + 1 => pr[Len(pr)] = Atom("none") /\ tp = "ended"
    /\ tp \in {"aborted", "thrown"} => sc.stop = "raise"

Tpcs == {"call", "wait", "ended", "aborted", "thrown"}

TypeInv ==
    /\ script \in [Threads -> Scripts]
    /\ tpc \in [Threads -> Tpcs]
    /\ produced \in [Threads -> Seq(YieldValues)]
    /\ waited \in [Threads -> Seq(Waits)]

IInv == \A t \in Threads : ThreadOK(script[t], tpc[t], produced[t], waited[t])

\* f() returns at the end of the script: StopIteration ends the thread and
\* only a raising generator throws.
LEMMA EndStep ==
    ASSUME NEW sc \in Scripts, NEW pr \in Seq(YieldValues), NEW wa \in Seq(Waits),
           ThreadOK(sc, "call", pr, wa), Len(pr) = Len(sc.vals)
    PROVE  ThreadOK(sc, IF sc.stop = "StopIteration" THEN "ended" ELSE "thrown", pr, wa)
<1>1. sc.stop \in {"StopIteration", "raise"}
  BY ScriptType
<1>2. Len(pr) = Len(wa)
  BY DEF ThreadOK
<1>3. QED
  BY <1>1, <1>2 DEF ThreadOK

\* f() yields the next value of the script, a wait argument: the thread
\* waits on it as intended.
LEMMA YieldWaitStep ==
    ASSUME NEW sc \in Scripts, NEW pr \in Seq(YieldValues), NEW wa \in Seq(Waits),
           ThreadOK(sc, "call", pr, wa), Len(pr) < Len(sc.vals),
           sc.vals[Len(pr) + 1] \in WaitValues
    PROVE  ThreadOK(sc, "wait", Append(pr, sc.vals[Len(pr) + 1]),
                    Append(wa, Intended(sc.vals[Len(pr) + 1])))
<1> DEFINE v == sc.vals[Len(pr) + 1]
           pr2 == Append(pr, v)
           wa2 == Append(wa, Intended(v))
<1>1. Len(pr) = Len(wa)
  BY DEF ThreadOK
<1>2. Len(pr2) = Len(pr) + 1 /\ Len(wa2) = Len(wa) + 1
  BY AppendProperties
<1>3. \A i \in 1..Len(pr) : pr2[i] = pr[i]
  BY AppendProperties
<1>4. \A i \in 1..Len(wa) : wa2[i] = wa[i]
  BY AppendProperties
<1>5. pr2[Len(pr) + 1] = v /\ wa2[Len(wa) + 1] = Intended(v)
  BY AppendProperties
<1>6. \A i \in 1..Len(pr2) : pr2[i] = sc.vals[i]
  BY <1>2, <1>3, <1>5 DEF ThreadOK
<1>7. \A i \in 1..Len(wa2) : pr2[i] \in WaitValues /\ wa2[i] = Intended(pr2[i])
  BY <1>1, <1>2, <1>3, <1>4, <1>5 DEF ThreadOK
<1>8. Len(pr2) \in {Len(wa2), Len(wa2) + 1} /\ Len(pr2) <= Len(sc.vals)
  BY <1>1, <1>2
<1>9. QED
  BY <1>1, <1>2, <1>6, <1>7, <1>8 DEF ThreadOK

\* f() yields None: the thread returns.
LEMMA YieldNoneStep ==
    ASSUME NEW sc \in Scripts, NEW pr \in Seq(YieldValues), NEW wa \in Seq(Waits),
           ThreadOK(sc, "call", pr, wa), Len(pr) < Len(sc.vals),
           sc.vals[Len(pr) + 1] = Atom("none")
    PROVE  ThreadOK(sc, "ended", Append(pr, sc.vals[Len(pr) + 1]), wa)
<1> DEFINE pr2 == Append(pr, sc.vals[Len(pr) + 1])
<1>1. Len(pr) = Len(wa)
  BY DEF ThreadOK
<1>2. Len(pr2) = Len(pr) + 1 /\ \A i \in 1..Len(pr) : pr2[i] = pr[i]
  BY AppendProperties
<1>3. pr2[Len(pr) + 1] = Atom("none")
  BY AppendProperties
<1>4. \A i \in 1..Len(pr2) : pr2[i] = sc.vals[i]
  BY <1>2 DEF ThreadOK
<1>5. QED
  BY <1>1, <1>2, <1>3, <1>4 DEF ThreadOK

\* The kernel resumes a waiting thread.
LEMMA ResumeStep ==
    ASSUME NEW sc, NEW pr, NEW wa, ThreadOK(sc, "wait", pr, wa)
    PROVE  ThreadOK(sc, "call", pr, wa)
BY DEF ThreadOK

-----------------------------------------------------------------------------
(* The invariant of the specification.                                     *)

\* A step that changes only thread t, to a place, values and waits for
\* which the thread invariant holds, keeps the invariant.
LEMMA UpdateThread ==
    ASSUME TypeInv, IInv, NEW t \in Threads, NEW tp \in Tpcs,
           NEW pr \in Seq(YieldValues), NEW wa \in Seq(Waits),
           ThreadOK(script[t], tp, pr, wa),
           script' = script,
           tpc' = [tpc EXCEPT ![t] = tp],
           produced' = [produced EXCEPT ![t] = pr],
           waited' = [waited EXCEPT ![t] = wa]
    PROVE  TypeInv' /\ IInv'
<1>1. TypeInv'
  BY DEF TypeInv
<1>2. ASSUME NEW u \in Threads
      PROVE  ThreadOK(script'[u], tpc'[u], produced'[u], waited'[u])
  <2>1. CASE u = t
    BY <2>1 DEF TypeInv
  <2>2. CASE u # t
    BY <2>2 DEF TypeInv, IInv
  <2>3. QED
    BY <2>1, <2>2
<1>3. QED
  BY <1>1, <1>2 DEF IInv

\* The initial states: no thread has yielded or waited yet.
LEMMA InitInv == Init => TypeInv /\ IInv
<1> SUFFICES ASSUME Init PROVE TypeInv /\ IInv
  OBVIOUS
<1>1. TypeInv
  BY DEF Init, TypeInv, Tpcs
<1>2. ASSUME NEW t \in Threads
      PROVE  ThreadOK(script[t], tpc[t], produced[t], waited[t])
  <2>1. script[t].vals \in Seq(YieldValues)
    BY ScriptType DEF Init
  <2>2. QED
    BY <2>1 DEF Init, ThreadOK
<1>3. QED
  BY <1>1, <1>2 DEF IInv

\* f() is called in thread t (lines 87-123): the thread ends, throws,
\* waits on what its generator yielded, or returns on None.
LEMMA CallGeneratorInv ==
    ASSUME TypeInv, IInv, NEW t \in Threads, CallGenerator(t)
    PROVE  TypeInv' /\ IInv'
<1> DEFINE sc == script[t]
           pr == produced[t]
           wa == waited[t]
<1>1. /\ sc \in Scripts /\ pr \in Seq(YieldValues) /\ wa \in Seq(Waits)
      /\ tpc[t] = "call" /\ script' = script
      /\ ThreadOK(sc, "call", pr, wa)
  BY DEF CallGenerator, TypeInv, IInv
<1>2. sc.vals \in Seq(YieldValues)
  BY <1>1, ScriptType
<1>3. CASE Len(pr) = Len(sc.vals)
  <2> DEFINE tp == IF sc.stop = "StopIteration" THEN "ended" ELSE "thrown"
  <2>1. /\ tpc' = [tpc EXCEPT ![t] = tp]
        /\ produced' = [produced EXCEPT ![t] = pr]
        /\ waited' = [waited EXCEPT ![t] = wa]
    BY <1>1, <1>3 DEF CallGenerator, TypeInv
  <2>2. ThreadOK(sc, tp, pr, wa)
    BY <1>1, <1>3, EndStep
  <2>3. QED
    BY <1>1, <2>1, <2>2, UpdateThread DEF Tpcs
<1>4. CASE Len(pr) # Len(sc.vals)
  <2> DEFINE v == sc.vals[Len(pr) + 1]
  <2>1. Len(pr) < Len(sc.vals)
    BY <1>1, <1>4 DEF ThreadOK
  <2>2. v \in YieldValues
    BY <1>2, <2>1
  <2>3. /\ produced' = [produced EXCEPT ![t] = Append(pr, v)]
        /\ \E r \in Dispatch(v) :
             IF r \in Waits
             THEN /\ tpc' = [tpc EXCEPT ![t] = "wait"]
                  /\ waited' = [waited EXCEPT ![t] = Append(wa, r)]
             ELSE IF r = "return"
             THEN tpc' = [tpc EXCEPT ![t] = "ended"] /\ waited' = waited
             ELSE tpc' = [tpc EXCEPT ![t] = IF r = "abort" THEN "aborted" ELSE "thrown"]
                  /\ waited' = waited
    BY <1>1, <1>4 DEF CallGenerator
  <2>4. Append(pr, v) \in Seq(YieldValues)
    BY <1>1, <2>2, AppendProperties
  <2>5. CASE v \in WaitValues
    <3>1. Dispatch(v) = {Intended(v)} /\ Intended(v) \in Waits
      BY <2>5, DispatchWait
    <3>2. /\ tpc' = [tpc EXCEPT ![t] = "wait"]
          /\ waited' = [waited EXCEPT ![t] = Append(wa, Intended(v))]
      BY <2>3, <3>1
    <3>3. Append(wa, Intended(v)) \in Seq(Waits)
      BY <1>1, <3>1, AppendProperties
    <3>4. ThreadOK(sc, "wait", Append(pr, v), Append(wa, Intended(v)))
      BY <1>1, <2>1, <2>5, YieldWaitStep
    <3>5. QED
      BY <1>1, <2>3, <2>4, <3>2, <3>3, <3>4, UpdateThread DEF Tpcs
  <2>6. CASE v = Atom("none")
    <3>1. tpc' = [tpc EXCEPT ![t] = "ended"] /\ waited' = waited
      BY <2>3, <2>6, DispatchNone
    <3>2. waited' = [waited EXCEPT ![t] = wa]
      BY <3>1 DEF TypeInv
    <3>3. ThreadOK(sc, "ended", Append(pr, v), wa)
      BY <1>1, <2>1, <2>6, YieldNoneStep
    <3>4. QED
      BY <1>1, <2>3, <2>4, <3>1, <3>2, <3>3, UpdateThread DEF Tpcs
  <2>7. QED
    BY <2>2, <2>5, <2>6 DEF YieldValues
<1>5. QED
  BY <1>3, <1>4

\* Every step of the specification keeps the invariant.
LEMMA StepInv == TypeInv /\ IInv /\ [Next]_vars => TypeInv' /\ IInv'
<1> SUFFICES ASSUME TypeInv, IInv, [Next]_vars PROVE TypeInv' /\ IInv'
  OBVIOUS
<1>1. CASE UNCHANGED <<script, tpc, produced, waited>>
  BY <1>1 DEF TypeInv, IInv
<1>2. ASSUME NEW t \in Threads, CallGenerator(t) PROVE TypeInv' /\ IInv'
  BY <1>2, CallGeneratorInv
<1>3. ASSUME NEW t \in Threads, Resume(t) PROVE TypeInv' /\ IInv'
  <2>1. ThreadOK(script[t], "call", produced[t], waited[t])
    BY <1>3, ResumeStep DEF Resume, IInv
  <2>2. /\ produced' = [produced EXCEPT ![t] = produced[t]]
        /\ waited' = [waited EXCEPT ![t] = waited[t]]
    BY <1>3 DEF Resume, TypeInv
  <2>3. /\ script' = script /\ tpc' = [tpc EXCEPT ![t] = "call"]
        /\ produced[t] \in Seq(YieldValues) /\ waited[t] \in Seq(Waits)
    BY <1>3 DEF Resume, TypeInv
  <2>4. QED
    BY <2>1, <2>2, <2>3, UpdateThread DEF Tpcs
<1>4. QED
  BY <1>1, <1>2, <1>3 DEF Next, vars, Construct, InitBinder, RunCallback, EndOfSimulation

\* The waits of a thread are the intended outcomes of all its values but
\* possibly a last None, and those are exactly the outcomes that are waits.
LEMMA InvWaits == TypeInv /\ IInv => WaitsFollowYields
<1> SUFFICES ASSUME TypeInv, IInv, NEW t \in Threads
             PROVE  /\ tpc[t] \notin {"aborted", "thrown"} \/ script[t].stop = "raise"
                    /\ Len(waited[t]) = Cardinality(WaitPos(t))
                    /\ \A j \in WaitPos(t) : waited[t][WRank(t, j)] = Intents(t)[j]
  BY DEF WaitsFollowYields
<1> DEFINE pr == produced[t]
           wa == waited[t]
           n == Len(wa)
<1>1. pr \in Seq(YieldValues) /\ wa \in Seq(Waits)
      /\ ThreadOK(script[t], tpc[t], pr, wa)
  BY DEF TypeInv, IInv
<1>2. tpc[t] \notin {"aborted", "thrown"} \/ script[t].stop = "raise"
  BY <1>1 DEF ThreadOK
<1>3. ASSUME NEW j \in 1..n PROVE Intents(t)[j] = Intended(pr[j]) /\ Intended(pr[j]) \in Waits
  <2>1. j \in DOMAIN pr /\ pr[j] \in WaitValues
    BY <1>1 DEF ThreadOK
  <2>2. QED
    BY <2>1, DispatchWait DEF Intents
<1>4. WaitPos(t) = 1..n
  <2>1. ASSUME NEW j \in DOMAIN pr, j \notin 1..n PROVE Intents(t)[j] \notin Waits
    <3>1. Len(pr) = n + 1 /\ j = n + 1
      BY <1>1, <2>1 DEF ThreadOK
    <3>2. pr[j] = Atom("none")
      BY <1>1, <3>1 DEF ThreadOK
    <3>3. QED
      BY <2>1, <3>2, DispatchNone DEF Intents
  <2>2. 1..n \subseteq DOMAIN pr
    BY <1>1 DEF ThreadOK
  <2>3. QED
    BY <1>3, <2>1, <2>2 DEF WaitPos
<1>5. n \in Nat /\ Cardinality(1..n) = n
  BY <1>1, FS_Interval
<1>6. ASSUME NEW j \in 1..n PROVE WRank(t, j) = j
  <2>1. {d \in WaitPos(t) : d <= j} = 1..j
    BY <1>4
  <2>2. Cardinality(1..j) = j
    BY FS_Interval
  <2>3. QED
    BY <2>1, <2>2 DEF WRank
<1>7. ASSUME NEW j \in WaitPos(t) PROVE wa[WRank(t, j)] = Intents(t)[j]
  <2>1. j \in 1..n /\ WRank(t, j) = j
    BY <1>4, <1>6
  <2>2. wa[j] = Intended(pr[j])
    BY <1>1, <2>1 DEF ThreadOK
  <2>3. QED
    BY <1>3, <2>1, <2>2
<1>8. QED
  BY <1>2, <1>4, <1>5, <1>7

\* A Python thread whose generator yields only wait arguments and None
\* (python_binder.cc, lines 87-123) performs, in order, exactly the waits
\* of the values it has yielded, and never aborts or throws unless its
\* generator raises; for every set of threads and every bound on yields.
THEOREM WaitsFollowYieldsHolds == Spec => []WaitsFollowYields
<1>1. Init => TypeInv /\ IInv
  BY InitInv
<1>2. TypeInv /\ IInv /\ [Next]_vars => TypeInv' /\ IInv'
  BY StepInv
<1>3. TypeInv /\ IInv => WaitsFollowYields
  BY InvWaits
<1>4. QED
  BY <1>1, <1>2, <1>3, PTL DEF Spec

====
