----------------------------- MODULE PythonBinder -----------------------------
(***************************************************************************)
(* The python_binder module (src/systemc-components/python_binder/src/     *)
(* python_binder.cc): its constructor and init_binder, which import the    *)
(* user's Python module; the elaboration and simulation callbacks, run     *)
(* through exec_if_py_fn_exist; and the SystemC threads created by the     *)
(* Python sc_spawn, which call a Python generator and turn each value it   *)
(* yields into an sc_core::wait through sc_thread_try_wait.                *)
(*                                                                         *)
(* A Python value is a record: its type and, for a tuple, the types of     *)
(* its items.  A Python callback is one of a few behaviours: absent,       *)
(* returning, raising AttributeError after doing part of its work, raising *)
(* another Python exception, or throwing a C++ exception.                  *)
(***************************************************************************)
EXTENDS Naturals, Sequences, FiniteSets

CONSTANTS
    Threads,     \* the Python threads the module spawns
    MaxYields,   \* bound on the values one generator yields
    BfNums       \* the values biflow_socket_num may be given

ASSUME BinderAssumption == MaxYields \in Nat /\ BfNums \subseteq Nat

Atom(ty) == [type |-> ty, items |-> <<>>]
Tuple(s) == [type |-> "tuple", items |-> s]
\* A str of n characters: a sequence whose items are one-character strs.
PyStr(n) == [type |-> "str", items |-> [i \in 1..n |-> "str"]]
\* The str "None", which pybind11::str prints as None does.
NoneStr == [type |-> "strNone", items |-> PyStr(4).items]

\* The values a generator may yield: the four wait arguments of the FIXME
\* comment (lines 35-43), None, and values that are none of these.
WaitValues == {Atom("time"), Atom("event"), Atom("async"), Tuple(<<"time", "event">>)}
OtherValues == {PyStr(0), PyStr(1), NoneStr, Atom("int"), Tuple(<<>>),
                Tuple(<<"time">>), Tuple(<<"event">>), Tuple(<<"event", "time">>),
                Tuple(<<"time", "event", "int">>)}
PyValues == WaitValues \cup {Atom("none")} \cup OtherValues

WaitTypes == <<"SC_EVENT", "SC_TIME", "GS_ASYNC_EVENT", "TIMED_SC_EVENT">>
Waits == {"wait_event", "wait_time", "wait_async", "wait_timed"}

\* ret.cast<T>() of one tuple item: a wrong type is a cast_error, a missing
\* item an IndexError (error_already_set that is no TypeError).
ItemCast(v, k, ty) ==
    IF k > Len(v.items) THEN "throw" ELSE IF v.items[k] = ty THEN "ok" ELSE "false"

\* The outcome of the wait call when its argument casts, evaluated in this
\* order, give x, then y: the first that fails decides.
CastsInOrder(x, y) == IF x = "ok" /\ y = "ok" THEN "wait_timed" ELSE IF x # "ok" THEN x ELSE y

\* ret.cast<pybind11::tuple>() converts any sequence with PySequence_Tuple:
\* a str becomes the tuple of its characters; any other value raises
\* TypeError, which sc_thread_try_wait turns into false.
IsSequence(v) == v.type \in {"tuple", "str", "strNone"}

\* The two casts of the TIMED_SC_EVENT case are the arguments of one call,
\* evaluated in an order C++ leaves unspecified.
TimedWait(v) ==
    LET a == ItemCast(v, 1, "time")
        b == ItemCast(v, 2, "event")
    IN IF ~IsSequence(v) THEN {"false"} ELSE {CastsInOrder(a, b), CastsInOrder(b, a)}

\* Mutant: the tuple's items are read in the wrong order.
TryWait_SwappedItems(v, ty) ==
    IF ty = "SC_EVENT" THEN {IF v.type = "event" THEN "wait_event" ELSE "false"}
    ELSE IF ty = "SC_TIME" THEN {IF v.type = "time" THEN "wait_time" ELSE "false"}
    ELSE IF ty = "GS_ASYNC_EVENT" THEN {IF v.type = "async" THEN "wait_async" ELSE "false"}
    ELSE IF ~IsSequence(v) THEN {"false"}
    ELSE {IF ItemCast(v, 1, "event") = "ok" /\ ItemCast(v, 2, "time") = "ok"
          THEN "wait_timed" ELSE "false"}

\* sc_thread_try_wait(ret, type), lines 44-79: the outcomes it can have.
TryWait(v, ty) ==
    IF ty = "SC_EVENT" THEN {IF v.type = "event" THEN "wait_event" ELSE "false"}
    ELSE IF ty = "SC_TIME" THEN {IF v.type = "time" THEN "wait_time" ELSE "false"}
    ELSE IF ty = "GS_ASYNC_EVENT" THEN {IF v.type = "async" THEN "wait_async" ELSE "false"}
    ELSE TimedWait(v)

\* pybind11::str(ret) is "None" for None and for the string "None".
StrIsNone(v) == v.type \in {"none", "strNone"}

\* !sc_thread_try_wait(ret, ty) && rest: the outcomes of one try, and
\* those of the rest when it returned false.
OrElse(v, ty, rest) == UNION {IF r = "false" THEN rest ELSE {r} : r \in TryWait(v, ty)}

\* The body of the spawned thread's loop (lines 93-106): the four tries in
\* order, each tried only when the one before returned false; if all fail,
\* the thread returns on "None" and aborts on anything else.
Dispatch(v) ==
    OrElse(v, WaitTypes[1], OrElse(v, WaitTypes[2], OrElse(v, WaitTypes[3],
      OrElse(v, WaitTypes[4], {IF StrIsNone(v) THEN "return" ELSE "abort"}))))

\* What the comment and the error message of line 99 describe: a wait
\* argument is waited on, None ends the thread, anything else aborts.
Intended(v) ==
    IF v = Atom("event") THEN "wait_event"
    ELSE IF v = Atom("time") THEN "wait_time"
    ELSE IF v = Atom("async") THEN "wait_async"
    ELSE IF v = Tuple(<<"time", "event">>) THEN "wait_timed"
    ELSE IF v = Atom("none") THEN "return"
    ELSE "abort"

-----------------------------------------------------------------------------
(* The lifecycle.                                                          *)

CbBehaviours == {"missing", "ok", "attr_error", "py_error", "cpp_error"}

\* A generator: the values it yields, then StopIteration or an exception.
Scripts == {[vals |-> s, stop |-> e] :
              s \in UNION {[1..n -> WaitValues \cup {Atom("none")}] : n \in 0..MaxYields},
              e \in {"StopIteration", "raise"}}

VARIABLES
    phase,       \* construct, init, callback k, sim, done, or how it stopped
    ncb,         \* callbacks run so far
    cbLog,       \* the behaviour of each callback run so far
    bfNum,       \* p_bf_socket_num
    script,      \* each thread's generator
    tpc,         \* where each spawned thread is
    produced,    \* the values each generator has yielded
    waited       \* the waits each thread has performed

vars == <<phase, ncb, cbLog, bfNum, script, tpc, produced, waited>>

Stopped == {"fatal", "aborted", "thrown"}

Init ==
    /\ phase = "construct" /\ ncb = 0 /\ cbLog = <<>>
    /\ bfNum \in BfNums
    /\ script \in [Threads -> Scripts]
    /\ tpc = [t \in Threads |-> "call"]
    /\ produced = [t \in Threads |-> <<>>]
    /\ waited = [t \in Threads |-> <<>>]

\* The constructor (lines 303-345): assert on biflow_socket_num, socket
\* creation and registration, then init_binder.
Construct ==
    /\ phase = "construct"
    /\ phase' = IF bfNum \in {0, 1} THEN "init" ELSE "aborted"
    /\ UNCHANGED <<ncb, cbLog, bfNum, script, tpc, produced, waited>>

\* init_binder (lines 348-389): SCP_FATAL on an empty directory or name,
\* and on any exception while importing; the outcome of the imports is the
\* environment's.
InitBinder ==
    /\ phase = "init"
    /\ \E ok \in BOOLEAN : phase' = IF ok THEN "callbacks" ELSE "fatal"
    /\ UNCHANGED <<ncb, cbLog, bfNum, script, tpc, produced, waited>>

\* exec_if_py_fn_exist (lines 477-490): what a callback's behaviour makes
\* of the phase.  AttributeError is taken for "not implemented".
AfterCallback(b) ==
    IF b \in {"missing", "ok", "attr_error"} THEN "callbacks"
    ELSE IF b = "py_error" THEN "thrown"
    ELSE "fatal"

\* before_end_of_elaboration, end_of_elaboration and start_of_simulation
\* (lines 492-508); simulation starts after the third.
RunCallback ==
    /\ phase = "callbacks" /\ ncb < 3
    /\ \E b \in CbBehaviours :
         /\ cbLog' = Append(cbLog, b)
         /\ phase' = IF AfterCallback(b) = "callbacks" /\ ncb = 2 THEN "sim"
                     ELSE AfterCallback(b)
    /\ ncb' = ncb + 1
    /\ UNCHANGED <<bfNum, script, tpc, produced, waited>>

\* end_of_simulation (lines 510-514).
EndOfSimulation ==
    /\ phase = "sim"
    /\ \E b \in CbBehaviours :
         /\ cbLog' = Append(cbLog, b)
         /\ phase' = IF AfterCallback(b) = "callbacks" THEN "done" ELSE AfterCallback(b)
    /\ ncb' = ncb + 1
    /\ UNCHANGED <<bfNum, script, tpc, produced, waited>>

-----------------------------------------------------------------------------
(* A thread created by the Python sc_spawn (lines 87-123).                 *)

\* f() is called: the generator yields its next value, which is dispatched;
\* at its end StopIteration returns from the thread and any other Python
\* exception is printed and rethrown out of the SystemC thread.
CallGenerator(t) ==
    /\ phase = "sim" /\ tpc[t] = "call"
    /\ LET n == Len(produced[t]) IN
       IF n = Len(script[t].vals)
       THEN /\ IF script[t].stop = "StopIteration"
               THEN tpc' = [tpc EXCEPT ![t] = "ended"] /\ UNCHANGED phase
               ELSE tpc' = [tpc EXCEPT ![t] = "thrown"] /\ phase' = "thrown"
            /\ UNCHANGED <<produced, waited>>
       ELSE LET v == script[t].vals[n + 1] IN
            /\ produced' = [produced EXCEPT ![t] = Append(@, v)]
            /\ \E r \in Dispatch(v) :
                 IF r \in Waits
                 THEN /\ tpc' = [tpc EXCEPT ![t] = "wait"]
                      /\ waited' = [waited EXCEPT ![t] = Append(@, r)]
                      /\ UNCHANGED phase
                 ELSE IF r = "return"
                 THEN tpc' = [tpc EXCEPT ![t] = "ended"] /\ UNCHANGED <<phase, waited>>
                 ELSE /\ tpc' = [tpc EXCEPT ![t] = IF r = "abort" THEN "aborted" ELSE "thrown"]
                      /\ phase' = IF r = "abort" THEN "aborted" ELSE "thrown"
                      /\ UNCHANGED waited
    /\ UNCHANGED <<ncb, cbLog, bfNum, script>>

\* The kernel resumes the thread after its wait; "continue" calls f() again.
Resume(t) ==
    /\ phase = "sim" /\ tpc[t] = "wait"
    /\ tpc' = [tpc EXCEPT ![t] = "call"]
    /\ UNCHANGED <<phase, ncb, cbLog, bfNum, script, produced, waited>>

Next ==
    \/ Construct \/ InitBinder \/ RunCallback \/ EndOfSimulation
    \/ \E t \in Threads : CallGenerator(t) \/ Resume(t)
    \/ (phase \in Stopped \cup {"done"} /\ UNCHANGED vars)

Spec == Init /\ [][Next]_vars

-----------------------------------------------------------------------------
(* Properties.                                                             *)

\* The outcomes the comment intends for the values thread t has yielded,
\* the places among them that are waits, and the number of such places up
\* to j: the wait at j is the WRank(t, j)-th wait the thread performs.
Intents(t) == [i \in DOMAIN produced[t] |-> Intended(produced[t][i])]
WaitPos(t) == {j \in DOMAIN produced[t] : Intents(t)[j] \in Waits}
WRank(t, j) == Cardinality({d \in WaitPos(t) : d <= j})

\* A generator that yields only wait arguments and None is driven as the
\* FIXME comment describes: each thread has performed exactly the waits of
\* the values it yielded so far, in order, and never aborts or throws.
\* waited[t] is the subsequence of Intents(t) that are waits.
WaitsFollowYields ==
    \A t \in Threads :
        /\ tpc[t] \notin {"aborted", "thrown"} \/ script[t].stop = "raise"
        /\ Len(waited[t]) = Cardinality(WaitPos(t))
        /\ \A j \in WaitPos(t) : waited[t][WRank(t, j)] = Intents(t)[j]

\* Every value a generator can yield is treated as the comment and the
\* abort message of line 99 describe: waited on, ending the thread, or
\* aborting with "unknown sc_core::wait() arguments".
DispatchMatchesIntent == \A v \in PyValues : Dispatch(v) = {Intended(v)}

\* "let's be less strict about the existence check of these callbacks"
\* (line 474): a callback is passed over only when it does not exist; one
\* that exists and fails stops the simulation.
CallbackErrorsReported ==
    \A k \in DOMAIN cbLog :
        cbLog[k] \notin {"missing", "ok"} => phase \in Stopped

====
