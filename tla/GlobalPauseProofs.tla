--------------------------- MODULE GlobalPauseProofs ---------------------------
(***************************************************************************)
(* Proofs about GlobalPause for every value of its constants.              *)
(***************************************************************************)
EXTENDS GlobalPause, FiniteSetTheorems, TLAPS

USE ConstantsAssumption

-----------------------------------------------------------------------------
(* Type correctness.  TypeOK is split into the variables of global_pause,  *)
(* the control state of the kernel thread and the sleeper, and the         *)
(* kernel's trigger sets, so that each step is proved one part at a time.  *)

TypeGP ==
    /\ m_suspend \in Nat
    /\ m_unsuspendable \in Nat
    /\ m_suspend_all_req_map \in [Procs -> BOOLEAN]
    /\ m_unsuspendable_map \in [Procs -> BOOLEAN]
    /\ m_suspending_channels \in SUBSET Channels
    /\ wakeups \in Nat
    /\ fault \in {"none", "suspend_underflow", "unsuspendable_underflow"}

TypeCtl ==
    /\ kpc \in {"kernel", "aborted"} \cup Entities
    /\ slp \in {"idle", "decide", "check", "waiting"}
    /\ asyncPending \in BOOLEAN
    /\ ntf \in [Notifiers -> {"idle", "updated"}]
    /\ ended \in BOOLEAN

TypeSched ==
    /\ runnable \in SUBSET Entities
    /\ deltaN \in SUBSET Entities
    /\ timed \in [Entities -> 0..MaxDelay]
    /\ asyncWait \in SUBSET Procs

\* The three parts together are the type invariant.
LEMMA TypeParts == TypeOK <=> TypeGP /\ TypeCtl /\ TypeSched
BY DEF TypeOK, TypeGP, TypeCtl, TypeSched

\* sleeper_event.notify(SC_ZERO_TIME) keeps the trigger sets typed.
LEMMA NotifyDeltaType ==
    ASSUME TypeSched, NotifyDelta, UNCHANGED <<runnable, asyncWait>>
    PROVE  TypeSched'
BY DEF TypeSched, NotifyDelta, Entities

\* sleeper_event.notify(t), for a delay t the trigger sets can hold.
LEMMA NotifyAtType ==
    ASSUME TypeSched, NEW d \in 0..MaxDelay, NotifyAt(d),
           UNCHANGED <<runnable, asyncWait>>
    PROVE  TypeSched'
BY DEF TypeSched, NotifyAt, NotifyDelta, Entities

\* sc_time_to_pending_activity(), when some activity is pending, is a
\* delay the trigger sets can hold.
LEMMA TimeToPendingRange ==
    ASSUME TypeSched, PendingActivity, NEW d, TimeToPendingIs(d)
    PROVE  d \in 0..MaxDelay
BY DEF TypeSched, PendingActivity, TimeToPendingIs, TimedSet, PendingNow

\* The type invariant of the model: the variables of global_pause and of the
\* kernel keep their types under every operation, whatever the constants.
THEOREM TypeCorrect == Spec => []TypeOK
<1>1. Init => TypeOK
  <2> SUFFICES ASSUME Init PROVE TypeGP /\ TypeCtl /\ TypeSched
    BY TypeParts
  <2>1. TypeGP BY DEF Init, TypeGP
  <2>2. TypeCtl BY DEF Init, TypeCtl, Entities
  <2>3. TypeSched BY DEF Init, TypeSched, Entities
  <2>4. QED BY <2>1, <2>2, <2>3
<1>2. TypeOK /\ [Next]_vars => TypeOK'
  <2> SUFFICES ASSUME TypeGP, TypeCtl, TypeSched, [Next]_vars
               PROVE  TypeGP' /\ TypeCtl' /\ TypeSched'
    BY DEF TypeOK, TypeGP, TypeCtl, TypeSched
  <2> USE DEF TypeGP, TypeCtl
  <2>1. ASSUME NEW p \in Procs, suspend_all(p) PROVE TypeGP' /\ TypeCtl' /\ TypeSched'
    BY <2>1, NotifyDeltaType DEF suspend_all
  <2>2. ASSUME NEW p \in Procs, unsuspend_all(p) PROVE TypeGP' /\ TypeCtl' /\ TypeSched'
    <3>1. CASE m_suspend > 0
      BY <2>2, <3>1 DEF unsuspend_all, schedVars, TypeSched
    <3>2. CASE ~(m_suspend > 0)
      BY <2>2, <3>2 DEF unsuspend_all, schedVars, TypeSched
    <3>3. QED BY <3>1, <3>2
  <2>3. ASSUME NEW p \in Procs, unsuspendable(p) PROVE TypeGP' /\ TypeCtl' /\ TypeSched'
    BY <2>3 DEF unsuspendable, schedVars, TypeSched
  <2>4. ASSUME NEW p \in Procs, suspendable(p) PROVE TypeGP' /\ TypeCtl' /\ TypeSched'
    <3>1. TypeSched' BY <2>4, NotifyDeltaType DEF suspendable
    <3>2. CASE m_unsuspendable_map[p] /\ m_unsuspendable > 0
      <4>1. /\ m_unsuspendable' = m_unsuspendable - 1
            /\ UNCHANGED <<fault, ended, kpc>>
            /\ m_unsuspendable_map' = [m_unsuspendable_map EXCEPT ![p] = FALSE]
        BY <2>4, <3>2 DEF suspendable
      <4>2. QED
        BY <2>4, <3>1, <3>2, <4>1 DEF suspendable
    <3>3. CASE m_unsuspendable_map[p] /\ ~(m_unsuspendable > 0)
      <4>1. /\ fault' = "unsuspendable_underflow" /\ ended' = TRUE
            /\ kpc' = "aborted" /\ m_unsuspendable' = m_unsuspendable
            /\ m_unsuspendable_map' = [m_unsuspendable_map EXCEPT ![p] = FALSE]
        BY <2>4, <3>3 DEF suspendable
      <4>2. QED
        BY <2>4, <3>1, <4>1 DEF suspendable
    <3>4. CASE ~m_unsuspendable_map[p]
      BY <2>4, <3>1, <3>4 DEF suspendable
    <3>5. QED BY <3>2, <3>3, <3>4
  <2>5. ASSUME NEW p \in Procs, Yield(p) PROVE TypeGP' /\ TypeCtl' /\ TypeSched'
    BY <2>5 DEF Yield, WaitTime, WaitAsync, gpVars, Entities, TypeSched
  <2>6. CASE SleeperStep
    <3>1. CASE SleeperNoSuspending
      BY <3>1 DEF SleeperNoSuspending, SleeperEnd, gpVars, schedVars, TypeSched
    <3>2. CASE SleeperWaitPending
      <4>1. PICK d \in 0..Infinity : TimeToPendingIs(d) /\ NotifyAt(d)
        BY <3>2 DEF SleeperWaitPending
      <4>2. PendingActivity
        BY <3>2 DEF SleeperWaitPending, WaitUnsuspendable, ChannelsWaitIdle
      <4>3. d \in 0..MaxDelay
        BY <4>1, <4>2, TimeToPendingRange
      <4>4. TypeSched'
        BY <3>2, <4>1, <4>3, NotifyAtType DEF SleeperWaitPending
      <4>5. QED
        BY <3>2, <4>4 DEF SleeperWaitPending, SleeperEnd, gpVars
    <3>3. CASE SleeperWaitIdle
      BY <3>3, NotifyDeltaType DEF SleeperWaitIdle, SleeperEnd, gpVars
    <3>4. CASE SleeperSuspend
      BY <3>4 DEF SleeperSuspend, gpVars, schedVars, TypeSched
    <3>5. CASE SleeperBlock
      BY <3>5 DEF SleeperBlock, gpVars, schedVars, TypeSched
    <3>6. CASE SleeperWake
      <4>1. TypeSched'
        BY <3>6, NotifyDeltaType DEF SleeperWake, TypeSched
      <4>2. QED
        BY <3>6, <4>1 DEF SleeperWake, SleeperEnd
    <3>7. QED
      BY <2>6, <3>1, <3>2, <3>3, <3>4, <3>5, <3>6 DEF SleeperStep
  <2>7. CASE SpuriousWakeup
    BY <2>7 DEF SpuriousWakeup, gpVars, schedVars, TypeSched
  <2>8. CASE KernelStep
    <3>1. ASSUME NEW e \in runnable, Dispatch(e) PROVE TypeGP' /\ TypeCtl' /\ TypeSched'
      BY <3>1 DEF Dispatch, gpVars, Entities, TypeSched
    <3>2. CASE DeltaCycle
      BY <3>2 DEF DeltaCycle, gpVars, Entities, TypeSched
    <3>3. CASE AdvanceTime
      <4>1. TypeSched'
        BY <3>3 DEF AdvanceTime, TypeSched, Entities, TimedSet, TimeToPendingIs, PendingNow
      <4>2. QED
        BY <3>3, <4>1 DEF AdvanceTime, gpVars
    <3>4. CASE EndOfSimulation
      BY <3>4 DEF EndOfSimulation, gpVars, schedVars, TypeSched
    <3>5. QED
      BY <2>8, <3>1, <3>2, <3>3, <3>4 DEF KernelStep
  <2>9. ASSUME NEW n \in Notifiers, AsyncRequestUpdate(n) PROVE TypeGP' /\ TypeCtl' /\ TypeSched'
    BY <2>9 DEF AsyncRequestUpdate, gpVars, TypeSched
  <2>10. ASSUME NEW n \in Notifiers, async_wakeup(n) PROVE TypeGP' /\ TypeCtl' /\ TypeSched'
    BY <2>10 DEF async_wakeup, schedVars, TypeSched
  <2>11. ASSUME NEW c \in Channels, attach_suspending(c) PROVE TypeGP' /\ TypeCtl' /\ TypeSched'
    BY <2>11 DEF attach_suspending, schedVars, TypeSched
  <2>12. ASSUME NEW c \in Channels, detach_suspending(c) PROVE TypeGP' /\ TypeCtl' /\ TypeSched'
    BY <2>12 DEF detach_suspending, schedVars, TypeSched
  <2>13. CASE Terminated \/ UNCHANGED vars
    BY <2>13 DEF Terminated, vars, TypeSched
  <2>14. QED
    BY <2>1, <2>2, <2>3, <2>4, <2>5, <2>6, <2>7, <2>8, <2>9, <2>10, <2>11,
       <2>12, <2>13 DEF Next, ProcStep
<1>3. QED
  BY <1>1, <1>2, PTL DEF Spec

-----------------------------------------------------------------------------
(* Counter conservation.                                                   *)

\* The processes whose entry in a request map is set.
TrueSet(f) == {q \in Procs : f[q]}

\* Setting an entry that was clear adds one process to the count.
LEMMA CountAdd ==
    ASSUME NEW f \in [Procs -> BOOLEAN], NEW p \in Procs, ~f[p]
    PROVE  Cardinality(TrueSet([f EXCEPT ![p] = TRUE])) = Cardinality(TrueSet(f)) + 1
<1>1. TrueSet([f EXCEPT ![p] = TRUE]) = TrueSet(f) \cup {p}
  BY DEF TrueSet
<1>2. IsFiniteSet(TrueSet(f))
  BY FS_Subset DEF TrueSet
<1>3. p \notin TrueSet(f)
  BY DEF TrueSet
<1>4. QED
  BY <1>1, <1>2, <1>3, FS_AddElement

\* Clearing an entry that was set removes one process from a nonzero count.
LEMMA CountRemove ==
    ASSUME NEW f \in [Procs -> BOOLEAN], NEW p \in Procs, f[p]
    PROVE  /\ Cardinality(TrueSet(f)) > 0
           /\ Cardinality(TrueSet([f EXCEPT ![p] = FALSE])) = Cardinality(TrueSet(f)) - 1
<1>1. TrueSet([f EXCEPT ![p] = FALSE]) = TrueSet(f) \ {p}
  BY DEF TrueSet
<1>2. IsFiniteSet(TrueSet(f))
  BY FS_Subset DEF TrueSet
<1>3. p \in TrueSet(f)
  BY DEF TrueSet
<1>4. Cardinality(TrueSet(f)) \in Nat /\ Cardinality(TrueSet(f)) # 0
  BY <1>2, <1>3, FS_CardinalityType, FS_EmptySet
<1>5. Cardinality(TrueSet(f) \ {p}) = Cardinality(TrueSet(f)) - 1
  BY <1>2, <1>3, FS_RemoveElement
<1>6. Cardinality(TrueSet([f EXCEPT ![p] = FALSE])) = Cardinality(TrueSet(f) \ {p})
  BY <1>1
<1>7. QED
  BY <1>4, <1>5, <1>6

\* The state counter conservation is about.
Counted == <<m_suspend, m_unsuspendable, m_suspend_all_req_map, m_unsuspendable_map, fault>>

\* Spec section 3 for calls made from SystemC processes: no assert of
\* unsuspend_all() or suspendable() fires and each counter equals the number
\* of processes whose map entry is set, in every reachable state.
THEOREM CountersConserved == Spec => []CountersMatchMaps
<1> DEFINE SA == Cardinality(TrueSet(m_suspend_all_req_map))
           UA == Cardinality(TrueSet(m_unsuspendable_map))
<1>1. Init => CountersMatchMaps
  <2> SUFFICES ASSUME Init PROVE CountersMatchMaps
    OBVIOUS
  <2>1. TrueSet(m_suspend_all_req_map) = {} /\ TrueSet(m_unsuspendable_map) = {}
    BY DEF Init, TrueSet
  <2>2. QED
    BY <2>1, FS_EmptySet DEF Init, CountersMatchMaps, TrueSet
<1>2. TypeOK /\ CountersMatchMaps /\ [Next]_vars => CountersMatchMaps'
  <2> SUFFICES ASSUME TypeOK, CountersMatchMaps, [Next]_vars
               PROVE  fault' = "none" /\ m_suspend' = SA' /\ m_unsuspendable' = UA'
    BY DEF CountersMatchMaps, TrueSet
  <2>0. fault = "none" /\ m_suspend = SA /\ m_unsuspendable = UA
    BY DEF CountersMatchMaps, TrueSet
  <2> USE DEF TypeOK
  <2>1. CASE UNCHANGED Counted
    BY <2>0, <2>1 DEF Counted
  <2>2. ASSUME NEW p \in Procs, suspend_all(p) PROVE fault' = "none" /\ m_suspend' = SA' /\ m_unsuspendable' = UA'
    BY <2>0, <2>2, CountAdd DEF suspend_all
  <2>3. ASSUME NEW p \in Procs, unsuspend_all(p) PROVE fault' = "none" /\ m_suspend' = SA' /\ m_unsuspendable' = UA'
    <3>1. m_suspend_all_req_map[p]
      BY <2>3 DEF unsuspend_all
    <3>2. m_suspend > 0
      BY <2>0, <3>1, CountRemove
    <3>3. m_suspend' = m_suspend - 1 /\ UNCHANGED <<fault, m_unsuspendable, m_unsuspendable_map>>
          /\ m_suspend_all_req_map' = [m_suspend_all_req_map EXCEPT ![p] = FALSE]
      BY <2>3, <3>2 DEF unsuspend_all
    <3>4. QED
      BY <2>0, <3>1, <3>3, CountRemove
  <2>4. ASSUME NEW p \in Procs, unsuspendable(p) PROVE fault' = "none" /\ m_suspend' = SA' /\ m_unsuspendable' = UA'
    BY <2>0, <2>4, CountAdd DEF unsuspendable
  <2>5. ASSUME NEW p \in Procs, suspendable(p) PROVE fault' = "none" /\ m_suspend' = SA' /\ m_unsuspendable' = UA'
    <3>1. CASE m_unsuspendable_map[p]
      <4>1. m_unsuspendable > 0
        BY <2>0, <3>1, CountRemove
      <4>2. m_unsuspendable' = m_unsuspendable - 1
            /\ UNCHANGED <<fault, m_suspend, m_suspend_all_req_map>>
            /\ m_unsuspendable_map' = [m_unsuspendable_map EXCEPT ![p] = FALSE]
        BY <2>5, <3>1, <4>1 DEF suspendable
      <4>3. QED
        BY <2>0, <3>1, <4>2, CountRemove
    <3>2. CASE ~m_unsuspendable_map[p]
      BY <2>0, <2>5, <3>2 DEF suspendable
    <3>3. QED
      BY <3>1, <3>2
  <2>6. ASSUME NEW p \in Procs, Yield(p) PROVE UNCHANGED Counted
    BY <2>6 DEF Yield, WaitTime, WaitAsync, gpVars, Counted
  <2>7. SleeperStep \/ SpuriousWakeup => UNCHANGED Counted
    BY DEF SleeperStep, SleeperNoSuspending, SleeperWaitPending, SleeperWaitIdle,
           SleeperSuspend, SleeperBlock, SleeperWake, SpuriousWakeup, gpVars, Counted
  <2>8. KernelStep => UNCHANGED Counted
    BY DEF KernelStep, Dispatch, DeltaCycle, AdvanceTime, EndOfSimulation, gpVars, Counted
  <2>9. ASSUME NEW n \in Notifiers, AsyncRequestUpdate(n) \/ async_wakeup(n) PROVE UNCHANGED Counted
    BY <2>9 DEF AsyncRequestUpdate, async_wakeup, gpVars, Counted
  <2>10. ASSUME NEW c \in Channels, attach_suspending(c) \/ detach_suspending(c) PROVE UNCHANGED Counted
    BY <2>10 DEF attach_suspending, detach_suspending, Counted
  <2>11. Terminated \/ UNCHANGED vars => UNCHANGED Counted
    BY DEF Terminated, vars, Counted
  <2>12. QED
    BY <2>1, <2>2, <2>3, <2>4, <2>5, <2>6, <2>7, <2>8, <2>9, <2>10, <2>11
    DEF Next, ProcStep
<1>3. QED
  BY <1>1, <1>2, TypeCorrect, PTL DEF Spec

-----------------------------------------------------------------------------
(* No lost wakeup.                                                         *)

\* While the sleeper is blocked in cond.wait the kernel thread is inside
\* it, and every part of the wait predicate was false when it blocked and
\* has stayed false since, except that a foreign thread may have posted an
\* async update, which it then signals.
BlockedInv ==
    slp = "waiting" =>
        /\ kpc = Sleeper
        /\ wakeups = 0
        /\ m_suspend > 0
        /\ m_unsuspendable = 0
        /\ runnable = {}
        /\ deltaN = {}
        /\ asyncPending => InFlight # {}

WakeInv == TypeOK /\ BlockedInv

\* Outside cond.wait the invariant holds vacuously; a step that leaves the
\* sleeper outside it preserves it.
LEMMA NotBlocked ==
    ASSUME slp' # "waiting" PROVE BlockedInv'
BY DEF BlockedInv

\* No lost wakeup (spec sections 5 and 8): the sleeper never stays blocked
\* in cond.wait while its wake condition holds, unless a foreign thread in
\* async_notify is about to call async_wakeup and notify_all.
THEOREM NoLostWakeup == Spec => []NoMissedWakeup
<1>1. Init => BlockedInv
  BY DEF Init, BlockedInv
<1>2. TypeOK /\ BlockedInv /\ [Next]_vars => BlockedInv'
  <2> SUFFICES ASSUME TypeOK, BlockedInv, [Next]_vars PROVE BlockedInv'
    OBVIOUS
  \* The kernel thread runs a user process or the kernel loop only while
  \* the sleeper is not blocked.
  <2>0. kpc \in Procs \cup {"kernel"} => slp # "waiting"
    BY ConstantsAssumption DEF BlockedInv
  <2>1. ASSUME NEW p \in Procs, ProcStep(p) PROVE BlockedInv'
    <3>1. kpc = p /\ slp' = slp
      BY <2>1 DEF ProcStep, suspend_all, unsuspend_all, unsuspendable,
                  suspendable, Yield, WaitTime, WaitAsync
    <3>2. QED
      BY <2>0, <3>1, NotBlocked
  <2>2. CASE SleeperBlock
    <3>1. ~TimeToPendingIs(0)
      BY <2>2 DEF SleeperBlock, WaitPredicate
    <3>2. ~PendingNow
      BY <3>1 DEF TimeToPendingIs
    <3>3. QED
      BY <2>2, <3>2 DEF SleeperBlock, WaitPredicate, PendingNow, BlockedInv,
                        TypeOK, gpVars, schedVars
  <2>3. CASE SleeperStep /\ ~SleeperBlock
    <3>1. slp' \in {"idle", "check"}
      BY <2>3 DEF SleeperStep, SleeperNoSuspending, SleeperWaitPending,
                  SleeperWaitIdle, SleeperSuspend, SleeperWake, SleeperEnd
    <3>2. QED
      BY <3>1, NotBlocked
  <2>4. CASE SpuriousWakeup
    BY <2>4, NotBlocked DEF SpuriousWakeup
  <2>5. CASE KernelStep
    <3>1. kpc = "kernel" /\ slp' \in {slp, "decide"}
      BY <2>5 DEF KernelStep, Dispatch, DeltaCycle, AdvanceTime, EndOfSimulation
    <3>2. QED
      BY <2>0, <3>1, NotBlocked
  <2>6. ASSUME NEW n \in Notifiers, AsyncRequestUpdate(n) PROVE BlockedInv'
    <3>1. n \in InFlight'
      BY <2>6 DEF AsyncRequestUpdate, InFlight, TypeOK
    <3>2. QED
      BY <2>6, <3>1 DEF AsyncRequestUpdate, BlockedInv, gpVars
  <2>7. ASSUME NEW n \in Notifiers, async_wakeup(n) PROVE BlockedInv'
    BY <2>7, NotBlocked DEF async_wakeup
  <2>8. ASSUME NEW c \in Channels, attach_suspending(c) \/ detach_suspending(c)
        PROVE BlockedInv'
    BY <2>8 DEF attach_suspending, detach_suspending, BlockedInv, InFlight, schedVars
  <2>9. CASE Terminated \/ UNCHANGED vars
    BY <2>9 DEF Terminated, vars, BlockedInv, InFlight
  <2>10. QED
    BY <2>1, <2>2, <2>3, <2>4, <2>5, <2>6, <2>7, <2>8, <2>9 DEF Next
<1>3. TypeOK /\ BlockedInv => NoMissedWakeup
  BY DEF TypeOK, BlockedInv, NoMissedWakeup, PendingNow
<1>4. QED
  BY <1>1, <1>2, <1>3, TypeCorrect, PTL DEF Spec

-----------------------------------------------------------------------------
(* Refinement of the abstract coordinator.                                 *)

\* The abstract state moves only by a step of the coordinator.
CoordStep == [Coord!Next]_Coord!cvars

\* suspend_all() of a process with no request outstanding is a request.
LEMMA RequestStep ==
    ASSUME TypeOK, NEW p \in Procs, suspend_all(p)
    PROVE  Coord!RequestSuspendAll(p)
<1>1. {q \in Procs : m_suspend_all_req_map'[q]}
        = {q \in Procs : m_suspend_all_req_map[q]} \cup {p}
  BY DEF suspend_all, TypeOK
<1>2. QED
  BY <1>1 DEF suspend_all, Coord!RequestSuspendAll

\* unsuspend_all() of a process with a request outstanding is a release,
\* since the counter then is nonzero.
LEMMA ReleaseStep ==
    ASSUME TypeOK, CountersMatchMaps, NEW p \in Procs, unsuspend_all(p)
    PROVE  Coord!ReleaseSuspendAll(p)
<1>1. m_suspend_all_req_map[p]
  BY DEF unsuspend_all
<1>2. m_suspend > 0
  BY <1>1, CountRemove DEF CountersMatchMaps, TrueSet, TypeOK
<1>3. {q \in Procs : m_suspend_all_req_map'[q]}
        = {q \in Procs : m_suspend_all_req_map[q]} \ {p}
  BY DEF unsuspend_all, TypeOK
<1>4. QED
  BY <1>1, <1>2, <1>3 DEF unsuspend_all, Coord!ReleaseSuspendAll

\* unsuspendable() of a process outside a region opens one.
LEMMA EnterStep ==
    ASSUME TypeOK, NEW p \in Procs, unsuspendable(p)
    PROVE  Coord!EnterUnsuspendable(p)
<1>1. {q \in Procs : m_unsuspendable_map'[q]}
        = {q \in Procs : m_unsuspendable_map[q]} \cup {p}
  BY DEF unsuspendable, TypeOK
<1>2. QED
  BY <1>1 DEF unsuspendable, Coord!EnterUnsuspendable

\* suspendable() closes the caller's region if it holds one, and else
\* leaves the coordinator's state alone.
LEMMA ExitStep ==
    ASSUME TypeOK, CountersMatchMaps, NEW p \in Procs, suspendable(p)
    PROVE  Coord!ExitUnsuspendable(p) \/ UNCHANGED Coord!cvars
<1>1. CASE m_unsuspendable_map[p]
  <2>1. m_unsuspendable > 0
    BY <1>1, CountRemove DEF CountersMatchMaps, TrueSet, TypeOK
  <2>2. /\ m_unsuspendable' = m_unsuspendable - 1
        /\ m_unsuspendable_map' = [m_unsuspendable_map EXCEPT ![p] = FALSE]
    BY <1>1, <2>1 DEF suspendable
  <2>3. {q \in Procs : m_unsuspendable_map'[q]}
          = {q \in Procs : m_unsuspendable_map[q]} \ {p}
    BY <2>2 DEF TypeOK
  <2>4. QED
    BY <1>1, <2>2, <2>3 DEF suspendable, Coord!ExitUnsuspendable
<1>2. CASE ~m_unsuspendable_map[p]
  <2>1. UNCHANGED <<m_suspend, m_unsuspendable, m_suspend_all_req_map,
                    m_unsuspendable_map, wakeups, m_suspending_channels>>
    BY <1>2 DEF suspendable
  <2>2. QED
    BY <2>1 DEF Coord!cvars
<1>3. m_unsuspendable_map[p] \in BOOLEAN
  BY DEF TypeOK
<1>4. QED
  BY <1>1, <1>2, <1>3

\* GlobalPause implements the coordinator of spec sections 3 and 4: every
\* call of suspend_all, unsuspend_all, unsuspendable and suspendable that
\* changes a map entry moves the matching counter with it, async_wakeup
\* counts a wakeup, the sleeper consumes at most one, attach_suspending and
\* detach_suspending change the registry, and every other step leaves the
\* coordinator's state unchanged.  It rests on CountersConserved: without
\* it the assert-failing branches would clear a map entry with a zero
\* counter.
THEOREM Refinement == Spec => ImplementsCoordinator
<1>1. Init => Coord!Init
  <2> SUFFICES ASSUME Init PROVE Coord!Init
    OBVIOUS
  <2>1. {q \in Procs : m_suspend_all_req_map[q]} = {}
        /\ {q \in Procs : m_unsuspendable_map[q]} = {}
    BY DEF Init
  <2>2. QED
    BY <2>1 DEF Init, Coord!Init
<1>2. TypeOK /\ CountersMatchMaps /\ [Next]_vars => CoordStep
  <2> SUFFICES ASSUME TypeOK, CountersMatchMaps, [Next]_vars PROVE CoordStep
    OBVIOUS
  <2> DEFINE Same == UNCHANGED <<m_suspend, m_unsuspendable, m_suspend_all_req_map,
                                 m_unsuspendable_map, wakeups, m_suspending_channels>>
  <2>0. Same => CoordStep
    <3>1. Same => UNCHANGED Coord!cvars
      BY DEF Coord!cvars
    <3>2. QED
      BY <3>1 DEF CoordStep
  <2>1. ASSUME NEW p \in Procs, ProcStep(p) PROVE CoordStep
    <3>1. CASE suspend_all(p)
      BY <3>1, RequestStep DEF CoordStep, Coord!Next
    <3>2. CASE unsuspend_all(p)
      BY <3>2, ReleaseStep DEF CoordStep, Coord!Next
    <3>3. CASE unsuspendable(p)
      BY <3>3, EnterStep DEF CoordStep, Coord!Next
    <3>4. CASE suspendable(p)
      BY <3>4, ExitStep DEF CoordStep, Coord!Next
    <3>5. CASE Yield(p)
      BY <3>5, <2>0 DEF Yield, WaitTime, WaitAsync, gpVars
    <3>6. QED
      BY <2>1, <3>1, <3>2, <3>3, <3>4, <3>5 DEF ProcStep
  <2>2. CASE SleeperWake /\ wakeups > 0
    BY <2>2 DEF SleeperWake, CoordStep, Coord!Next, Coord!ConsumeWakeup
  <2>3. CASE SleeperStep /\ ~(SleeperWake /\ wakeups > 0)
    <3>1. CASE SleeperWake
      <4>1. wakeups = 0 /\ wakeups' = 0
        BY <2>3, <3>1 DEF SleeperWake, TypeOK
      <4>2. Same
        BY <3>1, <4>1 DEF SleeperWake
      <4>3. QED
        BY <4>2, <2>0
    <3>2. CASE SleeperNoSuspending \/ SleeperWaitPending \/ SleeperWaitIdle
                \/ SleeperSuspend \/ SleeperBlock
      <4>1. Same
        BY <3>2 DEF SleeperNoSuspending, SleeperWaitPending, SleeperWaitIdle,
                    SleeperSuspend, SleeperBlock, gpVars
      <4>2. QED
        BY <4>1, <2>0
    <3>3. QED
      BY <2>3, <3>1, <3>2 DEF SleeperStep
  <2>4. CASE SpuriousWakeup \/ KernelStep \/ Terminated
    <3>1. Same
      BY <2>4 DEF SpuriousWakeup, KernelStep, Dispatch, DeltaCycle, AdvanceTime,
                  EndOfSimulation, Terminated, vars, gpVars
    <3>2. QED
      BY <3>1, <2>0
  <2>5. ASSUME NEW n \in Notifiers, AsyncRequestUpdate(n) PROVE CoordStep
    BY <2>5, <2>0 DEF AsyncRequestUpdate, gpVars
  <2>6. ASSUME NEW n \in Notifiers, async_wakeup(n) PROVE CoordStep
    BY <2>6 DEF async_wakeup, CoordStep, Coord!Next, Coord!NotifyAsync
  <2>7. ASSUME NEW c \in Channels, attach_suspending(c) PROVE CoordStep
    BY <2>7 DEF attach_suspending, CoordStep, Coord!Next, Coord!Attach
  <2>8. ASSUME NEW c \in Channels, detach_suspending(c) PROVE CoordStep
    BY <2>8 DEF detach_suspending, CoordStep, Coord!Next, Coord!Detach
  <2>9. CASE UNCHANGED vars
    BY <2>9, <2>0 DEF vars
  <2>10. QED
    BY <2>1, <2>2, <2>3, <2>4, <2>5, <2>6, <2>7, <2>8, <2>9 DEF Next
<1>3. QED
  BY <1>1, <1>2, TypeCorrect, CountersConserved, PTL DEF Spec, ImplementsCoordinator, Coord!Spec, CoordStep

-----------------------------------------------------------------------------
(* The suspension is always enforced.                                      *)

\* sleeper_event.notify(SC_ZERO_TIME) arms the sleeper.
LEMMA DeltaArms ==
    ASSUME NotifyDelta PROVE SleeperArmed'
BY DEF NotifyDelta, SleeperArmed

\* A step that leaves the trigger sets and the kernel thread alone leaves
\* the sleeper as armed as it was.
LEMMA ArmedFrame ==
    ASSUME SleeperArmed, UNCHANGED <<runnable, deltaN, timed, kpc>>
    PROVE  SleeperArmed'
BY DEF SleeperArmed

\* sleeper_event.notify(d) with a finite delay d arms the sleeper: a delta
\* or an earlier pending notification is kept, else the timed one is set.
LEMMA NotifyAtArms ==
    ASSUME TypeOK, NEW d \in 0..MaxDelay, NotifyAt(d), UNCHANGED runnable
    PROVE  SleeperArmed'
<1>1. CASE d = 0
  BY <1>1, DeltaArms DEF NotifyAt
<1>2. CASE d # 0 /\ (Sleeper \in deltaN \/ (timed[Sleeper] > 0 /\ timed[Sleeper] <= d))
  BY <1>2 DEF NotifyAt, SleeperArmed
<1>3. CASE d # 0 /\ ~(Sleeper \in deltaN \/ (timed[Sleeper] > 0 /\ timed[Sleeper] <= d))
  <2>1. timed'[Sleeper] = d
    BY <1>3 DEF NotifyAt, TypeOK, Entities
  <2>2. QED
    BY <1>3, <2>1 DEF SleeperArmed
<1>4. QED
  BY <1>1, <1>2, <1>3

\* Advancing time to the earliest timed trigger keeps the sleeper armed:
\* when nothing is due now it has a timed trigger, which either fires at the
\* new time or is still pending after it.
LEMMA AdvanceArms ==
    ASSUME TypeOK, SleeperArmed, AdvanceTime PROVE SleeperArmed'
<1>1. kpc = "kernel" /\ ~PendingNow /\ kpc' = kpc
  BY DEF AdvanceTime
<1>2. timed[Sleeper] > 0
  BY <1>1, ConstantsAssumption DEF SleeperArmed, PendingNow
<1>3. PICK d \in 1..MaxDelay :
        /\ TimeToPendingIs(d)
        /\ runnable' = {e \in TimedSet : timed[e] = d}
        /\ timed' = [e \in Entities |-> IF timed[e] = 0 THEN 0 ELSE timed[e] - d]
  BY DEF AdvanceTime
<1>4. Sleeper \in TimedSet /\ d <= timed[Sleeper]
  BY <1>1, <1>2, <1>3 DEF TimeToPendingIs, TimedSet, Entities
<1>5. CASE timed[Sleeper] = d
  BY <1>3, <1>4, <1>5 DEF SleeperArmed
<1>6. CASE timed[Sleeper] # d
  <2>1. timed'[Sleeper] = timed[Sleeper] - d
    BY <1>2, <1>3 DEF Entities
  <2>2. timed'[Sleeper] > 0
    BY <1>2, <1>4, <1>6, <2>1 DEF TypeOK, Entities
  <2>3. QED
    BY <2>2 DEF SleeperArmed
<1>7. QED
  BY <1>5, <1>6

\* A suspend_all() request is never left unenforced (spec section 4.1 and
\* lines 134-155 and 25-67): while m_suspend > 0 the sleeper method is
\* runnable, triggered or running.  TypeOK is the only strengthening needed:
\* every branch of sleeper() taken with m_suspend > 0 re-arms it or keeps
\* the kernel thread inside it, and the kernel's loop only moves the trigger.
THEOREM SuspendArmedHolds == Spec => []SuspendArmed
<1>1. Init => SuspendArmed
  BY DEF Init, SuspendArmed
<1>2. TypeOK /\ SuspendArmed /\ [Next]_vars => SuspendArmed'
  <2> SUFFICES ASSUME TypeOK, SuspendArmed, [Next]_vars, m_suspend' > 0
               PROVE  SleeperArmed'
    BY DEF SuspendArmed
  <2>0. Sleeper \notin Procs /\ Sleeper # "kernel"
    BY ConstantsAssumption
  \* While a user process runs, the sleeper is armed through its triggers.
  <2>1. ASSUME NEW p \in Procs, kpc = p, m_suspend > 0
        PROVE  Sleeper \in runnable \cup deltaN \/ timed[Sleeper] > 0
    BY <2>0, <2>1 DEF SuspendArmed, SleeperArmed
  <2>2. ASSUME NEW p \in Procs, suspend_all(p) \/ suspendable(p) PROVE SleeperArmed'
    BY <2>2, DeltaArms DEF suspend_all, suspendable
  <2>3. ASSUME NEW p \in Procs, unsuspend_all(p) PROVE SleeperArmed'
    <3>1. m_suspend > 0 /\ m_suspend' = m_suspend - 1 /\ kpc' = kpc
      BY <2>3 DEF unsuspend_all
    <3>2. QED
      BY <2>3, <3>1, ArmedFrame DEF unsuspend_all, SuspendArmed, schedVars
  <2>4. ASSUME NEW p \in Procs, unsuspendable(p) PROVE SleeperArmed'
    BY <2>4, ArmedFrame DEF unsuspendable, SuspendArmed, schedVars
  <2>5. ASSUME NEW p \in Procs, NEW d \in 0..MaxDelay, WaitTime(p, d) PROVE SleeperArmed'
    <3>1. kpc = p /\ m_suspend > 0
      BY <2>5 DEF WaitTime, gpVars
    <3>2. deltaN \subseteq deltaN' /\ timed'[Sleeper] = timed[Sleeper]
      <4>1. CASE d = 0
        BY <2>5, <4>1 DEF WaitTime
      <4>2. CASE d # 0
        <5>1. timed' = [timed EXCEPT ![p] = d] /\ deltaN' = deltaN
          BY <2>5, <4>2 DEF WaitTime
        <5>2. QED
          BY <2>0, <5>1 DEF TypeOK, Entities
      <4>3. QED
        BY <4>1, <4>2
    <3>3. QED
      BY <2>1, <2>5, <3>1, <3>2 DEF WaitTime, SleeperArmed
  <2>6. ASSUME NEW p \in Procs, WaitAsync(p) PROVE SleeperArmed'
    BY <2>1, <2>6 DEF WaitAsync, gpVars, SleeperArmed
  <2>7. CASE SleeperWaitPending
    <3>1. m_suspend > 0 /\ WaitUnsuspendable
      BY <2>7 DEF SleeperWaitPending, ChannelsWaitIdle, gpVars
    <3>2. PICK d \in 0..Infinity : TimeToPendingIs(d) /\ NotifyAt(d)
      BY <2>7 DEF SleeperWaitPending
    <3>3. d \in 0..MaxDelay
      BY <3>1, <3>2, TimeToPendingRange, TypeParts DEF WaitUnsuspendable
    <3>4. QED
      BY <2>7, <3>2, <3>3, NotifyAtArms DEF SleeperWaitPending
  <2>8. CASE SleeperNoSuspending \/ SleeperWaitIdle \/ SleeperWake
    <3>1. CASE SleeperWaitIdle
      BY <3>1, DeltaArms DEF SleeperWaitIdle
    <3>2. CASE SleeperWake
      BY <3>2, DeltaArms DEF SleeperWake
    <3>3. CASE SleeperNoSuspending
      BY <3>3 DEF SleeperNoSuspending, NoSuspending, gpVars
    <3>4. QED
      BY <2>8, <3>1, <3>2, <3>3
  <2>9. CASE SleeperSuspend \/ SleeperBlock \/ SpuriousWakeup
    BY <2>9, ArmedFrame DEF SleeperSuspend, SleeperBlock, SpuriousWakeup,
                            SuspendArmed, gpVars, schedVars
  <2>10. ASSUME NEW e \in runnable, Dispatch(e) PROVE SleeperArmed'
    BY <2>10 DEF Dispatch, SuspendArmed, SleeperArmed, gpVars
  <2>11. CASE DeltaCycle
    BY <2>11 DEF DeltaCycle, SuspendArmed, SleeperArmed, gpVars
  <2>12. CASE AdvanceTime
    BY <2>12, AdvanceArms DEF AdvanceTime, SuspendArmed, gpVars
  <2>13. CASE EndOfSimulation
    BY <2>0, <2>13 DEF EndOfSimulation, SuspendArmed, SleeperArmed, PendingActivity,
                       PendingNow, TimedSet, gpVars, TypeOK, Entities
  <2>14. ASSUME NEW n \in Notifiers, AsyncRequestUpdate(n) \/ async_wakeup(n)
         PROVE SleeperArmed'
    BY <2>14, ArmedFrame DEF AsyncRequestUpdate, async_wakeup, SuspendArmed,
                             gpVars, schedVars
  <2>15. ASSUME NEW c \in Channels, attach_suspending(c) \/ detach_suspending(c)
         PROVE SleeperArmed'
    BY <2>15, ArmedFrame DEF attach_suspending, detach_suspending, SuspendArmed,
                             schedVars
  <2>16. CASE Terminated \/ UNCHANGED vars
    BY <2>16, ArmedFrame DEF Terminated, vars, SuspendArmed
  <2>17. QED
    BY <2>2, <2>3, <2>4, <2>5, <2>6, <2>7, <2>8, <2>9, <2>10, <2>11, <2>12,
       <2>13, <2>14, <2>15, <2>16
    DEF Next, ProcStep, Yield, SleeperStep, KernelStep
<1>3. QED
  BY <1>1, <1>2, TypeCorrect, PTL DEF Spec

-----------------------------------------------------------------------------
(* A global pause freezes simulated time.                                  *)

\* A suspension is requested and no unsuspendable region is open.
Frozen == m_suspend > 0 /\ m_unsuspendable = 0

\* The sleeper is due at the current instant or is running.
SleeperDueNow == Sleeper \in runnable \cup deltaN \/ kpc = Sleeper

\* The strengthening of PauseFreezesTime: while the kernel is frozen, the
\* sleeper is due now.  suspend_all() and suspendable() arm it with a delta
\* notification; sleeper() with m_suspend > 0 and no region open re-arms it in
\* zero time or stays running while blocked.
FrozenInv == Frozen => SleeperDueNow

\* A kernel thread with nothing due at the current instant is not frozen.
LEMMA IdleNotFrozen ==
    ASSUME FrozenInv, kpc = "kernel", ~PendingNow
    PROVE  ~Frozen
BY ConstantsAssumption DEF FrozenInv, SleeperDueNow, PendingNow

\* A step that leaves the counters, the current-instant sets and the kernel
\* thread alone keeps FrozenInv.
LEMMA FrozenFrame ==
    ASSUME FrozenInv,
           UNCHANGED <<m_suspend, m_unsuspendable, runnable, deltaN, kpc>>
    PROVE  FrozenInv'
BY DEF FrozenInv, Frozen, SleeperDueNow

\* sleeper_event.notify(SC_ZERO_TIME) makes the sleeper due now.
LEMMA DeltaDue ==
    ASSUME NotifyDelta PROVE SleeperDueNow'
BY DEF NotifyDelta, SleeperDueNow

\* While the pause holds, the sleeper is always due at the current instant
\* (spec section 4.1, pre_suspending_sc_support.cc lines 25-67 and 134-172).
THEOREM FrozenHolds == Spec => []FrozenInv
<1>1. Init => FrozenInv
  BY DEF Init, FrozenInv, Frozen
<1>2. TypeOK /\ FrozenInv /\ [Next]_vars => FrozenInv'
  <2> SUFFICES ASSUME TypeOK, FrozenInv, [Next]_vars, Frozen'
               PROVE  SleeperDueNow'
    BY DEF FrozenInv
  <2>0. Sleeper \notin Procs /\ Sleeper # "kernel"
    BY ConstantsAssumption
  \* While a user process runs a frozen kernel, the sleeper is due now.
  <2>1. ASSUME NEW p \in Procs, kpc = p, Frozen
        PROVE  Sleeper \in runnable \cup deltaN
    BY <2>0, <2>1 DEF FrozenInv, SleeperDueNow
  <2>2. ASSUME NEW p \in Procs, suspend_all(p) \/ suspendable(p) PROVE SleeperDueNow'
    BY <2>2, DeltaDue DEF suspend_all, suspendable
  <2>3. ASSUME NEW p \in Procs, unsuspend_all(p) PROVE SleeperDueNow'
    <3>1. m_suspend > 0 /\ m_suspend' = m_suspend - 1
      BY <2>3 DEF unsuspend_all, Frozen, TypeOK
    <3>2. Frozen /\ kpc = p /\ kpc' = kpc
      BY <2>3, <3>1 DEF unsuspend_all, Frozen
    <3>3. QED
      BY <2>1, <2>3, <3>2 DEF unsuspend_all, schedVars, SleeperDueNow
  <2>4. ASSUME NEW p \in Procs, unsuspendable(p) PROVE SleeperDueNow'
    BY <2>4 DEF unsuspendable, Frozen, TypeOK
  <2>5. ASSUME NEW p \in Procs, NEW d \in 0..MaxDelay, WaitTime(p, d) PROVE SleeperDueNow'
    <3>1. kpc = p /\ Frozen
      BY <2>5 DEF WaitTime, gpVars, Frozen
    <3>2. deltaN \subseteq deltaN' /\ runnable' = runnable
      BY <2>5 DEF WaitTime
    <3>3. QED
      BY <2>1, <3>1, <3>2 DEF SleeperDueNow
  <2>6. ASSUME NEW p \in Procs, WaitAsync(p) PROVE SleeperDueNow'
    BY <2>1, <2>6 DEF WaitAsync, gpVars, Frozen, SleeperDueNow
  <2>7. CASE SleeperWaitPending \/ SleeperNoSuspending
    BY <2>7 DEF SleeperWaitPending, SleeperNoSuspending, NoSuspending,
                WaitUnsuspendable, ChannelsWaitIdle, gpVars, Frozen
  <2>8. CASE SleeperWaitIdle
    BY <2>8, DeltaDue DEF SleeperWaitIdle
  <2>9. CASE SleeperWake
    <3>1. m_suspend > 0
      BY <2>9 DEF SleeperWake, Frozen
    <3>2. NotifyDelta
      BY <2>9, <3>1 DEF SleeperWake
    <3>3. QED
      BY <3>2, DeltaDue
  <2>10. CASE SleeperSuspend \/ SleeperBlock \/ SpuriousWakeup
    BY <2>10, FrozenFrame DEF SleeperSuspend, SleeperBlock, SpuriousWakeup,
                              FrozenInv, gpVars, schedVars
  <2>11. ASSUME NEW e \in runnable, Dispatch(e) PROVE SleeperDueNow'
    <3>1. Frozen
      BY <2>11 DEF Dispatch, gpVars, Frozen
    <3>2. Sleeper \in runnable \cup deltaN
      BY <2>0, <2>11, <3>1 DEF Dispatch, FrozenInv, SleeperDueNow
    <3>3. QED
      BY <2>11, <3>2 DEF Dispatch, SleeperDueNow
  <2>12. CASE DeltaCycle
    BY <2>0, <2>12 DEF DeltaCycle, FrozenInv, Frozen, SleeperDueNow, gpVars
  <2>13. CASE AdvanceTime \/ EndOfSimulation
    <3>1. kpc = "kernel" /\ ~PendingNow
      BY <2>13 DEF AdvanceTime, EndOfSimulation, PendingActivity
    <3>2. UNCHANGED <<m_suspend, m_unsuspendable>>
      BY <2>13 DEF AdvanceTime, EndOfSimulation, gpVars
    <3>3. QED
      BY <3>1, <3>2, IdleNotFrozen DEF Frozen
  <2>14. ASSUME NEW n \in Notifiers, AsyncRequestUpdate(n) \/ async_wakeup(n)
         PROVE SleeperDueNow'
    BY <2>14, FrozenFrame DEF AsyncRequestUpdate, async_wakeup, FrozenInv,
                              gpVars, schedVars
  <2>15. ASSUME NEW c \in Channels, attach_suspending(c) \/ detach_suspending(c)
         PROVE SleeperDueNow'
    BY <2>15, FrozenFrame DEF attach_suspending, detach_suspending, FrozenInv,
                              schedVars
  <2>16. CASE Terminated \/ UNCHANGED vars
    BY <2>16, FrozenFrame DEF Terminated, vars, FrozenInv
  <2>17. QED
    BY <2>2, <2>3, <2>4, <2>5, <2>6, <2>7, <2>8, <2>9, <2>10, <2>11, <2>12,
       <2>13, <2>14, <2>15, <2>16
    DEF Next, ProcStep, Yield, SleeperStep, KernelStep
<1>3. QED
  BY <1>1, <1>2, TypeCorrect, PTL DEF Spec

\* A global pause freezes simulated time: the kernel's loop never advances
\* time while a suspend_all() request is active and no unsuspendable region
\* is open, because the sleeper is then due at the current instant.
THEOREM PauseFrozen == Spec => PauseFreezesTime
<1>1. FrozenInv => (AdvanceTime => ~(m_suspend > 0 /\ m_unsuspendable = 0))
  BY IdleNotFrozen DEF AdvanceTime, Frozen
<1>2. QED
  BY <1>1, FrozenHolds, PTL DEF PauseFreezesTime

====
