----------------------------- MODULE GlobalPause -----------------------------
(***************************************************************************)
(* The pre-suspending global pause of libgssync                            *)
(* (src/systemc-components/common/src/libgssync/pre_suspending_sc_support.cc)*)
(* together with the part of the SystemC kernel it talks to.               *)
(*                                                                         *)
(* The kernel thread runs one SystemC process at a time: a user process    *)
(* (calling suspend_all, unsuspend_all, unsuspendable, suspendable) or the *)
(* sleeper method, which may block the whole kernel on a condition         *)
(* variable.  Foreign threads call async_wakeup (under the mutex) and      *)
(* attach_suspending / detach_suspending (without any lock).               *)
(*                                                                         *)
(* The mutex is implicit: every stretch of code that holds it is one step  *)
(* (async_wakeup; the sleeper from the predicate check to the end of its   *)
(* activation), and the sleeper releases it only while in "waiting".       *)
(***************************************************************************)
EXTENDS Naturals, FiniteSets

CONSTANTS
    Procs,       \* the user SystemC processes (sc_process_b* identities)
    Notifiers,   \* foreign threads calling async_notify
    Channels,    \* sc_prim_channel handles that may be attached as suspending
    Sleeper,     \* the "global_pause_sleeper" method process
    MaxDelay,    \* the longest timed wait a process makes, in time units
    MaxWakeups   \* bound on the wakeups counter (unbounded in the code)

ASSUME ConstantsAssumption ==
    /\ Sleeper \notin Procs
    /\ {"kernel", "aborted"} \cap (Procs \cup {Sleeper}) = {}
    /\ MaxDelay \in Nat \ {0}
    /\ MaxWakeups \in Nat \ {0}
    /\ IsFiniteSet(Procs)

VARIABLES
    m_suspend,              \* global_pause::m_suspend
    m_unsuspendable,        \* global_pause::m_unsuspendable
    m_suspend_all_req_map,  \* process -> bool
    m_unsuspendable_map,    \* process -> bool
    m_suspending_channels,  \* the vector, as a set (find-before-push: no duplicates)
    wakeups,                \* global_pause::wakeups
    fault,                  \* which assert() aborted the process, if any
    kpc,                    \* what the kernel thread executes: "kernel", a process or Sleeper
    slp,                    \* where the sleeper is inside one activation
    runnable,               \* processes runnable in the current evaluation phase
    deltaN,                 \* processes triggered in the next delta cycle
    timed,                  \* process -> delay of its timed trigger (0: none)
    asyncWait,              \* processes waiting on an async event
    asyncPending,           \* an async_request_update not yet seen by the kernel
    ntf,                    \* foreign thread -> where it is inside async_notify
    ended                   \* sc_start has returned

vars == <<m_suspend, m_unsuspendable, m_suspend_all_req_map, m_unsuspendable_map,
          m_suspending_channels, wakeups, fault, kpc, slp, runnable, deltaN,
          timed, asyncWait, asyncPending, ntf, ended>>

gpVars == <<m_suspend, m_unsuspendable, m_suspend_all_req_map,
            m_unsuspendable_map, m_suspending_channels, wakeups, fault>>

schedVars == <<runnable, deltaN, timed, asyncWait, asyncPending>>

Entities == Procs \cup {Sleeper}

\* The value sc_time_to_pending_activity() returns when nothing is scheduled.
Infinity == MaxDelay + 1

-----------------------------------------------------------------------------
(* The kernel queries global_pause relies on (spec section 6).             *)

m_has_suspending_channels == m_suspending_channels # {}

\* sc_pending_activity_at_current_time()
PendingNow == runnable # {} \/ deltaN # {} \/ asyncPending

TimedSet == {e \in Entities : timed[e] > 0}

\* sc_pending_activity()
PendingActivity == PendingNow \/ TimedSet # {}

\* d is the value of sc_time_to_pending_activity(): zero when activity is
\* pending now, else the delay of the earliest timed trigger, else the time
\* left to sc_max_time().
TimeToPendingIs(d) ==
    IF PendingNow THEN d = 0
    ELSE IF TimedSet # {}
         THEN /\ \E e \in TimedSet : timed[e] = d
              /\ \A e \in TimedSet : d <= timed[e]
         ELSE d = Infinity

\* sleeper_event.notify(SC_ZERO_TIME): a delta notification overrides a
\* pending timed one.
NotifyDelta ==
    /\ deltaN' = deltaN \cup {Sleeper}
    /\ timed' = [timed EXCEPT ![Sleeper] = 0]

\* sleeper_event.notify(t): the earlier of the pending and the new
\* notification is kept.
NotifyAt(t) ==
    IF t = 0 THEN NotifyDelta
    ELSE IF Sleeper \in deltaN \/ (timed[Sleeper] > 0 /\ timed[Sleeper] <= t)
         THEN UNCHANGED <<deltaN, timed>>
         ELSE /\ timed' = [timed EXCEPT ![Sleeper] = t]
              /\ UNCHANGED deltaN

-----------------------------------------------------------------------------
Init ==
    /\ m_suspend = 0
    /\ m_unsuspendable = 0
    /\ m_suspend_all_req_map = [p \in Procs |-> FALSE]
    /\ m_unsuspendable_map = [p \in Procs |-> FALSE]
    /\ m_suspending_channels = {}
    /\ wakeups = 0
    /\ fault = "none"
    /\ kpc = "kernel"
    /\ slp = "idle"
    /\ runnable = Procs           \* the sleeper is spawned with dont_initialize()
    /\ deltaN = {}
    /\ timed = [e \in Entities |-> 0]
    /\ asyncWait = {}
    /\ asyncPending = FALSE
    /\ ntf = [n \in Notifiers |-> "idle"]
    /\ ended = FALSE

-----------------------------------------------------------------------------
(* global_pause operations called by the running user process p.          *)

\* Mutant: the per-process idempotence check of suspend_all is dropped.
suspend_all_NoIdempotence(p) ==
    /\ kpc = p
    /\ m_suspend_all_req_map' = [m_suspend_all_req_map EXCEPT ![p] = TRUE]
    /\ m_suspend' = m_suspend + 1
    /\ NotifyDelta
    /\ UNCHANGED <<m_unsuspendable, m_unsuspendable_map, m_suspending_channels,
                   wakeups, fault, kpc, slp, runnable, asyncWait, asyncPending,
                   ntf, ended>>

suspend_all(p) ==
    /\ kpc = p
    /\ ~m_suspend_all_req_map[p]       \* else: early return, a stutter
    /\ m_suspend_all_req_map' = [m_suspend_all_req_map EXCEPT ![p] = TRUE]
    /\ m_suspend' = m_suspend + 1
    /\ NotifyDelta
    /\ UNCHANGED <<m_unsuspendable, m_unsuspendable_map, m_suspending_channels,
                   wakeups, fault, kpc, slp, runnable, asyncWait, asyncPending,
                   ntf, ended>>

unsuspend_all(p) ==
    /\ kpc = p
    /\ m_suspend_all_req_map[p]        \* else: early return, a stutter
    /\ m_suspend_all_req_map' = [m_suspend_all_req_map EXCEPT ![p] = FALSE]
    /\ IF m_suspend > 0
       THEN /\ m_suspend' = m_suspend - 1
            /\ UNCHANGED <<fault, ended, kpc>>
       ELSE /\ fault' = "suspend_underflow"   \* assert(m_suspend > 0)
            /\ ended' = TRUE /\ kpc' = "aborted"
            /\ UNCHANGED m_suspend
    /\ UNCHANGED <<m_unsuspendable, m_unsuspendable_map, m_suspending_channels,
                   wakeups, slp, schedVars, ntf>>

unsuspendable(p) ==
    /\ kpc = p
    /\ ~m_unsuspendable_map[p]         \* else: no change
    /\ m_unsuspendable_map' = [m_unsuspendable_map EXCEPT ![p] = TRUE]
    /\ m_unsuspendable' = m_unsuspendable + 1
    /\ UNCHANGED <<m_suspend, m_suspend_all_req_map, m_suspending_channels,
                   wakeups, fault, kpc, slp, schedVars, ntf, ended>>

\* Mutant: suspendable() no longer notifies sleeper_event.
suspendable_NoNotify(p) ==
    /\ kpc = p
    /\ \/ /\ m_unsuspendable_map[p]
          /\ m_unsuspendable_map' = [m_unsuspendable_map EXCEPT ![p] = FALSE]
          /\ m_unsuspendable' = m_unsuspendable - 1
       \/ /\ ~m_unsuspendable_map[p]
          /\ UNCHANGED <<m_unsuspendable_map, m_unsuspendable>>
    /\ UNCHANGED <<m_suspend, m_suspend_all_req_map, m_suspending_channels,
                   wakeups, fault, ended, kpc, slp, schedVars, ntf>>

\* The notification at the end is made whether or not p held a region.
suspendable(p) ==
    /\ kpc = p
    /\ \/ /\ m_unsuspendable_map[p]
          /\ m_unsuspendable_map' = [m_unsuspendable_map EXCEPT ![p] = FALSE]
          /\ IF m_unsuspendable > 0
             THEN /\ m_unsuspendable' = m_unsuspendable - 1
                  /\ UNCHANGED <<fault, ended, kpc>>
             ELSE /\ fault' = "unsuspendable_underflow"  \* assert(m_unsuspendable)
                  /\ ended' = TRUE /\ kpc' = "aborted"
                  /\ UNCHANGED m_unsuspendable
       \/ /\ ~m_unsuspendable_map[p]
          /\ UNCHANGED <<m_unsuspendable_map, m_unsuspendable, fault, ended, kpc>>
    /\ NotifyDelta
    /\ UNCHANGED <<m_suspend, m_suspend_all_req_map, m_suspending_channels,
                   wakeups, slp, runnable, asyncWait, asyncPending, ntf>>

\* The activation of p ends in wait(t): t = 0 is wait(SC_ZERO_TIME), a
\* trigger in the next delta cycle.
WaitTime(p, d) ==
    /\ kpc = p
    /\ kpc' = "kernel"
    /\ IF d = 0
       THEN deltaN' = deltaN \cup {p} /\ UNCHANGED timed
       ELSE timed' = [timed EXCEPT ![p] = d] /\ UNCHANGED deltaN
    /\ UNCHANGED <<gpVars, slp, runnable, asyncWait, asyncPending, ntf, ended>>

\* The activation of p ends in wait(async_event).
WaitAsync(p) ==
    /\ kpc = p
    /\ kpc' = "kernel"
    /\ asyncWait' = asyncWait \cup {p}
    /\ UNCHANGED <<gpVars, slp, runnable, deltaN, timed, asyncPending, ntf, ended>>

Yield(p) == (\E d \in 0..MaxDelay : WaitTime(p, d)) \/ WaitAsync(p)

-----------------------------------------------------------------------------
(* global_pause::sleeper(), run by the kernel when sleeper_event fires.    *)
(* The decision table (lines 27-49) reads the counters without the mutex;  *)
(* the wait (lines 51-65) holds it except while blocked.                   *)

NoSuspending == ~m_has_suspending_channels /\ m_suspend = 0

WaitUnsuspendable == m_suspend > 0 /\ m_unsuspendable > 0 /\ PendingActivity

ChannelsWaitIdle == m_suspend = 0 /\ m_has_suspending_channels /\ PendingActivity

\* The predicate of cond.wait.
WaitPredicate ==
    \/ wakeups > 0
    \/ TimeToPendingIs(0)
    \/ m_suspend = 0
    \/ m_unsuspendable > 0

SleeperEnd == kpc' = "kernel" /\ slp' = "idle"

\* Line 27: no suspension policy at all; return without re-arming.
SleeperNoSuspending ==
    /\ kpc = Sleeper /\ slp = "decide"
    /\ NoSuspending
    /\ SleeperEnd
    /\ UNCHANGED <<gpVars, schedVars, ntf, ended>>

\* Lines 32 and 38: re-check at the time of the next pending activity.
SleeperWaitPending ==
    /\ kpc = Sleeper /\ slp = "decide"
    /\ ~NoSuspending
    /\ \/ WaitUnsuspendable
       \/ ChannelsWaitIdle
    /\ \E d \in 0..Infinity : TimeToPendingIs(d) /\ NotifyAt(d)
    /\ SleeperEnd
    /\ UNCHANGED <<gpVars, runnable, asyncWait, asyncPending, ntf, ended>>

\* Mutant: the same-instant check is lost; the sleeper always re-arms.
SleeperWaitIdle_Spin ==
    /\ kpc = Sleeper /\ slp = "decide"
    /\ ~NoSuspending /\ ~WaitUnsuspendable /\ ~ChannelsWaitIdle
    /\ NotifyDelta
    /\ SleeperEnd
    /\ UNCHANGED <<gpVars, runnable, asyncWait, asyncPending, ntf, ended>>

\* Line 46: same-instant work remains; re-check in the next delta.
SleeperWaitIdle ==
    /\ kpc = Sleeper /\ slp = "decide"
    /\ ~NoSuspending /\ ~WaitUnsuspendable /\ ~ChannelsWaitIdle
    /\ PendingNow
    /\ NotifyDelta
    /\ SleeperEnd
    /\ UNCHANGED <<gpVars, runnable, asyncWait, asyncPending, ntf, ended>>

\* Line 50: "Suspended"; go and take the mutex.
SleeperSuspend ==
    /\ kpc = Sleeper /\ slp = "decide"
    /\ ~NoSuspending /\ ~WaitUnsuspendable /\ ~ChannelsWaitIdle
    /\ ~PendingNow
    /\ slp' = "check"
    /\ UNCHANGED <<gpVars, kpc, schedVars, ntf, ended>>

\* Line 52, predicate false: block, releasing the mutex.
SleeperBlock ==
    /\ kpc = Sleeper /\ slp = "check"
    /\ ~WaitPredicate
    /\ slp' = "waiting"
    /\ UNCHANGED <<gpVars, kpc, schedVars, ntf, ended>>

\* std::condition_variable may return from wait without a notification.
SpuriousWakeup ==
    /\ ~ended
    /\ slp = "waiting"
    /\ slp' = "check"
    /\ UNCHANGED <<gpVars, kpc, schedVars, ntf, ended>>

\* Mutant: "if (wakeups)" is dropped before "wakeups--".
SleeperWake_NoGuard ==
    /\ kpc = Sleeper /\ slp = "check"
    /\ WaitPredicate
    /\ wakeups' = wakeups - 1
    /\ IF m_suspend > 0 \/ m_has_suspending_channels
       THEN NotifyDelta
       ELSE UNCHANGED <<deltaN, timed>>
    /\ SleeperEnd
    /\ UNCHANGED <<m_suspend, m_unsuspendable, m_suspend_all_req_map,
                   m_unsuspendable_map, m_suspending_channels, fault,
                   runnable, asyncWait, asyncPending, ntf, ended>>

\* Mutant: the "Loop again" re-arm after the wait is dropped.
SleeperWake_NoLoop ==
    /\ kpc = Sleeper /\ slp = "check"
    /\ WaitPredicate
    /\ wakeups' = IF wakeups > 0 THEN wakeups - 1 ELSE 0
    /\ SleeperEnd
    /\ UNCHANGED <<m_suspend, m_unsuspendable, m_suspend_all_req_map,
                   m_unsuspendable_map, m_suspending_channels, fault,
                   schedVars, ntf, ended>>

\* Lines 52-65, predicate true: consume one wakeup and loop again while a
\* suspension is still requested.
SleeperWake ==
    /\ kpc = Sleeper /\ slp = "check"
    /\ WaitPredicate
    /\ wakeups' = IF wakeups > 0 THEN wakeups - 1 ELSE 0
    /\ IF m_suspend > 0 \/ m_has_suspending_channels
       THEN NotifyDelta
       ELSE UNCHANGED <<deltaN, timed>>
    /\ SleeperEnd
    /\ UNCHANGED <<m_suspend, m_unsuspendable, m_suspend_all_req_map,
                   m_unsuspendable_map, m_suspending_channels, fault,
                   runnable, asyncWait, asyncPending, ntf, ended>>

SleeperStep ==
    \/ SleeperNoSuspending \/ SleeperWaitPending \/ SleeperWaitIdle
    \/ SleeperSuspend \/ SleeperBlock \/ SleeperWake

-----------------------------------------------------------------------------
(* The SystemC kernel's simulation loop (spec section 6 collaborator).     *)

\* Evaluation phase: run one runnable process.
Dispatch(e) ==
    /\ kpc = "kernel"
    /\ e \in runnable
    /\ runnable' = runnable \ {e}
    /\ kpc' = e
    /\ slp' = IF e = Sleeper THEN "decide" ELSE slp
    /\ UNCHANGED <<gpVars, deltaN, timed, asyncWait, asyncPending, ntf, ended>>

\* Update and delta-notification phases: async updates wake the processes
\* waiting on async events, delta notifications make their processes runnable.
DeltaCycle ==
    /\ kpc = "kernel"
    /\ runnable = {}
    /\ deltaN # {} \/ asyncPending
    /\ runnable' = deltaN \cup (IF asyncPending THEN asyncWait ELSE {})
    /\ asyncWait' = IF asyncPending THEN {} ELSE asyncWait
    /\ deltaN' = {}
    /\ asyncPending' = FALSE
    /\ UNCHANGED <<gpVars, kpc, slp, timed, ntf, ended>>

\* Nothing left at the current time: advance to the earliest timed trigger.
AdvanceTime ==
    /\ kpc = "kernel"
    /\ ~PendingNow
    /\ TimedSet # {}
    /\ \E d \in 1..MaxDelay :
          /\ TimeToPendingIs(d)
          /\ runnable' = {e \in TimedSet : timed[e] = d}
          /\ timed' = [e \in Entities |-> IF timed[e] = 0 THEN 0 ELSE timed[e] - d]
    /\ UNCHANGED <<gpVars, kpc, slp, deltaN, asyncWait, asyncPending, ntf, ended>>

\* No activity at all: sc_start returns.
EndOfSimulation ==
    /\ kpc = "kernel"
    /\ ~ended
    /\ ~PendingActivity
    /\ ended' = TRUE
    /\ UNCHANGED <<gpVars, kpc, slp, schedVars, ntf>>

KernelStep == (\E e \in runnable : Dispatch(e)) \/ DeltaCycle \/ AdvanceTime \/ EndOfSimulation

-----------------------------------------------------------------------------
(* Foreign threads.                                                        *)

InFlight == {n \in Notifiers : ntf[n] = "updated"}

\* async_event::async_notify, first half: async_request_update().  The bound
\* keeps wakeups within MaxWakeups.
AsyncRequestUpdate(n) ==
    /\ ~ended
    /\ ntf[n] = "idle"
    /\ wakeups + Cardinality(InFlight) < MaxWakeups
    /\ asyncPending' = TRUE
    /\ ntf' = [ntf EXCEPT ![n] = "updated"]
    /\ UNCHANGED <<gpVars, kpc, slp, runnable, deltaN, timed, asyncWait, ended>>

\* Mutant: async_wakeup counts the wakeup but forgets cond.notify_all().
async_wakeup_NoNotify(n) ==
    /\ ~ended
    /\ ntf[n] = "updated"
    /\ wakeups' = wakeups + 1
    /\ ntf' = [ntf EXCEPT ![n] = "idle"]
    /\ UNCHANGED <<m_suspend, m_unsuspendable, m_suspend_all_req_map,
                   m_unsuspendable_map, m_suspending_channels, fault, kpc, slp,
                   schedVars, ended>>

\* global_pause::async_wakeup(): under the mutex, count and notify_all.
async_wakeup(n) ==
    /\ ~ended
    /\ ntf[n] = "updated"
    /\ wakeups' = wakeups + 1
    /\ slp' = IF slp = "waiting" THEN "check" ELSE slp
    /\ ntf' = [ntf EXCEPT ![n] = "idle"]
    /\ UNCHANGED <<m_suspend, m_unsuspendable, m_suspend_all_req_map,
                   m_unsuspendable_map, m_suspending_channels, fault, kpc,
                   schedVars, ended>>

\* attach_suspending / detach_suspending: callable from any thread, unlocked,
\* and neither notifies sleeper_event.
attach_suspending(c) ==
    /\ ~ended
    /\ c \notin m_suspending_channels   \* else: returns false
    /\ m_suspending_channels' = m_suspending_channels \cup {c}
    /\ UNCHANGED <<m_suspend, m_unsuspendable, m_suspend_all_req_map,
                   m_unsuspendable_map, wakeups, fault, kpc, slp, schedVars,
                   ntf, ended>>

detach_suspending(c) ==
    /\ ~ended
    /\ c \in m_suspending_channels      \* else: returns false
    /\ m_suspending_channels' = m_suspending_channels \ {c}
    /\ UNCHANGED <<m_suspend, m_unsuspendable, m_suspend_all_req_map,
                   m_unsuspendable_map, wakeups, fault, kpc, slp, schedVars,
                   ntf, ended>>

-----------------------------------------------------------------------------
ProcStep(p) ==
    \/ suspend_all(p) \/ unsuspend_all(p) \/ unsuspendable(p) \/ suspendable(p)
    \/ Yield(p)

\* After sc_start returns (or an assert aborted) nothing moves any more.
Terminated ==
    /\ ended
    /\ UNCHANGED vars

Next ==
    \/ \E p \in Procs : ProcStep(p)
    \/ SleeperStep
    \/ SpuriousWakeup
    \/ KernelStep
    \/ \E n \in Notifiers : AsyncRequestUpdate(n)
    \/ \E n \in Notifiers : async_wakeup(n)
    \/ \E c \in Channels : attach_suspending(c)
    \/ \E c \in Channels : detach_suspending(c)
    \/ Terminated

Spec == Init /\ [][Next]_vars

\* The kernel thread is never preempted and always goes on with its loop;
\* the sleeper and every activation of a user process run to their end; a
\* foreign thread inside async_notify finishes it.  Spurious wakeups, new
\* notifications and attach/detach calls are not required to happen.
Fairness ==
    /\ WF_vars(KernelStep)
    /\ WF_vars(SleeperStep)
    /\ \A p \in Procs : WF_vars(Yield(p))
    /\ \A n \in Notifiers : WF_vars(async_wakeup(n))

FairSpec == Spec /\ Fairness

\* The refinement mapping to the coordinator of spec sections 3 and 4: the
\* callers are the SystemC processes, a request or region is a map entry
\* that is set, and the registry is the vector of suspending channels.
Coord == INSTANCE SuspendCoordinator
           WITH Callers <- Procs, Handles <- Channels,
                suspendAllCount <- m_suspend,
                unsuspendableCount <- m_unsuspendable,
                requested <- {p \in Procs : m_suspend_all_req_map[p]},
                holding <- {p \in Procs : m_unsuspendable_map[p]},
                pendingWakeups <- wakeups,
                channels <- m_suspending_channels

-----------------------------------------------------------------------------
(* Properties.                                                             *)

TypeOK ==
    /\ m_suspend \in Nat
    /\ m_unsuspendable \in Nat
    /\ m_suspend_all_req_map \in [Procs -> BOOLEAN]
    /\ m_unsuspendable_map \in [Procs -> BOOLEAN]
    /\ m_suspending_channels \in SUBSET Channels
    /\ wakeups \in Nat
    /\ fault \in {"none", "suspend_underflow", "unsuspendable_underflow"}
    /\ kpc \in {"kernel", "aborted"} \cup Entities
    /\ slp \in {"idle", "decide", "check", "waiting"}
    /\ runnable \in SUBSET Entities
    /\ deltaN \in SUBSET Entities
    /\ timed \in [Entities -> 0..MaxDelay]
    /\ asyncWait \in SUBSET Procs
    /\ asyncPending \in BOOLEAN
    /\ ntf \in [Notifiers -> {"idle", "updated"}]
    /\ ended \in BOOLEAN

\* The sleeper will run again: it is runnable, triggered for the next delta,
\* has a timed trigger, or is running now.
SleeperArmed ==
    \/ Sleeper \in runnable \cup deltaN
    \/ timed[Sleeper] > 0
    \/ kpc = Sleeper

\* Spec section 3 (counter conservation) and the asserts of suspendable()
\* and unsuspend_all(): with every call made from a SystemC process, no
\* assert fires and each counter equals the number of processes whose map
\* entry is set, whatever the order of the request/release calls.
CountersMatchMaps ==
    /\ fault = "none"
    /\ m_suspend = Cardinality({p \in Procs : m_suspend_all_req_map[p]})
    /\ m_unsuspendable = Cardinality({p \in Procs : m_unsuspendable_map[p]})

\* A suspend_all() request is never left unenforced: while m_suspend > 0 the
\* sleeper method will run again (suspend_all notifies sleeper_event, and
\* every branch of sleeper() taken with m_suspend > 0 re-arms it or blocks).
SuspendArmed == m_suspend > 0 => SleeperArmed

\* Spec section 4.1: attaching a suspending channel, like a suspend_all()
\* request, triggers a re-evaluation, so while either policy is active the
\* sleeper will run again.
PolicyArmed == (m_suspend > 0 \/ m_has_suspending_channels) => SleeperArmed

\* No lost wakeup (spec sections 5 and 8): the sleeper is never blocked in
\* cond.wait while its wake condition already holds (a wakeup counted,
\* activity pending now, the suspension released or an unsuspendable region
\* open), unless a foreign thread inside async_notify is about to signal.
NoMissedWakeup ==
    slp = "waiting" /\ (wakeups > 0 \/ PendingNow \/ m_suspend = 0 \/ m_unsuspendable > 0)
        => InFlight # {}

\* A global pause freezes simulated time: the kernel never advances time
\* while a suspend_all() request is active and no unsuspendable region is
\* open (sleeper() then only re-arms in zero time or blocks, and
\* suspend_all / suspendable override its timed trigger).
PauseFreezesTime ==
    [][AdvanceTime => ~(m_suspend > 0 /\ m_unsuspendable = 0)]_vars

\* Work injected by a foreign thread is not lost: a process waiting on an
\* async event whose update has been posted eventually runs, even when the
\* kernel is blocked in the sleeper's cond.wait at the time.
AsyncWorkRuns ==
    \A p \in Procs : (p \in asyncWait /\ asyncPending) ~> (p \notin asyncWait)

\* The kernel is paused: a suspension is requested, no unsuspendable region
\* is open, nothing but the sleeper is due at the current instant and no
\* foreign notification is under way.
Paused ==
    /\ m_suspend > 0
    /\ m_unsuspendable = 0
    /\ runnable \cup deltaN \subseteq {Sleeper}
    /\ ~asyncPending
    /\ InFlight = {}

\* A paused kernel goes to sleep rather than spinning: once paused, the
\* sleeper eventually blocks in cond.wait (or the pause ends first).
SuspendedKernelSleeps == Paused ~> (slp = "waiting" \/ ~Paused)

\* The kernel is idle with only a suspending channel holding it: no
\* suspension request, no unsuspendable region, nothing but the sleeper due
\* now or later, no foreign notification under way, and the sleeper armed.
ChannelIdle ==
    /\ m_suspend = 0
    /\ m_has_suspending_channels
    /\ m_unsuspendable = 0
    /\ runnable \cup deltaN \subseteq {Sleeper}
    /\ TimedSet \subseteq {Sleeper}
    /\ ~asyncPending
    /\ InFlight = {}
    /\ SleeperArmed

\* Spec section 1: a scheduler with no useful work goes idle instead of
\* spinning.  Stated for the suspending-channel policy: an idle kernel held
\* only by an attached channel eventually blocks in cond.wait.
ChannelIdleSleeps == ChannelIdle ~> (slp = "waiting" \/ ~ChannelIdle)

\* GlobalPause implements the coordinator of the spec: every step of the
\* kernel, the sleeper, the processes and the foreign threads is a request,
\* release, region entry or exit of one caller, a wakeup counted or
\* consumed, an attach or a detach, or leaves all of that unchanged; in
\* particular the per-process idempotence checks of suspend_all(),
\* unsuspend_all(), unsuspendable() and suspendable() never let a counter
\* move without its map entry.
ImplementsCoordinator == Coord!Spec

====
