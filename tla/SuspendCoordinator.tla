-------------------------- MODULE SuspendCoordinator --------------------------
(***************************************************************************)
(* What the suspend coordinator promises (the data model of spec section   *)
(* 3 and the operations of sections 4.1 and 4.2), with no scheduler: the   *)
(* outstanding suspend-all requests and unsuspendable regions, each at     *)
(* most one per caller and counted; the asynchronous wakeups not yet       *)
(* consumed; the registry of suspending channels.                          *)
(*                                                                         *)
(* GlobalPause implements it (GlobalPause!Coord).                          *)
(***************************************************************************)
EXTENDS Naturals

CONSTANTS
    Callers,     \* caller identities
    Handles      \* channel handles

VARIABLES
    suspendAllCount,
    unsuspendableCount,
    requested,       \* the callers with an outstanding suspend-all request
    holding,         \* the callers inside an unsuspendable region
    pendingWakeups,
    channels         \* the registry

cvars == <<suspendAllCount, unsuspendableCount, requested, holding,
           pendingWakeups, channels>>

Init ==
    /\ suspendAllCount = 0 /\ unsuspendableCount = 0
    /\ requested = {} /\ holding = {}
    /\ pendingWakeups = 0
    /\ channels = {}

\* A second request of the same caller, or a release without one, is a
\* no-op: the actions below are the calls that change something.
RequestSuspendAll(c) ==
    /\ c \notin requested
    /\ requested' = requested \cup {c}
    /\ suspendAllCount' = suspendAllCount + 1
    /\ UNCHANGED <<unsuspendableCount, holding, pendingWakeups, channels>>

ReleaseSuspendAll(c) ==
    /\ c \in requested
    /\ requested' = requested \ {c}
    /\ suspendAllCount' = suspendAllCount - 1
    /\ UNCHANGED <<unsuspendableCount, holding, pendingWakeups, channels>>

EnterUnsuspendable(c) ==
    /\ c \notin holding
    /\ holding' = holding \cup {c}
    /\ unsuspendableCount' = unsuspendableCount + 1
    /\ UNCHANGED <<suspendAllCount, requested, pendingWakeups, channels>>

ExitUnsuspendable(c) ==
    /\ c \in holding
    /\ holding' = holding \ {c}
    /\ unsuspendableCount' = unsuspendableCount - 1
    /\ UNCHANGED <<suspendAllCount, requested, pendingWakeups, channels>>

NotifyAsync ==
    /\ pendingWakeups' = pendingWakeups + 1
    /\ UNCHANGED <<suspendAllCount, unsuspendableCount, requested, holding, channels>>

\* The sleep loop, woken, consumes one wakeup.
ConsumeWakeup ==
    /\ pendingWakeups > 0
    /\ pendingWakeups' = pendingWakeups - 1
    /\ UNCHANGED <<suspendAllCount, unsuspendableCount, requested, holding, channels>>

Attach(h) ==
    /\ h \notin channels
    /\ channels' = channels \cup {h}
    /\ UNCHANGED <<suspendAllCount, unsuspendableCount, requested, holding, pendingWakeups>>

Detach(h) ==
    /\ h \in channels
    /\ channels' = channels \ {h}
    /\ UNCHANGED <<suspendAllCount, unsuspendableCount, requested, holding, pendingWakeups>>

Next ==
    \/ \E c \in Callers :
          RequestSuspendAll(c) \/ ReleaseSuspendAll(c)
          \/ EnterUnsuspendable(c) \/ ExitUnsuspendable(c)
    \/ NotifyAsync \/ ConsumeWakeup
    \/ \E h \in Handles : Attach(h) \/ Detach(h)

Spec == Init /\ [][Next]_cvars

====
