--------------------------- MODULE ExecutionGate ---------------------------
(* BrowserExecutionCoordinator (daemon/execution.py): the gate every browser *)
(* request of the daemon passes.  One asyncio.Condition guards three fields; *)
(* its critical sections contain no await but Condition.wait itself, so the  *)
(* lock is never contended: entering `scope', re-evaluating the predicate    *)
(* after a wake-up and leaving are one step each.  A request sleeping in     *)
(* wait_for looks at the predicate again only after a notify_all.            *)
EXTENDS Naturals, FiniteSets

CONSTANTS
    Requests,    \* the tasks that use the gate (a task may come back)
    None         \* Python's None

Shared == {"shared"}
Exclusives == {"batch", "exclusive"}
Kinds == Shared \cup Exclusives \cup {"cleanup"}

ASSUME GateAssumption ==
    /\ IsFiniteSet(Requests)
    /\ None \notin Kinds

VARIABLES
    active,      \* _active
    waiters,     \* _exclusive_waiters
    mode,        \* _exclusive_mode
    pc,          \* where each task is: outside, sleeping in wait_for, notified, inside
    kind         \* the mode the task asked for ("shared" again when it is outside)

vars == <<active, waiters, mode, pc, kind>>

Places == {"outside", "sleeping", "notified", "inside"}

Queued(r) == pc[r] \in {"sleeping", "notified"}
Inside == {r \in Requests : pc[r] = "inside"}
QueuedExclusives == {r \in Requests : Queued(r) /\ kind[r] \in Exclusives}

TypeOK ==
    /\ active \in Nat
    /\ waiters \in Nat
    /\ mode \in Exclusives \cup {None}
    /\ pc \in [Requests -> Places]
    /\ kind \in [Requests -> Kinds]

Init ==
    /\ active = 0
    /\ waiters = 0
    /\ mode = None
    /\ pc = [r \in Requests |-> "outside"]
    /\ kind = [r \in Requests |-> "shared"]

-----------------------------------------------------------------------------
(* Plausible slips of the code, for the mutation runs: a cleanup that does   *)
(* not look at the mode, a shared action that does not look at the waiters.  *)
MayEnter_CleanupUnchecked(k) ==
    \/ k \in Exclusives /\ active = 0
    \/ k = "cleanup"
    \/ k \in Shared /\ mode = None /\ waiters = 0

MayEnter_WaitersIgnored(k) ==
    \/ k \in Exclusives /\ active = 0
    \/ k = "cleanup" /\ mode \in {None, "batch"}
    \/ k \in Shared /\ mode = None

(* The three predicates of wait_for. *)
MayEnter(k) ==
    \/ k \in Exclusives /\ active = 0
    \/ k = "cleanup" /\ mode \in {None, "batch"}
    \/ k \in Shared /\ mode = None /\ waiters = 0

(* notify_all: every sleeping task is scheduled again. *)
NotifyAll(places) ==
    [r \in Requests |-> IF places[r] = "sleeping" THEN "notified" ELSE places[r]]

(* The rest of the entry once the predicate holds.  An exclusive task takes  *)
(* the mode and leaves the waiters (count of them after it left), and its    *)
(* finally clause notifies; the others just count themselves in.             *)
Admit(r, k, waitersLeft) ==
    /\ active' = active + 1
    /\ waiters' = waitersLeft
    /\ IF k \in Exclusives
       THEN /\ mode' = k
            /\ pc' = [NotifyAll(pc) EXCEPT ![r] = "inside"]
       ELSE /\ mode' = mode
            /\ pc' = [pc EXCEPT ![r] = "inside"]

(* A task reaches `async with scope(mode=k)' and finds the predicate true... *)
EnterAtOnce(r, k) ==
    /\ pc[r] = "outside"
    /\ MayEnter(k)
    /\ Admit(r, k, waiters)
    /\ kind' = [kind EXCEPT ![r] = k]

(* ... or false, and goes to sleep; an exclusive one is counted as a waiter. *)
EnterAndWait(r, k) ==
    /\ pc[r] = "outside"
    /\ ~MayEnter(k)
    /\ pc' = [pc EXCEPT ![r] = "sleeping"]
    /\ kind' = [kind EXCEPT ![r] = k]
    /\ waiters' = IF k \in Exclusives THEN waiters + 1 ELSE waiters
    /\ UNCHANGED <<active, mode>>

Enter(r) == \E k \in Kinds : EnterAtOnce(r, k) \/ EnterAndWait(r, k)

(* A notified task runs again and re-evaluates its predicate. *)
WakeAndEnter(r) ==
    /\ pc[r] = "notified"
    /\ MayEnter(kind[r])
    /\ Admit(r, kind[r], IF kind[r] \in Exclusives THEN waiters - 1 ELSE waiters)
    /\ UNCHANGED kind

WakeAndSleep(r) ==
    /\ pc[r] = "notified"
    /\ ~MayEnter(kind[r])
    /\ pc' = [pc EXCEPT ![r] = "sleeping"]
    /\ UNCHANGED <<active, waiters, mode, kind>>

Wake(r) == WakeAndEnter(r) \/ WakeAndSleep(r)

(* Slips: the waiter is counted out outside the finally clause, or for every *)
(* kind of request, or nobody is told that it left.                          *)
CancelQueued_StillCounted(r) ==
    /\ Queued(r)
    /\ pc' = [pc EXCEPT ![r] = "outside"]
    /\ kind' = [kind EXCEPT ![r] = "shared"]
    /\ UNCHANGED <<active, waiters, mode>>

CancelQueued_Silent(r) ==
    /\ Queued(r)
    /\ waiters' = IF kind[r] \in Exclusives THEN waiters - 1 ELSE waiters
    /\ pc' = [pc EXCEPT ![r] = "outside"]
    /\ kind' = [kind EXCEPT ![r] = "shared"]
    /\ UNCHANGED <<active, mode>>

(* The task is cancelled while queued: a run that is cancelled before its    *)
(* turn, or the shutdown of the loop.  Only the exclusive branch has a       *)
(* finally clause, which counts the waiter out and notifies.                 *)
CancelQueued(r) ==
    /\ Queued(r)
    /\ IF kind[r] \in Exclusives
       THEN /\ waiters' = waiters - 1
            /\ pc' = [NotifyAll(pc) EXCEPT ![r] = "outside"]
       ELSE /\ waiters' = waiters
            /\ pc' = [pc EXCEPT ![r] = "outside"]
    /\ kind' = [kind EXCEPT ![r] = "shared"]
    /\ UNCHANGED <<active, mode>>

(* The body of the scope ends: normally, with an error or by cancellation. *)
Leave(r) ==
    /\ pc[r] = "inside"
    /\ active' = active - 1
    /\ mode' = IF kind[r] \in Exclusives THEN None ELSE mode
    /\ pc' = [NotifyAll(pc) EXCEPT ![r] = "outside"]
    /\ kind' = [kind EXCEPT ![r] = "shared"]
    /\ UNCHANGED waiters

Next == \E r \in Requests : Enter(r) \/ Wake(r) \/ CancelQueued(r) \/ Leave(r)

Spec == Init /\ [][Next]_vars

(* The event loop runs every ready task, and the work inside a scope ends.   *)
(* Nothing forces a request to arrive or to be cancelled.                    *)
Fairness == \A r \in Requests : WF_vars(Wake(r)) /\ WF_vars(Leave(r))

FairSpec == Spec /\ Fairness

-----------------------------------------------------------------------------
(* A batch runs with nothing but page cleanup beside it, and stop or a       *)
(* workspace rebuild with nothing at all (execution.py: cleanup "must not    *)
(* race a global stop or workspace rebuild").                                *)
ExclusiveIsolation ==
    \A r, s \in Inside :
        (r # s /\ kind[r] \in Exclusives)
            => (kind[r] = "batch" /\ kind[s] = "cleanup")

(* The three fields say what the tasks are doing: otherwise a leaked count   *)
(* shuts the gate for good, or a lost one opens it under a holder.           *)
CountsAgree ==
    /\ active = Cardinality(Inside)
    /\ waiters = Cardinality(QueuedExclusives)
    /\ \A r \in Inside : kind[r] \in Exclusives => mode = kind[r]
    /\ mode # None => \E r \in Inside : kind[r] = mode

(* No lost wake-up: a task that sleeps un-notified could not enter, whatever *)
(* happened (entries, exits, cancellations) since it last looked.            *)
NoLostWakeup ==
    \A r \in Requests : pc[r] = "sleeping" => ~MayEnter(kind[r])

(* "Waiting batches take priority over newly arriving browser actions": no   *)
(* shared action gets inside while an exclusive request is queued.           *)
NoSharedPastQueuedExclusive ==
    [][\A r \in Requests :
         (pc[r] # "inside" /\ pc'[r] = "inside" /\ kind'[r] = "shared")
             => QueuedExclusives = {}]_vars

(* Whatever came before, a queued request is admitted (or cancelled) once    *)
(* the other requests are only shared actions, however many of those keep    *)
(* arriving: a batch, stop or rebuild because it holds them back, a shared   *)
(* action or a page cleanup because what blocked it notified it.             *)
AdmittedAmongShared ==
    \A r \in Requests :
        (<>[](\A s \in Requests \ {r} : kind[s] = "shared"))
            => (Queued(r) ~> ~Queued(r))
=============================================================================
