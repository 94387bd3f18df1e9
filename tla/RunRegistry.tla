---------------------------- MODULE RunRegistry ----------------------------
(* CommandRunRegistry (daemon/run_registry.py): background reads kept in the *)
(* memory of the daemon.  A run is a record and an asyncio task; the task    *)
(* waits for a shared scope of the execution gate, begins a command, reads,  *)
(* and ends the command in a finally clause.  Cancellation is a request that *)
(* the task meets at its next await, so it races every stage of the run.     *)
(* The gate appears here only as "admitted now or later" (ExecutionGate).    *)
EXTENDS Naturals, FiniteSets

CONSTANTS
    MaxRuns,       \* bound of the model: reads started in a behaviour
    MaxCompleted,  \* max_completed_runs
    LossyCancel    \* TRUE: asyncio.wait_for may swallow a cancellation when its
                   \* future is already done (Python 3.10 and 3.11)

ASSUME RunAssumption ==
    /\ MaxRuns \in Nat
    /\ MaxCompleted \in Nat
    /\ LossyCancel \in BOOLEAN

Runs == 1..MaxRuns

Terminal == {"succeeded", "failed", "canceled"}
Statuses == {"queued", "running", "cancel_requested"} \cup Terminal

(* Where the task of a run is.  "callback": it is done and its done callback *)
(* is scheduled.                                                             *)
Live == {"created", "queued", "begin", "read", "end"}
Stages == {"none", "callback", "finished"} \cup Live

VARIABLES
    counter,   \* _counter
    status,    \* _runs: the status of each run the registry still knows
    result,    \* the runs whose record has a result
    stage,     \* the task of each run
    asked,     \* tasks with a cancellation they have not met yet
    raising,   \* how a run in its finally clause will end
    depth      \* commands begun and not ended by the runs (BrowserService)

vars == <<counter, status, result, stage, asked, raising, depth>>

Known == DOMAIN status

TypeOK ==
    /\ counter \in 0..MaxRuns
    /\ Known \subseteq 1..counter
    /\ status \in [Known -> Statuses]
    /\ result \subseteq Runs
    /\ stage \in [Runs -> Stages]
    /\ asked \subseteq Runs
    /\ raising \in [Runs -> Terminal]
    /\ depth \in Nat

Init ==
    /\ counter = 0
    /\ status = [r \in {} |-> "queued"]
    /\ result = {}
    /\ stage = [r \in Runs |-> "none"]
    /\ asked = {}
    /\ raising = [r \in Runs |-> "succeeded"]
    /\ depth = 0

-----------------------------------------------------------------------------
(* Slip: the comparison of the sizes is off by one. *)
Evict_OneTooMany(st, busy) ==
    LET excess == Cardinality(DOMAIN st) - (MaxCompleted + 1)
        evictable == {r \in DOMAIN st : st[r] \in Terminal /\ r \notin busy}
        evicted == {r \in evictable : Cardinality({s \in evictable : s < r}) < excess}
    IN  IF Cardinality(DOMAIN st) <= MaxCompleted + 1
        THEN st
        ELSE [r \in DOMAIN st \ evicted |-> st[r]]

(* _evict_completed_runs: while there are more records than the maximum, the *)
(* oldest terminal records whose task is done go.                            *)
Evict(st, busy) ==
    LET excess == Cardinality(DOMAIN st) - MaxCompleted
        evictable == {r \in DOMAIN st : st[r] \in Terminal /\ r \notin busy}
        evicted == {r \in evictable : Cardinality({s \in evictable : s < r}) < excess}
    IN  IF Cardinality(DOMAIN st) <= MaxCompleted
        THEN st
        ELSE [r \in DOMAIN st \ evicted |-> st[r]]

Busy == {r \in Runs : stage[r] \in Live}

(* start_read: the record, the task and its done callback, then eviction. *)
StartRead ==
    /\ counter < MaxRuns
    /\ LET r == counter + 1
       IN  /\ counter' = r
           /\ stage' = [stage EXCEPT ![r] = "created"]
           /\ status' = Evict([x \in Known \cup {r} |->
                                  IF x = r THEN "queued" ELSE status[x]],
                              Busy \cup {r})
    /\ UNCHANGED <<result, asked, raising, depth>>

(* cancel: only a task that is not done is asked. *)
Cancel(r) ==
    /\ r \in Known
    /\ stage[r] \in Live
    /\ status' = [status EXCEPT ![r] = "cancel_requested"]
    /\ asked' = asked \cup {r}
    /\ UNCHANGED <<counter, result, stage, raising, depth>>

-----------------------------------------------------------------------------
(* The task.  Its last step writes the terminal status and evicts while the  *)
(* task itself is not yet done.                                              *)
Finish(r, outcome) ==
    /\ status' = Evict([status EXCEPT ![r] = outcome], Busy)
    /\ stage' = [stage EXCEPT ![r] = "callback"]
    /\ asked' = asked \ {r}

(* Cancelled before its first turn: the coroutine's try is never entered. *)
NeverRan(r) ==
    /\ stage[r] = "created" /\ r \in asked
    /\ stage' = [stage EXCEPT ![r] = "callback"]
    /\ asked' = asked \ {r}
    /\ UNCHANGED <<counter, status, result, raising, depth>>

(* The first turn, when the gate does not admit the run at once. *)
QueueAtGate(r) ==
    /\ stage[r] = "created" /\ r \notin asked
    /\ stage' = [stage EXCEPT ![r] = "queued"]
    /\ UNCHANGED <<counter, status, result, asked, raising, depth>>

(* Inside the scope: _read_in_scope starts and awaits begin_command. *)
Admitted(r) ==
    /\ stage[r] \in {"created", "queued"} /\ r \notin asked
    /\ status' = [status EXCEPT ![r] = "running"]
    /\ stage' = [stage EXCEPT ![r] = "begin"]
    /\ UNCHANGED <<counter, result, asked, raising, depth>>

(* begin_command counts the command in its last step, and nothing can cancel *)
(* the task between that and command_started = True.                         *)
Begun(r) ==
    /\ stage[r] = "begin" /\ r \notin asked
    /\ depth' = depth + 1
    /\ stage' = [stage EXCEPT ![r] = "read"]
    /\ UNCHANGED <<counter, status, result, asked, raising>>

BeginFails(r) ==
    /\ stage[r] = "begin" /\ r \notin asked
    /\ Finish(r, "failed")
    /\ UNCHANGED <<counter, result, raising, depth>>

(* The finally clause: end_command counts the command out at once and may    *)
(* then await a driver change.                                               *)
ToEnd(r, outcome) ==
    /\ depth' = depth - 1
    /\ raising' = [raising EXCEPT ![r] = outcome]
    /\ stage' = [stage EXCEPT ![r] = "end"]

ReadDone(r) ==
    /\ stage[r] = "read" /\ r \notin asked
    /\ result' = result \cup {r}
    /\ ToEnd(r, "succeeded")
    /\ UNCHANGED <<counter, status, asked>>

ReadFails(r) ==
    /\ stage[r] = "read" /\ r \notin asked
    /\ ToEnd(r, "failed")
    /\ UNCHANGED <<counter, status, result, asked>>

EndDone(r) ==
    /\ stage[r] = "end" /\ r \notin asked
    /\ Finish(r, raising[r])
    /\ UNCHANGED <<counter, result, raising, depth>>

(* An error of end_command replaces whatever the read was going to report. *)
EndFails(r) ==
    /\ stage[r] = "end" /\ r \notin asked
    /\ Finish(r, "failed")
    /\ UNCHANGED <<counter, result, raising, depth>>

(* Slips: a cancelled read that skips its finally clause, or a wait at the   *)
(* gate that ignores the cancellation.                                       *)
MeetsCancel_NoFinally(r) ==
    /\ stage[r] \in {"queued", "begin", "read", "end"} /\ r \in asked
    /\ Finish(r, "canceled")
    /\ UNCHANGED <<counter, result, raising, depth>>

MeetsCancel_Stuck(r) ==
    /\ stage[r] \in {"begin", "read", "end"} /\ r \in asked
    /\ IF stage[r] = "read"
       THEN ToEnd(r, "canceled") /\ asked' = asked \ {r} /\ UNCHANGED status
       ELSE Finish(r, "canceled") /\ UNCHANGED <<raising, depth>>
    /\ UNCHANGED <<counter, result>>

(* The task resumes with CancelledError: in the gate's queue, in             *)
(* begin_command or in end_command it ends; in the read it first runs the    *)
(* finally clause.                                                           *)
MeetsCancel(r) ==
    /\ stage[r] \in {"queued", "begin", "read", "end"} /\ r \in asked
    /\ IF stage[r] = "read"
       THEN ToEnd(r, "canceled") /\ asked' = asked \ {r} /\ UNCHANGED status
       ELSE Finish(r, "canceled") /\ UNCHANGED <<raising, depth>>
    /\ UNCHANGED <<counter, result>>

(* wait_for returns the answer that had arrived and forgets the request. *)
SwallowsCancel(r) ==
    /\ LossyCancel
    /\ stage[r] \in {"begin", "read", "end"} /\ r \in asked
    /\ asked' = asked \ {r}
    /\ UNCHANGED <<counter, status, result, stage, raising, depth>>

(* Slip: a done callback that overwrites what the task wrote. *)
RunFinished_Overwrites(r) ==
    /\ stage[r] = "callback"
    /\ stage' = [stage EXCEPT ![r] = "finished"]
    /\ LET st == IF r \in Known THEN [status EXCEPT ![r] = "canceled"] ELSE status
       IN  status' = Evict(st, Busy)
    /\ UNCHANGED <<counter, result, asked, raising, depth>>

(* _run_finished: only a task that was cancelled before its first turn has   *)
(* no terminal status yet.                                                   *)
RunFinished(r) ==
    /\ stage[r] = "callback"
    /\ stage' = [stage EXCEPT ![r] = "finished"]
    /\ LET st == IF r \in Known /\ status[r] = "cancel_requested"
                 THEN [status EXCEPT ![r] = "canceled"] ELSE status
       IN  status' = Evict(st, Busy)
    /\ UNCHANGED <<counter, result, asked, raising, depth>>

TaskStep(r) ==
    \/ NeverRan(r) \/ QueueAtGate(r) \/ Admitted(r) \/ Begun(r) \/ BeginFails(r)
    \/ ReadDone(r) \/ ReadFails(r) \/ EndDone(r) \/ EndFails(r)
    \/ MeetsCancel(r) \/ SwallowsCancel(r) \/ RunFinished(r)

Next == StartRead \/ \E r \in Runs : Cancel(r) \/ TaskStep(r)

Spec == Init /\ [][Next]_vars

(* The event loop runs ready tasks and callbacks, and end_command returns.   *)
(* Nothing is assumed of begin_command and of the read: they may hang.       *)
Fairness ==
    \A r \in Runs : WF_vars(NeverRan(r) \/ MeetsCancel(r) \/ RunFinished(r)
                              \/ EndDone(r) \/ EndFails(r))

FairSpec == Spec /\ Fairness

-----------------------------------------------------------------------------
(* Every begin_command is matched by exactly one end_command on every path:  *)
(* otherwise the command depth never returns to zero and the driver can      *)
(* never be rebound, or it reaches zero under a running command.  And a run  *)
(* the registry knows is terminal exactly when its task can write no more    *)
(* (the cancelled-before-start run waits for its done callback).             *)
RunsAccounted ==
    /\ TypeOK
    /\ depth = Cardinality({r \in Runs : stage[r] = "read"})
    /\ \A r \in Known :
          /\ status[r] \in Terminal => stage[r] \in {"callback", "finished"}
          /\ stage[r] = "finished" => status[r] \in Terminal

(* A terminal status is never revised: not by a late cancel, not by the done *)
(* callback, not by the error of a clean-up.                                 *)
TerminalIsFinal ==
    [][\A r \in Known : status[r] \in Terminal
            => r \notin DOMAIN status' \/ status'[r] = status[r]]_vars

(* The memory is bounded: beyond max_completed_runs the registry holds only  *)
(* runs that are not over (or whose done callback is due).                   *)
MemoryBounded ==
    Cardinality(Known) > MaxCompleted => \A r \in Known : stage[r] # "finished"

(* A cancelled run reaches a terminal status although the read itself, or    *)
(* begin_command, hangs for ever: only a swallowed cancellation, after which *)
(* the task goes on as if nobody had asked, leaves it unfinished.            *)
Swallowed(r) == stage[r] \in {"begin", "read"} /\ r \notin asked
CancelTerminates ==
    \A r \in Runs :
        (r \in Known /\ status[r] = "cancel_requested")
            ~> (r \notin Known \/ status[r] \in Terminal \/ Swallowed(r))
=============================================================================
