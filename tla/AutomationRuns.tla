---------------------------- MODULE AutomationRuns ----------------------------
(* The automation service: the tables of AutomationStore (automation/        *)
(* persistence/store.py), the scheduler and the executor thread of           *)
(* AutomationServiceRuntime (automation/service/runtime.py) and the HTTP     *)
(* handlers that write to the store (automation/api/server.py).  The tables  *)
(* outlive a service process; two processes may be up at once, for nothing   *)
(* keeps two clients from starting one each (automation/service/client.py).  *)
(*                                                                           *)
(* Every store call is one SQLite statement or transaction and one step; a   *)
(* method that makes several is several steps where another thread could     *)
(* tell.  Time is what it does: a next_run_at becomes due, a retry's delay   *)
(* or a run's deadline passes; no clock is set back.  A new run gets its     *)
(* queued_at from the clock in one step and its row in a later one, so that  *)
(* of two threads the second to look may be the first to insert.             *)
EXTENDS Naturals, FiniteSets

CONSTANTS
    Services,     \* processes of the service that may ever be up
    Automations,
    Scheduled,    \* those whose schedule_kind is not manual
    Timed,        \* those with a positive timeout_seconds
    Retries,      \* retry_attempts
    Backoff,      \* retry_backoff_seconds > 0
    MaxRuns,      \* bound: records kept; a new run takes the place of an old one
    MaxEvents,    \* bound: requests, file changes, deaths and failed calls
    None

ASSUME AutomationAssumption ==
    /\ IsFiniteSet(Services) /\ IsFiniteSet(Automations)
    /\ Scheduled \subseteq Automations /\ Timed \subseteq Automations
    /\ Retries \in Nat /\ Backoff \in BOOLEAN
    /\ MaxRuns \in Nat /\ MaxEvents \in Nat
    /\ None \notin Automations \cup Services \cup 1..MaxRuns

VARIABLES
    defs,       \* table automations: enabled, definition_status, next_run_at
    present,    \* automations whose task file and metadata are in order
    runs,       \* table automation_runs, and the rows about to be inserted ("stamped")
    queue,      \* of a run whose queued_at has come: those with none later, itself included
    up,         \* the service processes that are up
    sched,      \* their scheduler threads
    exec,       \* their executor threads
    events,     \* how often the environment has interfered
    orphans,    \* history: runs whose executor went away without an outcome
    overlapped  \* history: two services have been up at once

vars == <<defs, present, runs, queue, up, sched, exec, events, orphans, overlapped>>

Runs == 1..MaxRuns
Terminal == {"success", "failed"}
Pending == {"queued", "running"}
(* The stages of _execute_run that the deadline governs, in their order. *)
Stages == {"daemon_ready", "before_hooks", "task_execution", "after_success_hooks"}
After(stage) == CASE stage = "daemon_ready" -> "before_hooks"
                  [] stage = "before_hooks" -> "task_execution"
                  [] stage = "task_execution" -> "after_success_hooks"
                  [] stage = "after_success_hooks" -> "recording"

NoRun == [auto |-> None, trigger |-> "none", status |-> "none", attempt |-> 0,
          by |-> None, thread |-> "none"]
SchedIdle == [at |-> "idle", todo |-> {}, auto |-> None, next |-> "null"]
ExecIdle == [at |-> "idle", run |-> None, late |-> FALSE, timedOut |-> FALSE]

tables == <<defs, runs, queue>>
history == <<orphans, overlapped>>
Interference == events < MaxEvents /\ events' = events + 1

-----------------------------------------------------------------------------
(* AutomationStore *)

(* _normalize_automation: an enabled automation that can be loaded gets the  *)
(* next occurrence of its schedule, any other none.                          *)
NextRun(a, enabled) ==
    IF enabled /\ a \in present /\ a \in Scheduled THEN "later" ELSE "null"

Normalized(a, enabled) ==
    [enabled |-> enabled, valid |-> a \in present, next |-> NextRun(a, enabled)]

(* A service finds the tables as earlier ones left them. *)
Init ==
    /\ present = Automations
    /\ \E enabled \in SUBSET Automations :
          defs = [a \in Automations |-> Normalized(a, a \in enabled)]
    /\ runs = [r \in Runs |-> NoRun]
    /\ queue = [r \in Runs |-> {}]
    /\ up = {}
    /\ sched = [s \in Services |-> SchedIdle]
    /\ exec = [s \in Services |-> ExecIdle]
    /\ events = 0
    /\ orphans = {} /\ overlapped = FALSE

(* The line: a run joins it behind those that are in it.                     *)
InLine == {r \in Runs : r \in queue[r]}
Ahead(r) == queue[r] \ {r}
Joins(r) == queue' = [queue EXCEPT ![r] = InLine \cup {r}]
Leave(gone) == queue' = [r \in Runs |-> IF r \in gone THEN {} ELSE queue[r] \ gone]

(* create_run, up to its look at the clock; s and thread tell who makes the  *)
(* run.  A retry with a backoff is not in line yet.  Records of finished     *)
(* runs that no other executor looks at any more are used again.             *)
Free(r, s, thread) ==
    /\ runs[r].status \in {"none"} \cup Terminal
    /\ \A t \in Services : exec[t].run = r => t = s /\ thread = "executor"

Stamp(r, a, trigger, attempt, later, s, thread) ==
    /\ Free(r, s, thread) /\ \A q \in Runs : q < r => ~Free(q, s, thread)
    /\ runs' = [runs EXCEPT ![r] = [auto |-> a, trigger |-> trigger, status |-> "stamped",
                                    attempt |-> attempt, by |-> s, thread |-> thread]]
    /\ IF later THEN UNCHANGED queue ELSE Joins(r)

(* Its INSERT. *)
Stamps(s, thread) ==
    {r \in Runs : runs[r].status = "stamped" /\ runs[r].by = s /\ runs[r].thread = thread}

Insert(s, thread) ==
    /\ \E r \in Stamps(s, thread) :
          runs' = [runs EXCEPT ![r] = [@ EXCEPT !.status = "queued", !.by = None,
                                                !.thread = "none"]]
    /\ UNCHANGED queue

(* Slips: only one of the two statuses counts, or any record does. *)
HasPending_QueuedOnly(a) == \E r \in Runs : runs[r].auto = a /\ runs[r].status = "queued"
HasPending_Ever(a) == \E r \in Runs : runs[r].auto = a /\ runs[r].status # "stamped"

(* _has_pending_run *)
HasPending(a) == \E r \in Runs : runs[r].auto = a /\ runs[r].status \in Pending

SetStatus(r, status) == runs' = [runs EXCEPT ![r].status = status]

-----------------------------------------------------------------------------
(* enqueue_due_runs, once per turn of the scheduler's loop: list the         *)
(* automations, then for each that was due look for a pending run, create    *)
(* one, and compute and write the next occurrence.                           *)
SchedTo(s, rec) == sched' = [sched EXCEPT ![s] = rec]
Due(a) == a \in Scheduled /\ defs[a].enabled /\ defs[a].valid /\ defs[a].next = "due"

ListDue(s) ==
    /\ s \in up /\ sched[s].at = "idle" /\ \E a \in Automations : Due(a)
    /\ SchedTo(s, [SchedIdle EXCEPT !.at = "check", !.todo = {a \in Automations : Due(a)}])
    /\ UNCHANGED <<tables, present, up, exec, events, history>>

Rest(s, a) ==
    LET todo == sched[s].todo \ {a}
    IN  [SchedIdle EXCEPT !.at = IF todo = {} THEN "idle" ELSE "check", !.todo = todo]

CheckPending(s) ==
    /\ sched[s].at = "check"
    /\ \E a \in sched[s].todo :
         SchedTo(s, IF HasPending(a) THEN Rest(s, a)
                    ELSE [sched[s] EXCEPT !.at = "create", !.auto = a])
    /\ UNCHANGED <<tables, present, up, exec, events, history>>

(* An automation that has become invalid ends the whole turn of the loop. *)
CreateScheduled(s) ==
    LET a == sched[s].auto
    IN  /\ sched[s].at = "create"
        /\ \/ /\ defs[a].valid
              /\ \E r \in Runs : Stamp(r, a, "scheduled", 0, FALSE, s, "scheduler")
              /\ SchedTo(s, [sched[s] EXCEPT !.at = "insert"])
           \/ ~defs[a].valid /\ SchedTo(s, SchedIdle) /\ UNCHANGED <<runs, queue>>
        /\ UNCHANGED <<defs, present, up, exec, events, history>>

InsertScheduled(s) ==
    /\ sched[s].at = "insert"
    /\ Insert(s, "scheduler")
    /\ SchedTo(s, [sched[s] EXCEPT !.at = "advance"])
    /\ UNCHANGED <<defs, present, up, exec, events, history>>

(* _update_next_run reads the automation and then writes next_run_at only. *)
ReadForNext(s) ==
    LET a == sched[s].auto
    IN  /\ sched[s].at = "advance"
        /\ SchedTo(s, [sched[s] EXCEPT !.at = "write", !.next = NextRun(a, defs[a].enabled)])
        /\ UNCHANGED <<tables, present, up, exec, events, history>>

WriteNext(s) ==
    LET a == sched[s].auto
    IN  /\ sched[s].at = "write"
        /\ defs' = [defs EXCEPT ![a].next = sched[s].next]
        /\ SchedTo(s, Rest(s, a))
        /\ UNCHANGED <<runs, queue, present, up, exec, events, history>>

Scheduling(s) ==
    \/ ListDue(s) \/ CheckPending(s) \/ CreateScheduled(s) \/ InsertScheduled(s)
    \/ ReadForNext(s) \/ WriteNext(s)

-----------------------------------------------------------------------------
(* The executor: claim_next_run, then _execute_run. *)
ExecTo(s, rec) == exec' = [exec EXCEPT ![s] = rec]
At(s, places) == exec[s].at \in places
Failing(s, timedOut) ==
    ExecTo(s, [exec[s] EXCEPT !.at = "failing", !.late = FALSE, !.timedOut = timedOut])

First(r) == /\ r \in InLine /\ runs[r].status = "queued"
            /\ \A q \in Ahead(r) : runs[q].status # "queued"

(* Slip: the row is read outside the transaction that updates it. *)
Claim_Unlocked(s) ==
    /\ s \in up /\ At(s, {"idle"})
    /\ \E r \in Runs :
         /\ First(r) \/ \E t \in Services \ {s} : exec[t].run = r /\ At(t, {"daemon_ready"})
         /\ SetStatus(r, "running")
         /\ Leave({r})
         /\ ExecTo(s, [ExecIdle EXCEPT !.at = "daemon_ready", !.run = r])
    /\ UNCHANGED <<defs, present, up, sched, events, history>>

(* BEGIN IMMEDIATE: of the rows that are queued and due the oldest becomes   *)
(* running, and its deadline is fixed.                                       *)
Claim(s) ==
    /\ s \in up /\ At(s, {"idle"})
    /\ \E r \in Runs :
         /\ First(r)
         /\ SetStatus(r, "running")
         /\ Leave({r})
         /\ ExecTo(s, [ExecIdle EXCEPT !.at = "daemon_ready", !.run = r])
    /\ UNCHANGED <<defs, present, up, sched, events, history>>

(* What fails outside the try statement, or in its except clause (the        *)
(* directory, the log, an event, complete_run): the loop logs it and goes on *)
(* to the next run.                                                          *)
GiveUp(s) ==
    /\ At(s, {"daemon_ready", "failing"}) /\ Interference
    /\ orphans' = orphans \cup {exec[s].run}
    /\ ExecTo(s, ExecIdle)
    /\ UNCHANGED <<tables, present, up, sched, overlapped>>

(* The work of a stage ends well.  What it reports about the daemon does not *)
(* matter, and before the next stage _remaining_timeout looks at the clock.  *)
StageDone(s) ==
    /\ At(s, Stages)
    /\ LET next == After(exec[s].at)
       IN  IF exec[s].late /\ next # "recording"
           THEN Failing(s, TRUE)
           ELSE ExecTo(s, [exec[s] EXCEPT !.at = next])
    /\ UNCHANGED <<tables, present, up, sched, events, history>>

(* A hook or the task fails, the worker exits without a result, or the       *)
(* result cannot be written.                                                 *)
StageFails(s) ==
    /\ At(s, Stages \ {"daemon_ready"})
    /\ Failing(s, FALSE)
    /\ UNCHANGED <<tables, present, up, sched, events, history>>

Deadline(s) ==
    /\ At(s, Stages) /\ ~exec[s].late /\ runs[exec[s].run].auto \in Timed
    /\ ExecTo(s, [exec[s] EXCEPT !.late = TRUE])
    /\ UNCHANGED <<tables, present, up, sched, events, history>>

(* Slip: the worker process is joined without a time limit. *)
CutOff_TaskNot(s) ==
    /\ At(s, Stages \ {"task_execution"}) /\ exec[s].late
    /\ Failing(s, At(s, {"daemon_ready"}))
    /\ UNCHANGED <<tables, present, up, sched, events, history>>

(* A stage that is still at work at the deadline is stopped.  Only the task  *)
(* and the probe raise AutomationRunTimeoutError; a hook raises              *)
(* subprocess.TimeoutExpired, an error like any other.                       *)
CutOff(s) ==
    /\ At(s, Stages) /\ exec[s].late
    /\ Failing(s, At(s, {"daemon_ready", "task_execution"}))
    /\ UNCHANGED <<tables, present, up, sched, events, history>>

(* complete_run(success).  If it raises, before or after its update, the     *)
(* except clause takes the run for failed.                                   *)
Record(s) ==
    /\ At(s, {"recording"})
    /\ \/ /\ SetStatus(exec[s].run, "success")
          /\ ExecTo(s, ExecIdle) /\ UNCHANGED events
       \/ /\ \/ SetStatus(exec[s].run, "success") \/ UNCHANGED runs
          /\ Failing(s, FALSE) /\ Interference
    /\ UNCHANGED <<defs, queue, present, up, sched, history>>

(* Slips: one attempt too many, or the failure is not recorded. *)
Fail_OneMore(s) ==
    LET r == exec[s].run
    IN  /\ At(s, {"failing"})
        /\ SetStatus(r, "failed")
        /\ ExecTo(s, IF ~exec[s].timedOut /\ Retries + 1 > runs[r].attempt
                     THEN [exec[s] EXCEPT !.at = "retrying"] ELSE ExecIdle)
        /\ UNCHANGED <<defs, queue, present, up, sched, events, history>>

Fail_Unrecorded(s) ==
    LET r == exec[s].run
    IN  /\ At(s, {"failing"})
        /\ IF exec[s].timedOut THEN UNCHANGED runs ELSE SetStatus(r, "failed")
        /\ ExecTo(s, IF ~exec[s].timedOut /\ Retries > runs[r].attempt
                     THEN [exec[s] EXCEPT !.at = "retrying"] ELSE ExecIdle)
        /\ UNCHANGED <<defs, queue, present, up, sched, events, history>>

(* The failure hooks, whose errors are swallowed, then complete_run(failed). *)
Fail(s) ==
    LET r == exec[s].run
    IN  /\ At(s, {"failing"})
        /\ SetStatus(r, "failed")
        /\ ExecTo(s, IF ~exec[s].timedOut /\ Retries > runs[r].attempt
                     THEN [exec[s] EXCEPT !.at = "retrying"] ELSE ExecIdle)
        /\ UNCHANGED <<defs, queue, present, up, sched, events, history>>

(* retry_run; create_run refuses an automation that has become invalid. *)
Retry(s) ==
    LET a == runs[exec[s].run].auto
    IN  /\ At(s, {"retrying"})
        /\ \/ /\ defs[a].valid
              /\ \E r \in Runs : Stamp(r, a, "retry", runs[exec[s].run].attempt + 1, Backoff,
                                       s, "executor")
              /\ ExecTo(s, [ExecIdle EXCEPT !.at = "requeueing"])
           \/ ~defs[a].valid /\ ExecTo(s, ExecIdle) /\ UNCHANGED <<runs, queue>>
        /\ UNCHANGED <<defs, present, up, sched, events, history>>

InsertRetry(s) ==
    /\ At(s, {"requeueing"})
    /\ Insert(s, "executor")
    /\ ExecTo(s, ExecIdle)
    /\ UNCHANGED <<defs, present, up, sched, events, history>>

Executing(s) ==
    \/ Claim(s) \/ GiveUp(s) \/ StageDone(s) \/ StageFails(s)
    \/ Deadline(s) \/ CutOff(s) \/ Record(s) \/ Fail(s) \/ Retry(s) \/ InsertRetry(s)

-----------------------------------------------------------------------------
(* The HTTP handlers of a service that is up. *)

(* Create, import, change, enable or disable: upsert_automation. *)
Upsert(a) ==
    /\ up # {} /\ Interference
    /\ \E enabled \in BOOLEAN : defs' = [defs EXCEPT ![a] = Normalized(a, enabled)]
    /\ UNCHANGED <<runs, queue, present, up, sched, exec, history>>

RunNow(s, a) ==
    /\ s \in up /\ Interference
    /\ defs[a].valid
    /\ \E r \in Runs : Stamp(r, a, "manual", 0, FALSE, s, "handler")
    /\ UNCHANGED <<defs, present, up, sched, exec, history>>

(* A retry that a user asks for, of a run in whatever state. *)
RetryRequest(s, r) ==
    /\ s \in up /\ Interference
    /\ runs[r].status \notin {"none", "stamped"} /\ defs[runs[r].auto].valid
    /\ \E q \in Runs : Stamp(q, runs[r].auto, "retry", runs[r].attempt + 1, Backoff,
                              s, "handler")
    /\ UNCHANGED <<defs, present, up, sched, exec, history>>

InsertRequested(s) ==
    /\ Insert(s, "handler")
    /\ UNCHANGED <<defs, present, up, sched, exec, events, history>>

-----------------------------------------------------------------------------
(* The environment. *)
Start(s) ==
    /\ s \notin up
    /\ up' = up \cup {s}
    /\ overlapped' = (overlapped \/ up # {})
    /\ UNCHANGED <<tables, present, sched, exec, events, orphans>>

(* The process ends: killed, or stopped, which waits two seconds for the     *)
(* threads; the worker process ends with it, and what its threads had not    *)
(* inserted is not.                                                          *)
Die(s) ==
    LET lost == {r \in Runs : runs[r].status = "stamped" /\ runs[r].by = s}
    IN  /\ s \in up /\ Interference
        /\ up' = up \ {s}
        /\ sched' = [sched EXCEPT ![s] = SchedIdle]
        /\ exec' = [exec EXCEPT ![s] = ExecIdle]
        /\ orphans' = orphans \cup {r \in {exec[s].run} \ {None} : runs[r].status = "running"}
        /\ runs' = [r \in Runs |-> IF r \in lost THEN NoRun ELSE runs[r]]
        /\ Leave(lost)
        /\ UNCHANGED <<defs, present, overlapped>>

FileChanges(a) ==
    /\ Interference
    /\ present' = IF a \in present THEN present \ {a} ELSE present \cup {a}
    /\ UNCHANGED <<tables, up, sched, exec, history>>

BecomesDue(a) ==
    /\ defs[a].next = "later"
    /\ defs' = [defs EXCEPT ![a].next = "due"]
    /\ UNCHANGED <<runs, queue, present, up, sched, exec, events, history>>

BackoffOver(r) ==
    /\ runs[r].status \in {"stamped", "queued"} /\ r \notin InLine
    /\ Joins(r)
    /\ UNCHANGED <<defs, runs, present, up, sched, exec, events, history>>

Environment ==
    \/ \E a \in Automations : Upsert(a) \/ FileChanges(a) \/ BecomesDue(a)
    \/ \E r \in Runs : BackoffOver(r)
    \/ \E s \in Services : \/ Start(s) \/ Die(s) \/ InsertRequested(s)
                            \/ \E a \in Automations : RunNow(s, a)
                            \/ \E r \in Runs : RetryRequest(s, r)

Next == Environment \/ \E s \in Services : Scheduling(s) \/ Executing(s)

Spec == Init /\ [][Next]_vars

(* Threads run and time passes.  A task or a hook need not end by itself,    *)
(* and nobody has to start a service.                                        *)
Fairness ==
    /\ \A s \in Services :
          /\ WF_vars(Scheduling(s))
          /\ WF_vars(Claim(s) \/ Deadline(s) \/ CutOff(s) \/ Record(s) \/ Fail(s)
                        \/ Retry(s) \/ InsertRetry(s))
          /\ WF_vars(InsertRequested(s))
    /\ \A a \in Automations : WF_vars(BecomesDue(a))
    /\ \A r \in Runs : WF_vars(BackoffOver(r))

FairSpec == Spec /\ Fairness

-----------------------------------------------------------------------------
(* The type of the state; the line is a total order on the runs in it. *)
DefsType == defs \in [Automations -> [enabled : BOOLEAN, valid : BOOLEAN,
                                      next : {"null", "later", "due"}]]
RunsType == runs \in [Runs -> [auto : Automations \cup {None},
                               trigger : {"none", "scheduled", "manual", "retry"},
                               status : {"none", "stamped"} \cup Pending \cup Terminal,
                               attempt : 0..(Retries + MaxEvents),
                               by : Services \cup {None},
                               thread : {"none", "scheduler", "executor", "handler"}]]
QueueType ==
    /\ queue \in [Runs -> SUBSET Runs]
    /\ \A r \in InLine : runs[r].status \in {"stamped", "queued"}
    /\ \A r \in Runs : \A q \in queue[r] :
          /\ q \in InLine /\ r \in InLine /\ queue[q] \subseteq queue[r]
          /\ r \in queue[q] => q = r
    /\ \A q, r \in InLine : q \in queue[r] \/ r \in queue[q]
SchedType == sched \in [Services -> [at : {"idle", "check", "create", "insert", "advance",
                                           "write"},
                                     todo : SUBSET Automations,
                                     auto : Automations \cup {None},
                                     next : {"null", "later"}]]
ExecType == exec \in [Services -> [at : {"idle", "recording", "failing", "retrying",
                                         "requeueing"} \cup Stages,
                                   run : Runs \cup {None},
                                   late : BOOLEAN, timedOut : BOOLEAN]]
TypeOK ==
    /\ DefsType /\ RunsType /\ QueueType /\ SchedType /\ ExecType
    /\ present \subseteq Automations /\ up \subseteq Services
    /\ events \in 0..MaxEvents
    /\ orphans \subseteq Runs /\ overlapped \in BOOLEAN

(* A run is executed by one executor only, also when two services are up.    *)
ClaimExclusive ==
    \A s, t \in Services : (s # t /\ exec[s].run # None) => exec[s].run # exec[t].run

(* As long as no two services have been up together, at most one scheduled   *)
(* run of an automation is queued or running, across deaths and restarts and *)
(* whatever users and retries add between the check and the insertion.       *)
ScheduledPending(r, a) ==
    runs[r].auto = a /\ runs[r].trigger = "scheduled" /\ runs[r].status \in Pending
ScheduledOncePending ==
    ~overlapped => \A a \in Automations, q, r \in Runs :
                      ScheduledPending(q, a) /\ ScheduledPending(r, a) => q = r

(* Every path through _execute_run ends with an outcome in the table, unless *)
(* the service died or a call outside the try statement failed.              *)
RunningIsExecuted ==
    \A r \in Runs : runs[r].status = "running" =>
        r \in orphans \/ \E s \in Services : exec[s].run = r

(* "Retry behavior is deterministic and bounded": a retry the executor makes *)
(* is one of at most Retries, of a run that failed.                          *)
RetriesBounded ==
    [][\A s \in Services : (At(s, {"retrying"}) /\ At(s, {"requeueing"})') =>
         /\ runs[exec[s].run].status = "failed"
         /\ \A r \in Runs : runs'[r] # runs[r] => runs'[r].attempt <= Retries]_vars

(* A queued run is taken as long as a service stays up: the tasks before it  *)
(* may hang, for the deadline frees the executor.                            *)
QueuedIsTaken ==
    (Timed = Automations /\ \E s \in Services : <>[](s \in up)) =>
        \A r \in Runs : runs[r].status = "queued" ~> runs[r].status # "queued"

(* An enabled automation runs again and again, as long as a service stays    *)
(* up, none of its runs was left running, and its next_run_at is not lost.   *)
InOrder(a) ==
    /\ a \in Scheduled \cap Timed \cap present /\ defs[a].enabled /\ defs[a].valid
    /\ defs[a].next # "null" /\ \A r \in orphans : runs[r].auto # a
ScheduleGoesOn ==
    (Timed = Automations /\ \E s \in Services : <>[](s \in up)) =>
        \A a \in Automations : (<>[]InOrder(a)) =>
            []<>(\E r \in Runs : runs[r].auto = a /\ runs[r].trigger = "scheduled"
                                    /\ runs[r].status = "running")
=============================================================================
