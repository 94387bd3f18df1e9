--------------------------- MODULE ScheduledStarts ---------------------------
(* When the scheduler of the automation service starts an automation: its    *)
(* next_run_at as time passes, computed anew whenever a run is queued or the *)
(* automation is saved (AutomationStore.enqueue_due_runs, upsert_automation).*)
(* The scheduler may be late: the machine sleeps, the service is down, an    *)
(* earlier run is still pending.                                             *)
EXTENDS Schedule

VARIABLES
    zone, schedule,   \* of the automation
    now,
    nextRunAt,
    updatedAt         \* when nextRunAt was computed

vars == <<zone, schedule, now, nextRunAt, updatedAt>>

Compute ==
    /\ updatedAt' = now
    /\ nextRunAt' = NextRunAt(zone, schedule, now)
    /\ UNCHANGED <<zone, schedule, now>>

Init ==
    /\ zone \in Zones /\ schedule \in Schedules
    /\ now \in 0..(Week - 1) /\ updatedAt = now
    /\ nextRunAt = NextRunAt(zone, schedule, now)

TimePasses == now < Horizon /\ now' = now + 1 /\ UNCHANGED <<zone, schedule, nextRunAt, updatedAt>>
EnqueueDue == nextRunAt <= now /\ Compute
Upsert == Compute

Next == TimePasses \/ EnqueueDue \/ Upsert
Spec == Init /\ [][Next]_vars

-----------------------------------------------------------------------------
(* An automation is due only if a time that its schedule names has come      *)
(* since the next run was computed: "every Monday at 09:00" starts nothing   *)
(* on a Monday before nine.                                                  *)
DueOnSchedule ==
    nextRunAt <= now =>
        \/ schedule.kind = "interval"
        \/ \E i \in Occurrences(zone, schedule) : updatedAt < i /\ i <= now
=============================================================================
