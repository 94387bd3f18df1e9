------------------------ MODULE AutomationRunsProofs ------------------------
(* Proofs about AutomationRuns for any number of services, automations and   *)
(* run records: two services never execute one run, a run that is 'running'  *)
(* has an executor or a recorded reason to have none, a schedule has at most *)
(* one pending run under one service, retries are bounded, no outcome is     *)
(* lost, and every step of a thread brings its work nearer to its end; and   *)
(* about the arithmetic of Schedule, which says when an automation is due.   *)
EXTENDS AutomationRuns, Schedule, FiniteSetTheorems, TLAPS

(* What TypeOK does not say of a record in use: only a scheduler makes       *)
(* scheduled runs.                                                           *)
RecordsInUse ==
    \A r \in Runs : /\ runs[r].status # "none" => runs[r].auto \in Automations
                    /\ runs[r].attempt <= Retries + events
                    /\ runs[r].status = "stamped"
                          => (runs[r].trigger = "scheduled" <=> runs[r].thread = "scheduler")

(* An executor that is at work holds a run that has been claimed, and what   *)
(* it is about to retry has failed and may be retried.                       *)
ExecutorsHold ==
    \A s \in Services :
        /\ exec[s].at \in {"idle", "requeueing"} <=> exec[s].run = None
        /\ exec[s].run # None => runs[exec[s].run].status \in {"running"} \cup Terminal
        /\ exec[s].at = "retrying" => /\ runs[exec[s].run].status = "failed"
                                      /\ runs[exec[s].run].attempt < Retries

(* Only a service that is up schedules, one at a time as long as none have   *)
(* overlapped; what it found before it makes a run is still so when it       *)
(* inserts it, for nobody else makes a scheduled run, and it makes one at a  *)
(* time.                                                                     *)
SchedulersKnow ==
    \A s \in Services :
        /\ sched[s].at # "idle" => s \in up
        /\ sched[s].at \in {"create", "insert", "advance", "write"}
              => sched[s].auto \in Automations
        /\ ~overlapped => \A t \in up : s \in up => s = t
        /\ (~overlapped /\ sched[s].at \in {"create", "insert"})
              => \A r \in Runs : ~ScheduledPending(r, sched[s].auto)
        /\ \A q, r \in Stamps(s, "scheduler") :
              q = r /\ sched[s].at = "insert" /\ runs[r].auto = sched[s].auto

IInv ==
    /\ TypeOK /\ RecordsInUse
    /\ ExecutorsHold /\ ClaimExclusive /\ RunningIsExecuted
    /\ SchedulersKnow /\ ScheduledOncePending

-----------------------------------------------------------------------------
(* The line as runs join and leave it.                                       *)
InLineStatus == {"stamped", "queued"}

LEMMA LineStays ==
    ASSUME QueueType, UNCHANGED queue,
           \A q \in InLine : runs'[q].status \in InLineStatus
    PROVE  QueueType'
BY DEF QueueType, InLine, InLineStatus

LEMMA JoinsFacts ==
    ASSUME QueueType, NEW r \in Runs, r \notin InLine, Joins(r),
           runs'[r].status \in InLineStatus,
           \A q \in InLine : runs'[q].status \in InLineStatus
    PROVE  /\ QueueType'
           /\ \A q \in InLine : q # r /\ q \in InLine' /\ queue'[q] = queue[q]
<1>1. /\ queue \in [Runs -> SUBSET Runs] /\ InLine \subseteq Runs
      /\ queue' = [queue EXCEPT ![r] = InLine \cup {r}]
  BY DEF QueueType, Joins, InLine
<1>2. /\ queue' \in [Runs -> SUBSET Runs] /\ queue'[r] = InLine \cup {r}
      /\ \A q \in Runs \ {r} : queue'[q] = queue[q]
  BY <1>1
<1>3. InLine' = InLine \cup {r}
  BY <1>2 DEF InLine
<1>4. \A q \in Runs : r \in queue[q] => r \in InLine
  BY DEF QueueType
<1>5. ASSUME NEW p \in Runs, NEW q \in queue'[p]
      PROVE  /\ q \in InLine' /\ p \in InLine' /\ queue'[q] \subseteq queue'[p]
             /\ p \in queue'[q] => q = p
  <2>1. CASE p = r /\ q = r
    BY <1>2, <1>3, <2>1
  <2>2. CASE p = r /\ q # r
    <3>1. q \in InLine /\ q \in Runs /\ queue'[q] = queue[q]
      BY <1>1, <1>2, <1>5, <2>2
    <3>2. queue[q] \subseteq InLine
      BY <3>1 DEF QueueType
    <3>3. QED
      BY <1>2, <1>3, <1>4, <2>2, <3>1, <3>2
  <2>3. CASE p # r
    <3>1. q \in queue[p] /\ queue'[p] = queue[p] /\ q # r /\ q \in Runs
      BY <1>1, <1>2, <1>4, <1>5, <2>3
    <3>2. queue'[q] = queue[q]
      BY <1>2, <3>1
    <3>3. QED
      BY <1>3, <3>1, <3>2 DEF QueueType
  <2>4. QED
    BY <2>1, <2>2, <2>3
<1>6. \A p, q \in InLine' : p \in queue'[q] \/ q \in queue'[p]
  <2>1. ASSUME NEW p \in InLine', NEW q \in InLine'
        PROVE  p \in queue'[q] \/ q \in queue'[p]
    <3>1. CASE p = r \/ q = r
      BY <1>2, <1>3, <2>1, <3>1
    <3>2. CASE p # r /\ q # r
      <4>1. p \in InLine /\ q \in InLine /\ queue'[p] = queue[p] /\ queue'[q] = queue[q]
        BY <1>1, <1>2, <1>3, <2>1, <3>2
      <4>2. QED
        BY <4>1 DEF QueueType
    <3>3. QED
      BY <3>1, <3>2
  <2>2. QED
    BY <2>1
<1>7. \A q \in InLine' : runs'[q].status \in {"stamped", "queued"}
  BY <1>3 DEF InLineStatus
<1>8. QueueType'
  BY <1>2, <1>5, <1>6, <1>7 DEF QueueType
<1>9. QED
  BY <1>1, <1>2, <1>3, <1>8

LEMMA LeaveFacts ==
    ASSUME QueueType, NEW gone, Leave(gone),
           \A q \in InLine \ gone : runs'[q].status \in InLineStatus
    PROVE  /\ QueueType'
           /\ \A q \in InLine \ gone : q \in InLine' /\ queue'[q] = queue[q] \ gone
<1>1. /\ queue \in [Runs -> SUBSET Runs] /\ InLine \subseteq Runs
      /\ queue' = [q \in Runs |-> IF q \in gone THEN {} ELSE queue[q] \ gone]
  BY DEF QueueType, Leave, InLine
<1>2. /\ queue' \in [Runs -> SUBSET Runs]
      /\ \A q \in Runs : queue'[q] = IF q \in gone THEN {} ELSE queue[q] \ gone
  BY <1>1
<1>3. InLine' = InLine \ gone
  BY <1>2 DEF InLine
<1>4. ASSUME NEW p \in Runs, NEW q \in queue'[p]
      PROVE  /\ q \in InLine' /\ p \in InLine' /\ queue'[q] \subseteq queue'[p]
             /\ p \in queue'[q] => q = p
  <2>1. /\ p \notin gone /\ q \notin gone /\ q \in queue[p] /\ q \in Runs
        /\ queue'[p] = queue[p] \ gone
    BY <1>1, <1>2, <1>4
  <2>2. queue'[q] = queue[q] \ gone
    BY <1>2, <2>1
  <2>3. /\ q \in InLine /\ p \in InLine /\ queue[q] \subseteq queue[p]
        /\ p \in queue[q] => q = p
    BY <2>1 DEF QueueType
  <2>4. QED
    BY <1>3, <2>1, <2>2, <2>3
<1>5. ASSUME NEW p \in InLine', NEW q \in InLine'
      PROVE  p \in queue'[q] \/ q \in queue'[p]
  <2>1. p \in InLine \ gone /\ q \in InLine \ gone /\ p \in Runs /\ q \in Runs
    BY <1>1, <1>3, <1>5
  <2>2. p \in queue[q] \/ q \in queue[p]
    BY <2>1 DEF QueueType
  <2>3. QED
    BY <1>2, <2>1, <2>2
<1>6. \A q \in InLine' : runs'[q].status \in {"stamped", "queued"}
  BY <1>3 DEF InLineStatus
<1>7. QueueType'
  BY <1>2, <1>4, <1>5, <1>6 DEF QueueType
<1>8. QED
  BY <1>1, <1>2, <1>3, <1>7

-----------------------------------------------------------------------------
(* What create_run does to the records and to the line: first the stamp, *)
Made(r, a, trigger, attempt, s, thread) ==
    /\ RunsType' /\ QueueType'
    /\ runs'[r] = [auto |-> a, trigger |-> trigger, status |-> "stamped",
                   attempt |-> attempt, by |-> s, thread |-> thread]
    /\ \A q \in Runs : q # r => runs'[q] = runs[q]
    /\ runs[r].status \notin {"stamped"} \cup Pending
    /\ \A t \in Services : exec[t].run = r => t = s /\ thread = "executor"
    /\ \A q \in InLine : q # r /\ q \in InLine' /\ queue'[q] = queue[q]

LEMMA StampFacts ==
    ASSUME TypeOK, NEW r \in Runs, NEW a \in Automations,
           NEW trigger \in {"scheduled", "manual", "retry"},
           NEW attempt \in 0..(Retries + MaxEvents), NEW later, NEW s \in Services,
           NEW thread \in {"scheduler", "executor", "handler"},
           Stamp(r, a, trigger, attempt, later, s, thread)
    PROVE  Made(r, a, trigger, attempt, s, thread)
<1> USE DEF TypeOK
<1>1. runs' = [runs EXCEPT ![r] = [auto |-> a, trigger |-> trigger, status |-> "stamped",
                                   attempt |-> attempt, by |-> s, thread |-> thread]]
  BY DEF Stamp
<1>2. /\ runs[r].status \notin {"stamped"} \cup Pending
      /\ \A t \in Services : exec[t].run = r => t = s /\ thread = "executor"
  BY DEF Stamp, Free, Pending, Terminal
<1>3. RunsType'
  BY <1>1 DEF RunsType, Pending
<1>4. /\ runs'[r] = [auto |-> a, trigger |-> trigger, status |-> "stamped",
                     attempt |-> attempt, by |-> s, thread |-> thread]
      /\ \A q \in Runs : q # r => runs'[q] = runs[q]
  BY <1>1 DEF RunsType
<1>5. /\ r \notin InLine /\ runs'[r].status \in InLineStatus
      /\ \A q \in InLine : q \in Runs /\ runs'[q].status \in InLineStatus
  BY <1>2, <1>4 DEF QueueType, Pending, InLine, InLineStatus
<1>6. QueueType' /\ \A q \in InLine : q # r /\ q \in InLine' /\ queue'[q] = queue[q]
  <2>1. CASE later
    <3>1. UNCHANGED queue
      BY <2>1 DEF Stamp
    <3>2. QED
      BY <1>5, <3>1, LineStays DEF InLine
  <2>2. CASE ~later
    <3>1. Joins(r)
      BY <2>2 DEF Stamp
    <3>2. QED
      BY <1>5, <3>1, JoinsFacts
  <2>3. QED
    BY <2>1, <2>2
<1>7. QED
  BY <1>2, <1>3, <1>4, <1>6 DEF Made

(* ... and then the row. *)
Inserted(r) ==
    /\ RunsType' /\ QueueType' /\ UNCHANGED queue
    /\ r \in Runs /\ runs[r].status = "stamped"
    /\ runs'[r] = [runs[r] EXCEPT !.status = "queued", !.by = None, !.thread = "none"]
    /\ runs'[r].status = "queued" /\ runs'[r].auto = runs[r].auto
    /\ runs'[r].attempt = runs[r].attempt /\ runs'[r].trigger = runs[r].trigger
    /\ \A q \in Runs : q # r => runs'[q] = runs[q]

LEMMA InsertFacts ==
    ASSUME TypeOK, NEW s, NEW thread, Insert(s, thread)
    PROVE  \E r \in Stamps(s, thread) : Inserted(r)
<1> USE DEF TypeOK
<1>1. PICK r \in Stamps(s, thread) :
         runs' = [runs EXCEPT ![r] = [@ EXCEPT !.status = "queued", !.by = None,
                                               !.thread = "none"]]
  BY DEF Insert
<1>2. r \in Runs /\ runs[r].status = "stamped" /\ UNCHANGED queue
  BY DEF Stamps, Insert
<1>3. runs' = [runs EXCEPT ![r] = [runs[r] EXCEPT !.status = "queued", !.by = None,
                                                  !.thread = "none"]]
  BY <1>1
<1>4. /\ runs'[r] = [runs[r] EXCEPT !.status = "queued", !.by = None, !.thread = "none"]
      /\ \A q \in Runs : q # r => runs'[q] = runs[q]
  BY <1>2, <1>3 DEF RunsType
<1>5. /\ runs'[r].status = "queued" /\ runs'[r].auto = runs[r].auto
      /\ runs'[r].attempt = runs[r].attempt /\ runs'[r].trigger = runs[r].trigger
  BY <1>2, <1>4 DEF RunsType
<1>6. RunsType'
  <2> DEFINE Records == [auto : Automations \cup {None},
                         trigger : {"none", "scheduled", "manual", "retry"},
                         status : {"none", "stamped"} \cup Pending \cup Terminal,
                         attempt : 0..(Retries + MaxEvents), by : Services \cup {None},
                         thread : {"none", "scheduler", "executor", "handler"}]
  <2>1. runs \in [Runs -> Records]
    BY DEF RunsType
  <2>2. [runs[r] EXCEPT !.status = "queued", !.by = None, !.thread = "none"] \in Records
    BY <1>2, <2>1 DEF Pending
  <2> HIDE DEF Records
  <2>3. runs' \in [Runs -> Records]
    BY <1>2, <1>3, <2>1, <2>2
  <2>4. QED
    BY <2>3 DEF RunsType, Records
<1>7. QueueType'
  <2>1. \A q \in InLine : q \in Runs /\ runs'[q].status \in InLineStatus
    BY <1>4, <1>5 DEF QueueType, InLine, InLineStatus
  <2>2. QED
    BY <1>2, <2>1, LineStays
<1>8. QED
  BY <1>2, <1>4, <1>5, <1>6, <1>7 DEF Inserted

(* A status other than "queued" for a run that is not in line. *)
LEMMA SetStatusFacts ==
    ASSUME TypeOK, NEW r \in Runs, NEW status \in {"running"} \cup Terminal,
           SetStatus(r, status)
    PROVE  /\ RunsType'
           /\ runs'[r].status = status /\ runs'[r].auto = runs[r].auto
           /\ runs'[r].attempt = runs[r].attempt /\ runs'[r].trigger = runs[r].trigger
           /\ runs'[r] = [runs[r] EXCEPT !.status = status]
           /\ \A q \in Runs : q # r => runs'[q] = runs[q]
           /\ runs[r].status \notin InLineStatus /\ UNCHANGED queue => QueueType'
<1> USE DEF TypeOK
<1>1. runs' = [runs EXCEPT ![r] = [runs[r] EXCEPT !.status = status]]
  BY DEF SetStatus
<1>2. RunsType'
  BY <1>1 DEF RunsType, Pending, Terminal
<1>3. /\ runs'[r].status = status /\ runs'[r].auto = runs[r].auto
      /\ runs'[r].attempt = runs[r].attempt /\ runs'[r].trigger = runs[r].trigger
      /\ runs'[r] = [runs[r] EXCEPT !.status = status]
      /\ \A q \in Runs : q # r => runs'[q] = runs[q]
  BY <1>1 DEF RunsType
<1>4. ASSUME runs[r].status \notin InLineStatus, UNCHANGED queue PROVE QueueType'
  <2>1. \A q \in InLine : q \in Runs /\ q # r /\ runs'[q].status \in InLineStatus
    BY <1>3, <1>4 DEF QueueType, InLine, InLineStatus
  <2>2. QED
    BY <1>4, <2>1, LineStays
<1>5. QED
  BY <1>2, <1>3, <1>4

(* Time passes for records that stay as they are. *)
LEMMA RecordsKept ==
    ASSUME TypeOK, RecordsInUse, events' \in events..MaxEvents,
           \A q \in Runs : /\ runs'[q].attempt = runs[q].attempt
                           /\ runs'[q].auto = runs[q].auto
                           /\ runs'[q].status # "none" => runs[q].status # "none"
                           /\ runs'[q].status = "stamped" => runs'[q] = runs[q]
    PROVE  RecordsInUse'
<1>1. events \in Nat /\ events' \in Nat /\ events <= events' /\ Retries \in Nat
  BY AutomationAssumption DEF TypeOK
<1>2. \A q \in Runs : runs[q].attempt \in Nat
  BY AutomationAssumption DEF TypeOK, RunsType
<1>3. ASSUME NEW q \in Runs PROVE runs'[q].attempt <= Retries + events'
  BY <1>1, <1>2 DEF RecordsInUse
<1>4. QED
  BY <1>3 DEF RecordsInUse

(* The schedulers know what they knew, as long as no scheduled run appears. *)
LEMMA SchedulersKept ==
    ASSUME IInv, UNCHANGED <<sched, up, overlapped>>,
           \A r \in Runs, a \in Automations :
               ScheduledPending(r, a)' => ScheduledPending(r, a),
           \A r \in Runs : runs'[r].status = "stamped" /\ runs'[r].thread = "scheduler"
                             => runs'[r] = runs[r]
    PROVE  SchedType' /\ SchedulersKnow' /\ ScheduledOncePending'
<1>1. SchedType' BY DEF IInv, TypeOK, SchedType
<1>2. SchedulersKnow'
  <2>1. ASSUME NEW s \in Services, NEW r \in Stamps(s, "scheduler")'
        PROVE  r \in Stamps(s, "scheduler") /\ runs'[r].auto = runs[r].auto
    BY <2>1 DEF Stamps, IInv, TypeOK, RunsType
  <2>2. QED
    BY <2>1 DEF IInv, SchedulersKnow
<1>3. ScheduledOncePending'
  BY DEF IInv, ScheduledOncePending
<1>4. QED BY <1>1, <1>2, <1>3

(* What says nothing of a step that leaves the runs and the executors alone. *)
RunsAndExecutors ==
    /\ RunsType /\ QueueType /\ ExecType /\ RecordsInUse
    /\ ExecutorsHold /\ ClaimExclusive /\ RunningIsExecuted

LEMMA RunsAndExecutorsKept ==
    ASSUME IInv, UNCHANGED <<runs, queue, exec, orphans>>, events' \in events..MaxEvents
    PROVE  RunsAndExecutors'
<1> USE DEF IInv, TypeOK
<1>1. RunsType' /\ QueueType' /\ ExecType'
  BY DEF RunsType, QueueType, InLine, ExecType
<1>2. RecordsInUse'
  BY RecordsKept
<1>3. ExecutorsHold' /\ ClaimExclusive' /\ RunningIsExecuted'
  BY DEF ExecutorsHold, ClaimExclusive, RunningIsExecuted, At
<1>4. QED
  BY <1>1, <1>2, <1>3 DEF RunsAndExecutors

(* A record is made, by a thread that holds no other: an executor leaves the *)
(* run that it retries.                                                      *)
LEMMA MadeKept ==
    ASSUME IInv, NEW r \in Runs, NEW a \in Automations,
           NEW trigger \in {"scheduled", "manual", "retry"}, NEW attempt \in Nat,
           attempt <= Retries + events', events' \in events..MaxEvents,
           NEW s \in Services, NEW thread,
           trigger = "scheduled" <=> thread = "scheduler",
           Made(r, a, trigger, attempt, s, thread), UNCHANGED orphans,
           \/ UNCHANGED exec /\ thread # "executor"
           \/ /\ exec' = [exec EXCEPT ![s] = [ExecIdle EXCEPT !.at = "requeueing"]]
              /\ exec[s].at = "retrying"
    PROVE  RunsAndExecutors'
<1>1. /\ \A t \in Services \ {s} : exec[t].run # r
      /\ UNCHANGED exec => \A t \in Services : exec[t].run # r
      /\ RunsType' /\ QueueType' /\ runs'[r].status = "stamped" /\ runs'[r].auto = a
      /\ runs'[r].attempt = attempt /\ runs'[r].trigger = trigger
      /\ runs'[r].thread = thread
      /\ \A q \in Runs : q # r => runs'[q] = runs[q]
  <2>1. \A t \in Services \ {s} : exec[t].run # r
    BY DEF Made
  <2>2. UNCHANGED exec => exec[s].run # r
    <3>1. ASSUME UNCHANGED exec PROVE thread # "executor"
      <4>1. exec'[s].at = exec[s].at
        BY <3>1
      <4>2. exec' = [exec EXCEPT ![s] = [ExecIdle EXCEPT !.at = "requeueing"]]
              => exec'[s].at = "requeueing"
        BY DEF ExecIdle, IInv, TypeOK, ExecType
      <4>3. QED
        BY <4>1, <4>2
    <3>2. QED
      BY <3>1 DEF Made
  <2>3. QED
    BY <2>1, <2>2 DEF Made
<1>2. RecordsInUse'
  <2>1. /\ events \in Nat /\ events' \in Nat /\ events <= events' /\ Retries \in Nat
    BY AutomationAssumption DEF IInv, TypeOK
  <2>2. \A q \in Runs : runs[q].attempt \in Nat
    BY AutomationAssumption DEF IInv, TypeOK, RunsType
  <2>3. ASSUME NEW q \in Runs
        PROVE  /\ runs'[q].attempt <= Retries + events'
               /\ runs'[q].status # "none" => runs'[q].auto \in Automations
               /\ runs'[q].status = "stamped"
                     => (runs'[q].trigger = "scheduled" <=> runs'[q].thread = "scheduler")
    <3>1. CASE q = r
      BY <1>1, <3>1
    <3>2. CASE q # r
      <4>1. runs'[q] = runs[q]
        BY <1>1, <3>2
      <4>2. /\ runs[q].attempt <= Retries + events /\ runs[q].attempt \in Nat
            /\ runs[q].status # "none" => runs[q].auto \in Automations
            /\ runs[q].status = "stamped"
                  => (runs[q].trigger = "scheduled" <=> runs[q].thread = "scheduler")
        BY <2>2 DEF IInv, RecordsInUse
      <4>3. runs[q].attempt <= Retries + events'
        BY <2>1, <4>2
      <4>4. QED
        BY <4>1, <4>2, <4>3
    <3>3. QED
      BY <3>1, <3>2
  <2>4. QED
    BY <2>3 DEF RecordsInUse
<1>3. ExecType' /\ ExecutorsHold' /\ ClaimExclusive' /\ RunningIsExecuted'
  <2>1. CASE UNCHANGED exec
    BY <1>1, <2>1 DEF IInv, TypeOK, ExecType, ExecutorsHold, ClaimExclusive, RunningIsExecuted
  <2>2. CASE /\ exec' = [exec EXCEPT ![s] = [ExecIdle EXCEPT !.at = "requeueing"]]
             /\ exec[s].at = "retrying"
    <3>1. /\ ExecType' /\ exec'[s].at = "requeueing" /\ exec'[s].run = None
          /\ \A t \in Services \ {s} : exec'[t] = exec[t]
      BY <2>2 DEF IInv, TypeOK, ExecType, ExecIdle
    <3>2. \A t \in Services \ {s} : exec[t].run # None => exec[t].run \in Runs \ {r}
      BY <1>1 DEF IInv, TypeOK, ExecType
    <3>3. \A t \in Services \ {s} : exec[t].at = "retrying" => exec[t].run # None
      BY DEF IInv, ExecutorsHold
    <3>4. \A t \in Services \ {s} : exec[t].run # None => runs'[exec[t].run] = runs[exec[t].run]
      BY <1>1, <3>2
    <3>5. ExecutorsHold'
      BY <3>1, <3>3, <3>4 DEF IInv, ExecutorsHold
    <3>6. ClaimExclusive'
      BY <3>1 DEF IInv, ClaimExclusive
    <3>7. RunningIsExecuted'
      <4>1. runs[exec[s].run].status = "failed" /\ None \notin Runs
        BY <2>2, AutomationAssumption DEF IInv, ExecutorsHold, Runs
      <4>2. \A q \in Runs : runs[q].status = "running" =>
               q \in orphans \/ \E t \in Services \ {s} : exec[t].run = q
        BY <4>1 DEF IInv, RunningIsExecuted
      <4>3. QED
        BY <1>1, <3>1, <4>2 DEF RunningIsExecuted
    <3>8. QED
      BY <3>1, <3>5, <3>6, <3>7
  <2>3. QED
    BY <2>1, <2>2
<1>4. QED
  BY <1>1, <1>2, <1>3 DEF RunsAndExecutors

(* A row is inserted; an executor that does so goes back to its loop.        *)
LEMMA InsertedKept ==
    ASSUME IInv, NEW r, Inserted(r), UNCHANGED <<events, orphans>>, ExecType',
           \A t \in Services : \/ exec'[t] = exec[t]
                               \/ exec[t].at = "requeueing" /\ exec'[t] = ExecIdle
    PROVE  RunsAndExecutors'
<1>1. \A t \in Services : exec'[t].run = exec[t].run
  BY DEF IInv, ExecutorsHold, ExecIdle
<1>2. /\ r \in Runs /\ runs[r].status = "stamped" /\ runs'[r].status = "queued"
      /\ runs'[r].auto = runs[r].auto /\ runs'[r].attempt = runs[r].attempt
      /\ \A q \in Runs : q # r => runs'[q] = runs[q]
  BY DEF Inserted
<1>3. RecordsInUse'
  <2>1. \A q \in Runs : /\ runs'[q].attempt = runs[q].attempt
                        /\ runs'[q].auto = runs[q].auto
                        /\ runs'[q].status # "none" => runs[q].status # "none"
                        /\ runs'[q].status = "stamped" => runs'[q] = runs[q]
    BY <1>2
  <2>2. events' \in events..MaxEvents
    BY AutomationAssumption DEF IInv, TypeOK
  <2>3. QED
    BY <2>1, <2>2, RecordsKept DEF IInv
<1>4. \A t \in Services : exec[t].run # None =>
         exec[t].run \in Runs /\ runs'[exec[t].run] = runs[exec[t].run]
  BY <1>2 DEF IInv, TypeOK, ExecType, ExecutorsHold, Terminal
<1>5. ExecutorsHold'
  <2>1. ASSUME NEW t \in Services
        PROVE  /\ exec'[t].at \in {"idle", "requeueing"} <=> exec'[t].run = None
               /\ exec'[t].run # None
                     => runs'[exec'[t].run].status \in {"running"} \cup Terminal
               /\ exec'[t].at = "retrying" => /\ runs'[exec'[t].run].status = "failed"
                                              /\ runs'[exec'[t].run].attempt < Retries
    <3>1. CASE exec'[t] = exec[t]
      BY <1>4, <3>1 DEF IInv, ExecutorsHold
    <3>2. CASE exec[t].at = "requeueing" /\ exec'[t] = ExecIdle
      BY <3>2 DEF ExecIdle
    <3>3. QED
      BY <3>1, <3>2
  <2>2. QED
    BY <2>1 DEF ExecutorsHold
<1>6. ClaimExclusive' /\ RunningIsExecuted'
  BY <1>1, <1>2 DEF IInv, ClaimExclusive, RunningIsExecuted
<1>7. QED
  BY <1>3, <1>5, <1>6 DEF RunsAndExecutors, Inserted

(* What other threads than a scheduler make is no scheduled run.             *)
LEMMA OtherRunsMade ==
    ASSUME IInv, NEW r \in Runs, NEW a, NEW trigger \in {"manual", "retry"}, NEW attempt,
           NEW s, NEW thread \in {"executor", "handler"},
           Made(r, a, trigger, attempt, s, thread), UNCHANGED <<sched, up, overlapped>>
    PROVE  SchedType' /\ SchedulersKnow' /\ ScheduledOncePending'
<1>1. /\ runs'[r].trigger = trigger /\ runs'[r].thread = thread
      /\ \A q \in Runs : q # r => runs'[q] = runs[q]
  BY DEF Made
<1>2. \A q \in Runs, b \in Automations : ScheduledPending(q, b)' => ScheduledPending(q, b)
  BY <1>1 DEF ScheduledPending
<1>3. \A q \in Runs : runs'[q].status = "stamped" /\ runs'[q].thread = "scheduler"
                      => runs'[q] = runs[q]
  BY <1>1
<1>4. QED
  BY <1>2, <1>3, SchedulersKept

LEMMA OtherRunsInserted ==
    ASSUME IInv, NEW s, NEW thread \in {"executor", "handler"},
           NEW r \in Stamps(s, thread), Inserted(r), UNCHANGED <<sched, up, overlapped>>
    PROVE  SchedType' /\ SchedulersKnow' /\ ScheduledOncePending'
<1>1. /\ r \in Runs /\ runs[r].trigger # "scheduled"
      /\ runs'[r].trigger = runs[r].trigger /\ runs'[r].status = "queued"
      /\ \A q \in Runs : q # r => runs'[q] = runs[q]
  BY DEF Stamps, Inserted, IInv, RecordsInUse
<1>2. \A q \in Runs, b \in Automations : ScheduledPending(q, b)' => ScheduledPending(q, b)
  BY <1>1 DEF ScheduledPending
<1>3. \A q \in Runs : runs'[q].status = "stamped" /\ runs'[q].thread = "scheduler"
                      => runs'[q] = runs[q]
  BY <1>1
<1>4. QED
  BY <1>2, <1>3, SchedulersKept

LEMMA Interfered ==
    ASSUME TypeOK, Interference
    PROVE  events' \in events..MaxEvents /\ events' = events + 1 /\ events' \in 0..MaxEvents
BY AutomationAssumption DEF TypeOK, Interference

-----------------------------------------------------------------------------
(* What _normalize_automation returns is a row of the table. *)
LEMMA NormalizedType ==
    ASSUME NEW a, NEW enabled \in BOOLEAN
    PROVE  /\ NextRun(a, enabled) \in {"null", "later"}
           /\ Normalized(a, enabled) \in [enabled : BOOLEAN, valid : BOOLEAN,
                                          next : {"null", "later", "due"}]
<1>1. NextRun(a, enabled) \in {"null", "later"}
  BY DEF NextRun
<1>2. (a \in present) \in BOOLEAN
  OBVIOUS
<1>3. QED
  BY <1>1, <1>2 DEF Normalized

LEMMA InitIInv == Init => IInv
<1> SUFFICES ASSUME Init PROVE IInv
  OBVIOUS
<1> USE AutomationAssumption
<1>0. /\ present = Automations /\ runs = [r \in Runs |-> NoRun] /\ queue = [r \in Runs |-> {}] /\ up = {}
      /\ sched = [s \in Services |-> SchedIdle] /\ exec = [s \in Services |-> ExecIdle]
      /\ events = 0 /\ orphans = {} /\ overlapped = FALSE
  BY Zenon DEF Init
<1>1. DefsType
  <2>1. PICK enabled \in SUBSET Automations :
           defs = [a \in Automations |-> Normalized(a, a \in enabled)]
    BY DEF Init
  <2> DEFINE Row(a) == Normalized(a, a \in enabled)
  <2>2. ASSUME NEW a \in Automations
        PROVE  Row(a) \in [enabled : BOOLEAN, valid : BOOLEAN,
                          next : {"null", "later", "due"}]
    <3>1. (a \in enabled) \in BOOLEAN
      OBVIOUS
    <3>2. QED
      BY <3>1, NormalizedType
  <2>3. defs = [a \in Automations |-> Row(a)]
    BY <2>1
  <2> HIDE DEF Row
  <2>4. QED
    BY <2>2, <2>3 DEF DefsType
<1>2. RunsType /\ RecordsInUse /\ \A r \in Runs : runs[r].status = "none"
  BY <1>0 DEF RunsType, RecordsInUse, NoRun
<1>3. QueueType
  BY <1>0 DEF QueueType, InLine
<1>4. SchedType /\ ExecType
  BY <1>0 DEF SchedType, ExecType, SchedIdle, ExecIdle
<1>5. TypeOK
  <2>1. events \in 0..MaxEvents
    BY <1>0
  <2>2. /\ present \subseteq Automations /\ up \subseteq Services
        /\ orphans \subseteq Runs /\ overlapped \in BOOLEAN
    BY <1>0, Zenon
  <2>3. QED
    BY <1>1, <1>2, <1>3, <1>4, <2>1, <2>2, Zenon DEF TypeOK
<1>6. \A s \in Services : exec[s] = ExecIdle /\ sched[s] = SchedIdle
  BY <1>0
<1>7. ExecutorsHold /\ ClaimExclusive /\ RunningIsExecuted
  BY <1>0, <1>2, <1>6 DEF ExecutorsHold, ClaimExclusive, RunningIsExecuted, ExecIdle
<1>8. SchedulersKnow /\ ScheduledOncePending
  BY <1>0, <1>2, <1>6
  DEF SchedulersKnow, ScheduledOncePending, ScheduledPending, SchedIdle, Pending, Stamps
<1>9. QED
  BY <1>2, <1>5, <1>7, <1>8 DEF IInv

-----------------------------------------------------------------------------
(* The scheduler. *)
LEMMA ListDuePreserves ==
    ASSUME IInv, NEW s \in Services, ListDue(s) PROVE IInv'
<1>1. RunsAndExecutors'
  BY RunsAndExecutorsKept, AutomationAssumption DEF ListDue, tables, history, IInv, TypeOK
<1>2. SchedType'
  BY DEF IInv, TypeOK, SchedType, ListDue, SchedTo, SchedIdle
<1>3. \A t \in Services : sched'[t] # sched[t] => t = s /\ sched'[s].at = "check"
  BY DEF IInv, TypeOK, SchedType, ListDue, SchedTo, SchedIdle
<1>4. SchedulersKnow' /\ ScheduledOncePending'
  BY <1>3 DEF IInv, SchedulersKnow, ScheduledOncePending, ScheduledPending, ListDue, tables,
     history, Stamps
<1>5. TypeOK'
  BY <1>1, <1>2 DEF RunsAndExecutors, IInv, TypeOK, DefsType, ListDue, tables, history
<1>6. QED
  BY <1>1, <1>4, <1>5 DEF RunsAndExecutors, IInv

LEMMA CheckPendingPreserves ==
    ASSUME IInv, NEW s \in Services, CheckPending(s) PROVE IInv'
<1>1. RunsAndExecutors'
  BY RunsAndExecutorsKept, AutomationAssumption DEF CheckPending, tables, history, IInv, TypeOK
<1>2. PICK a \in sched[s].todo :
         SchedTo(s, IF HasPending(a) THEN Rest(s, a)
                    ELSE [sched[s] EXCEPT !.at = "create", !.auto = a])
  BY DEF CheckPending
<1>3. a \in Automations /\ sched[s].todo \subseteq Automations /\ s \in up
  BY DEF IInv, TypeOK, SchedType, SchedulersKnow, CheckPending
<1>4. SchedType'
  <2> DEFINE Records == [at : {"idle", "check", "create", "insert", "advance", "write"},
                         todo : SUBSET Automations, auto : Automations \cup {None},
                         next : {"null", "later"}]
  <2>1. sched \in [Services -> Records]
    BY DEF IInv, TypeOK, SchedType
  <2>2. Rest(s, a) \in Records
    BY <1>3 DEF Rest, SchedIdle
  <2>3. [sched[s] EXCEPT !.at = "create", !.auto = a] \in Records
    BY <1>3, <2>1
  <2> HIDE DEF Records
  <2>4. sched' \in [Services -> Records]
    BY <1>2, <2>1, <2>2, <2>3 DEF SchedTo
  <2>5. QED
    BY <2>4 DEF SchedType, Records
<1>5. \A t \in Services : sched'[t] # sched[t] =>
         /\ t = s /\ sched[s].at = "check"
         /\ \/ sched'[s].at \in {"idle", "check"}
            \/ sched'[s].at = "create" /\ sched'[s].auto = a /\ ~HasPending(a)
  <2>1. sched[s].at = "check"
    BY DEF CheckPending
  <2>2. \A t \in Services : sched'[t] # sched[t] => t = s
    BY <1>2 DEF IInv, TypeOK, SchedType, SchedTo
  <2>3. \/ sched'[s].at \in {"idle", "check"}
        \/ sched'[s].at = "create" /\ sched'[s].auto = a /\ ~HasPending(a)
    BY <1>2 DEF IInv, TypeOK, SchedType, SchedTo, SchedIdle, Rest
  <2>4. QED
    BY <2>1, <2>2, <2>3
<1>6. ~HasPending(a) => \A r \in Runs : ~ScheduledPending(r, a)
  BY DEF HasPending, ScheduledPending
<1>7. SchedulersKnow' /\ ScheduledOncePending'
  BY <1>3, <1>5, <1>6 DEF IInv, SchedulersKnow, ScheduledOncePending, ScheduledPending,
     CheckPending, tables, history, Stamps
<1>8. TypeOK'
  BY <1>1, <1>4 DEF RunsAndExecutors, IInv, TypeOK, DefsType, CheckPending, tables, history
<1>9. QED
  BY <1>1, <1>7, <1>8 DEF RunsAndExecutors, IInv

LEMMA CreateScheduledPreserves ==
    ASSUME IInv, NEW s \in Services, CreateScheduled(s) PROVE IInv'
<1> DEFINE a == sched[s].auto
<1>1. a \in Automations /\ s \in up /\ sched[s].at = "create" /\ sched[s] \in
        [at : {"idle", "check", "create", "insert", "advance", "write"},
         todo : SUBSET Automations, auto : Automations \cup {None}, next : {"null", "later"}]
  BY DEF IInv, TypeOK, SchedType, SchedulersKnow, CreateScheduled
<1>0. Stamps(s, "scheduler") = {}
  BY <1>1 DEF IInv, SchedulersKnow
<1>2. CASE UNCHANGED <<runs, queue>> /\ SchedTo(s, SchedIdle)
  <2>1. RunsAndExecutors'
    BY <1>2, RunsAndExecutorsKept, AutomationAssumption
    DEF CreateScheduled, history, IInv, TypeOK
  <2>2. SchedType' /\ \A t \in Services : sched'[t] # sched[t] => t = s /\ sched'[t].at = "idle"
    BY <1>2 DEF IInv, TypeOK, SchedType, SchedTo, SchedIdle
  <2>3. SchedulersKnow' /\ ScheduledOncePending'
    BY <1>0, <1>2, <2>2 DEF IInv, SchedulersKnow, ScheduledOncePending, ScheduledPending,
       CreateScheduled, history, Stamps
  <2>4. TypeOK'
    BY <2>1, <2>2 DEF RunsAndExecutors, IInv, TypeOK, DefsType, CreateScheduled, history
  <2>5. QED
    BY <2>1, <2>3, <2>4 DEF RunsAndExecutors, IInv
<1>3. CASE /\ \E r \in Runs : Stamp(r, a, "scheduled", 0, FALSE, s, "scheduler")
           /\ SchedTo(s, [sched[s] EXCEPT !.at = "insert"])
  <2>1. PICK r \in Runs : Stamp(r, a, "scheduled", 0, FALSE, s, "scheduler")
    BY <1>3
  <2>2. 0 \in 0..(Retries + MaxEvents)
    BY AutomationAssumption
  <2>3. Made(r, a, "scheduled", 0, s, "scheduler")
    BY <1>1, <2>1, <2>2, StampFacts, Zenon DEF IInv
  <2>4. UNCHANGED <<defs, present, up, exec, events, orphans, overlapped>>
    BY DEF CreateScheduled, history
  <2>5. 0 \in Nat /\ 0 <= Retries + events' /\ events' \in events..MaxEvents
    BY <2>4, AutomationAssumption DEF IInv, TypeOK
  <2>6. RunsAndExecutors'
    BY <1>1, <2>3, <2>4, <2>5, MadeKept
  <2>7. /\ SchedType' /\ sched'[s].at = "insert" /\ sched'[s].auto = a
        /\ \A t \in Services \ {s} : sched'[t] = sched[t]
    BY <1>1, <1>3 DEF IInv, TypeOK, SchedType, SchedTo
  <2>8. /\ runs'[r].auto = a /\ runs'[r].by = s /\ runs'[r].status = "stamped"
        /\ \A q \in Runs : q # r => runs'[q] = runs[q]
    BY <2>3 DEF Made
  <2> HIDE DEF a
  <2>9. \A q \in Runs, b \in Automations : ScheduledPending(q, b)' => ScheduledPending(q, b)
    BY <2>8 DEF ScheduledPending, Pending
  <2>10. SchedulersKnow'
    <3>1. ASSUME NEW t \in Services
          PROVE  /\ sched'[t].at # "idle" => t \in up'
                 /\ sched'[t].at \in {"create", "insert", "advance", "write"}
                       => sched'[t].auto \in Automations
                 /\ ~overlapped' => \A u \in up' : t \in up' => t = u
                 /\ (~overlapped' /\ sched'[t].at \in {"create", "insert"})
                       => \A q \in Runs : ~ScheduledPending(q, sched[t].auto)'
      <4>1. CASE t = s
        BY <1>1, <2>4, <2>7, <2>9, <4>1 DEF IInv, SchedulersKnow, a
      <4>2. CASE t # s
        BY <2>4, <2>7, <2>9, <4>2 DEF IInv, SchedulersKnow
      <4>3. QED
        BY <4>1, <4>2
    <3>2. ASSUME NEW t \in Services, NEW q \in Stamps(t, "scheduler")',
                 NEW p \in Stamps(t, "scheduler")'
          PROVE  q = p /\ sched'[t].at = "insert" /\ runs'[p].auto = sched'[t].auto
      <4>1. CASE t = s
        <5>1. \A o \in Stamps(t, "scheduler")' : o = r
          BY <1>0, <2>8, <4>1 DEF Stamps
        <5>2. QED
          BY <2>7, <2>8, <3>2, <4>1, <5>1
      <4>2. CASE t # s
        <5>1. \A o \in Stamps(t, "scheduler")' : o \in Stamps(t, "scheduler") /\ runs'[o] = runs[o]
          BY <2>8, <4>2 DEF Stamps
        <5>2. QED
          BY <2>7, <3>2, <4>2, <5>1 DEF IInv, SchedulersKnow
      <4>3. QED
        BY <4>1, <4>2
    <3>3. QED
      BY <3>1, <3>2 DEF SchedulersKnow
  <2>11. ScheduledOncePending'
    BY <2>4, <2>9 DEF IInv, ScheduledOncePending
  <2>12. TypeOK'
    BY <2>4, <2>6, <2>7 DEF RunsAndExecutors, IInv, TypeOK, DefsType
  <2>13. QED
    BY <2>6, <2>10, <2>11, <2>12 DEF RunsAndExecutors, IInv
<1>4. QED
  BY <1>2, <1>3 DEF CreateScheduled

LEMMA InsertScheduledPreserves ==
    ASSUME IInv, NEW s \in Services, InsertScheduled(s) PROVE IInv'
<1> DEFINE a == sched[s].auto
<1>1. /\ a \in Automations /\ s \in up /\ sched[s].at = "insert"
      /\ UNCHANGED <<defs, present, up, exec, events, orphans, overlapped>>
      /\ sched' = [sched EXCEPT ![s] = [sched[s] EXCEPT !.at = "advance"]]
  BY DEF IInv, TypeOK, SchedType, SchedulersKnow, InsertScheduled, SchedTo, history
<1>2. PICK r \in Stamps(s, "scheduler") : Inserted(r)
  BY InsertFacts DEF InsertScheduled, IInv
<1>3. /\ r \in Runs /\ runs[r].auto = a /\ runs'[r].auto = a /\ runs'[r].status = "queued"
      /\ \A q \in Runs : q # r => runs'[q] = runs[q]
      /\ \A q \in Stamps(s, "scheduler") : q = r
  BY <1>2 DEF Inserted, IInv, SchedulersKnow
<1>4. RunsAndExecutors'
  BY <1>1, <1>2, InsertedKept DEF IInv, TypeOK, ExecType
<1>5. /\ SchedType' /\ sched'[s].at = "advance" /\ sched'[s].auto = a
      /\ \A t \in Services \ {s} : sched'[t] = sched[t]
  BY <1>1 DEF IInv, TypeOK, SchedType
<1> HIDE DEF a
<1>6. ~overlapped => \A t \in up : t = s
  BY <1>1 DEF IInv, SchedulersKnow, TypeOK
<1>7. SchedulersKnow'
  <2>1. ASSUME NEW t \in Services
        PROVE  /\ sched'[t].at # "idle" => t \in up'
               /\ sched'[t].at \in {"create", "insert", "advance", "write"}
                     => sched'[t].auto \in Automations
               /\ ~overlapped' => \A u \in up' : t \in up' => t = u
               /\ (~overlapped' /\ sched'[t].at \in {"create", "insert"})
                     => \A q \in Runs : ~ScheduledPending(q, sched[t].auto)'
    <3>1. CASE t = s
      BY <1>1, <1>5, <3>1 DEF IInv, SchedulersKnow
    <3>2. CASE t # s
      BY <1>1, <1>5, <1>6, <3>2 DEF IInv, SchedulersKnow
    <3>3. QED
      BY <3>1, <3>2
  <2>2. ASSUME NEW t \in Services, NEW q \in Stamps(t, "scheduler")'
        PROVE  /\ t # s /\ q \in Stamps(t, "scheduler")
               /\ sched'[t] = sched[t] /\ runs'[q] = runs[q]
    <3>1. q \in Runs /\ q # r /\ runs'[q] = runs[q]
      BY <1>3, <2>2 DEF Stamps
    <3>2. q \in Stamps(t, "scheduler")
      BY <2>2, <3>1 DEF Stamps
    <3>3. QED
      BY <1>3, <1>5, <3>1, <3>2
  <2>3. QED
    BY <2>1, <2>2 DEF IInv, SchedulersKnow
<1>8. ScheduledOncePending'
  <2>1. ASSUME ~overlapped, NEW q \in Runs PROVE ~ScheduledPending(q, a)
    BY <1>1, <2>1 DEF IInv, SchedulersKnow, a
  <2>2. QED
    BY <1>1, <1>3, <2>1 DEF IInv, ScheduledOncePending, ScheduledPending
<1>9. TypeOK'
  BY <1>1, <1>4, <1>5 DEF RunsAndExecutors, IInv, TypeOK, DefsType
<1>10. QED
  BY <1>4, <1>7, <1>8, <1>9 DEF RunsAndExecutors, IInv

LEMMA ReadForNextPreserves ==
    ASSUME IInv, NEW s \in Services, ReadForNext(s) PROVE IInv'
<1>1. RunsAndExecutors'
  BY RunsAndExecutorsKept, AutomationAssumption DEF ReadForNext, tables, history, IInv, TypeOK
<1>2. sched[s].auto \in Automations /\ s \in up
  BY DEF IInv, SchedulersKnow, ReadForNext
<1>3. NextRun(sched[s].auto, defs[sched[s].auto].enabled) \in {"null", "later"}
  BY <1>2, NormalizedType DEF IInv, TypeOK, DefsType
<1>4. SchedType' /\ \A t \in Services : sched'[t] # sched[t] =>
          /\ t = s /\ sched[s].at = "advance"
          /\ sched'[s].at = "write" /\ sched'[s].auto = sched[s].auto
  BY <1>3 DEF IInv, TypeOK, SchedType, ReadForNext, SchedTo
<1>5. SchedulersKnow' /\ ScheduledOncePending'
  BY <1>2, <1>4 DEF IInv, SchedulersKnow, ScheduledOncePending, ScheduledPending,
     ReadForNext, tables, history, Stamps
<1>6. TypeOK'
  BY <1>1, <1>4 DEF RunsAndExecutors, IInv, TypeOK, DefsType, ReadForNext, tables, history
<1>7. QED
  BY <1>1, <1>5, <1>6 DEF RunsAndExecutors, IInv

LEMMA WriteNextPreserves ==
    ASSUME IInv, NEW s \in Services, WriteNext(s) PROVE IInv'
<1>1. RunsAndExecutors'
  BY RunsAndExecutorsKept, AutomationAssumption DEF WriteNext, history, IInv, TypeOK
<1>2. sched[s].auto \in Automations /\ s \in up
  BY DEF IInv, SchedulersKnow, WriteNext
<1>3. SchedType' /\ \A t \in Services : sched'[t] # sched[t] =>
          t = s /\ sched[s].at = "write" /\ sched'[s].at \in {"idle", "check"}
  BY <1>2 DEF IInv, TypeOK, SchedType, WriteNext, SchedTo, SchedIdle, Rest
<1>4. SchedulersKnow' /\ ScheduledOncePending'
  BY <1>2, <1>3 DEF IInv, SchedulersKnow, ScheduledOncePending, ScheduledPending,
     WriteNext, history, Stamps
<1>5. DefsType'
  BY <1>2 DEF IInv, TypeOK, DefsType, SchedType, WriteNext
<1>6. TypeOK'
  BY <1>1, <1>3, <1>5 DEF RunsAndExecutors, IInv, TypeOK, WriteNext, history
<1>7. QED
  BY <1>1, <1>4, <1>6 DEF RunsAndExecutors, IInv

-----------------------------------------------------------------------------
(* The executor. *)
LEMMA ClaimPreserves ==
    ASSUME IInv, NEW s \in Services, Claim(s) PROVE IInv'
<1> USE DEF IInv, TypeOK
<1>1. /\ exec[s].at = "idle" /\ s \in up
      /\ UNCHANGED <<defs, present, up, sched, events, orphans, overlapped>>
  BY DEF Claim, At, history
<1>2. PICK r \in Runs :
         /\ First(r) /\ SetStatus(r, "running") /\ Leave({r})
         /\ ExecTo(s, [ExecIdle EXCEPT !.at = "daemon_ready", !.run = r])
  BY DEF Claim
<1>4. runs[r].status = "queued"
  BY <1>2 DEF First
<1>6. /\ RunsType' /\ \A q \in Runs : q # r => runs'[q] = runs[q]
      /\ runs'[r].status = "running" /\ runs'[r].auto = runs[r].auto
      /\ runs'[r].attempt = runs[r].attempt /\ runs'[r].trigger = runs[r].trigger
  BY <1>2, SetStatusFacts
<1>8. QueueType'
  <2>1. \A q \in InLine \ {r} : q \in Runs /\ runs'[q].status \in InLineStatus
    BY <1>6 DEF QueueType, InLine, InLineStatus
  <2>2. QED
    BY <1>2, <2>1, LeaveFacts
<1>9. ExecType' /\ exec' = [exec EXCEPT ![s] = [ExecIdle EXCEPT !.at = "daemon_ready", !.run = r]]
  BY <1>2 DEF ExecType, ExecTo, ExecIdle, Stages
<1>10. exec'[s].at = "daemon_ready" /\ exec'[s].run = r /\ \A t \in Services \ {s} : exec'[t] = exec[t]
  BY <1>9 DEF ExecType, ExecIdle
<1>11. \A t \in Services : exec[t].run # r
  <2>1. r # None
    BY <1>2, AutomationAssumption DEF Runs
  <2>2. QED
    BY <1>4, <2>1 DEF ExecutorsHold, Terminal
<1>12. RecordsInUse'
  BY <1>1, <1>2, <1>4, <1>6 DEF RecordsInUse
<1>13. ExecutorsHold'
  <2>1. r # None
    BY <1>2, AutomationAssumption DEF Runs
  <2>2. \A t \in Services : exec[t].run \in Runs \cup {None}
    BY DEF ExecType
  <2>3. QED
    BY <1>2, <1>6, <1>10, <1>11, <2>1, <2>2 DEF ExecutorsHold
<1>14. ClaimExclusive'
  BY <1>10, <1>11 DEF ClaimExclusive
<1>15. RunningIsExecuted'
  <2>1. exec[s].run = None /\ None \notin Runs
    BY <1>1, AutomationAssumption DEF ExecutorsHold, Runs
  <2>2. QED
    BY <1>1, <1>6, <1>10, <2>1 DEF RunningIsExecuted
<1>16. \A q \in Runs, a \in Automations : ScheduledPending(q, a)' => ScheduledPending(q, a)
  BY <1>4, <1>6 DEF ScheduledPending, Pending
<1>17. SchedType' /\ SchedulersKnow' /\ ScheduledOncePending'
  BY <1>1, <1>6, <1>16, SchedulersKept
<1>18. QED
  BY <1>1, <1>6, <1>8, <1>9, <1>12, <1>13, <1>14, <1>15, <1>17 DEF DefsType

(* A stage that leads to the next one or to the except clause. *)
LEMMA StagePreserves ==
    ASSUME IInv, NEW s \in Services, exec[s].at \notin {"idle", "requeueing"}, NEW rec \in
               [at : {"recording", "failing"} \cup Stages, run : {exec[s].run},
                late : BOOLEAN, timedOut : BOOLEAN],
           exec' = [exec EXCEPT ![s] = rec],
           UNCHANGED <<defs, runs, queue, present, up, sched, events, orphans, overlapped>>
    PROVE  IInv'
<1> USE DEF IInv, TypeOK
<1>1. ExecType' /\ exec'[s] = rec /\ \A t \in Services \ {s} : exec'[t] = exec[t]
  BY DEF ExecType
<1>2. \A t \in Services : exec'[t].run = exec[t].run
  BY <1>1
<1>3. rec.at \notin {"idle", "retrying", "requeueing"} /\ exec[s].run # None
  BY DEF Stages, ExecutorsHold
<1>4. ExecutorsHold' /\ ClaimExclusive' /\ RunningIsExecuted'
  BY <1>1, <1>2, <1>3 DEF ExecutorsHold, ClaimExclusive, RunningIsExecuted
<1>5. SchedType' /\ SchedulersKnow' /\ ScheduledOncePending'
  BY SchedulersKept DEF ScheduledPending
<1>6. RunsType' /\ QueueType' /\ RecordsInUse'
  BY DEF RunsType, QueueType, InLine, RecordsInUse
<1>7. QED
  BY <1>1, <1>4, <1>5, <1>6 DEF DefsType

(* What the steps within a stage, and from one to the next, do.              *)
LEMMA StageSteps ==
    ASSUME IInv, NEW s \in Services,
           StageDone(s) \/ StageFails(s) \/ Deadline(s) \/ CutOff(s)
    PROVE  /\ UNCHANGED <<defs, runs, queue, present, up, sched, events, orphans, overlapped>>
           /\ exec[s].at \in Stages /\ exec[s].at \notin {"idle", "requeueing"}
           /\ \E rec \in [at : {"recording", "failing"} \cup Stages, run : {exec[s].run},
                          late : BOOLEAN, timedOut : BOOLEAN] :
                 exec' = [exec EXCEPT ![s] = rec]
<1>1. /\ UNCHANGED <<defs, runs, queue, present, up, sched, events, orphans, overlapped>>
      /\ exec[s].at \in Stages /\ exec[s].at \notin {"idle", "requeueing"}
  BY DEF StageDone, StageFails, Deadline, CutOff, At, tables, history, Stages
<1>2. exec[s] \in [at : {"idle", "recording", "failing", "retrying", "requeueing"} \cup Stages,
                   run : Runs \cup {None}, late : BOOLEAN, timedOut : BOOLEAN]
  BY DEF IInv, TypeOK, ExecType
<1> DEFINE Records == [at : {"recording", "failing"} \cup Stages, run : {exec[s].run},
                       late : BOOLEAN, timedOut : BOOLEAN]
<1>3. \A timedOut \in BOOLEAN :
         [exec[s] EXCEPT !.at = "failing", !.late = FALSE, !.timedOut = timedOut] \in Records
  BY <1>2
<1>4. [exec[s] EXCEPT !.at = After(exec[s].at)] \in Records
  BY <1>1, <1>2 DEF After, Stages
<1>5. [exec[s] EXCEPT !.late = TRUE] \in Records
  BY <1>1, <1>2
<1>6. \E rec \in Records : exec' = [exec EXCEPT ![s] = rec]
  <2>1. CASE StageDone(s)
    BY <1>3, <1>4, <2>1 DEF StageDone, Failing, ExecTo
  <2>2. CASE StageFails(s)
    BY <1>3, <2>2 DEF StageFails, Failing, ExecTo
  <2>3. CASE Deadline(s)
    BY <1>5, <2>3 DEF Deadline, ExecTo
  <2>4. CASE CutOff(s)
    <3>1. At(s, {"daemon_ready", "task_execution"}) \in BOOLEAN
      BY DEF At
    <3>2. QED
      BY <1>3, <2>4, <3>1 DEF CutOff, Failing, ExecTo
  <2>5. QED
    BY <2>1, <2>2, <2>3, <2>4
<1>7. QED
  BY <1>1, <1>6

LEMMA StagesPreserve ==
    ASSUME IInv, NEW s \in Services,
           StageDone(s) \/ StageFails(s) \/ Deadline(s) \/ CutOff(s)
    PROVE  IInv'
BY StageSteps, StagePreserves

(* An executor that goes back to its loop, or dies, leaves its run behind:   *)
(* with an outcome, or among the orphans.  Rows not inserted may be lost.    *)
Lost(q) == runs[q].status = "stamped" /\ runs'[q] = NoRun

LEMMA ReleasePreserves ==
    ASSUME IInv, NEW s \in Services,
           exec' = [exec EXCEPT ![s] = ExecIdle],
           orphans' \in {orphans, orphans \cup {exec[s].run}}, orphans' \subseteq Runs,
           RunsType', QueueType', \A q \in Runs : runs'[q] = runs[q] \/ Lost(q),
           events' \in events..MaxEvents,
           exec[s].run # None /\ runs[exec[s].run].status = "running"
               => exec[s].run \in orphans'
    PROVE  RunsAndExecutors'
<1> USE DEF IInv, TypeOK
<1>1. ExecType' /\ exec'[s] = ExecIdle /\ \A t \in Services \ {s} : exec'[t] = exec[t]
  BY DEF ExecType, ExecIdle
<1>2. \A q \in Runs : runs[q].status # "stamped" => runs'[q] = runs[q]
  BY DEF Lost
<1>3. RecordsInUse'
  <2>1. /\ events \in Nat /\ events' \in Nat /\ events <= events' /\ Retries \in Nat
    BY AutomationAssumption
  <2>2. \A q \in Runs : runs[q].attempt \in Nat
    BY AutomationAssumption DEF RunsType
  <2>3. ASSUME NEW q \in Runs
        PROVE  /\ runs'[q].status # "none" => runs'[q].auto \in Automations
               /\ runs'[q].attempt <= Retries + events'
               /\ runs'[q].status = "stamped"
                     => (runs'[q].trigger = "scheduled" <=> runs'[q].thread = "scheduler")
    <3>1. CASE runs'[q] = runs[q]
      BY <2>1, <2>2, <3>1 DEF RecordsInUse
    <3>2. CASE runs'[q] = NoRun
      BY <2>1, <3>2 DEF NoRun
    <3>3. QED
      BY <3>1, <3>2 DEF Lost
  <2>4. QED
    BY <2>3 DEF RecordsInUse
<1>4. ExecutorsHold' /\ ClaimExclusive'
  <2>1. \A t \in Services : exec[t].run # None =>
           exec[t].run \in Runs /\ runs'[exec[t].run] = runs[exec[t].run]
    BY <1>2 DEF ExecType, ExecutorsHold, Terminal
  <2>2. \A t \in Services : exec[t].at = "retrying" => exec[t].run # None
    BY DEF ExecutorsHold
  <2>3. ExecutorsHold'
    <3>1. exec'[s].at = "idle" /\ exec'[s].run = None
      BY <1>1 DEF ExecIdle
    <3>2. QED
      BY <1>1, <2>1, <2>2, <3>1 DEF ExecutorsHold
  <2>4. ClaimExclusive'
    BY <1>1 DEF ClaimExclusive, ExecIdle
  <2>5. QED
    BY <2>3, <2>4
<1>5. RunningIsExecuted'
  <2>1. None \notin Runs
    BY AutomationAssumption DEF Runs
  <2>2. \A q \in Runs : runs'[q].status = "running" => runs'[q] = runs[q]
    BY DEF Lost, NoRun
  <2>3. QED
    BY <1>1, <2>1, <2>2 DEF RunningIsExecuted
<1>6. QED
  BY <1>1, <1>3, <1>4, <1>5 DEF RunsAndExecutors

LEMMA GiveUpPreserves ==
    ASSUME IInv, NEW s \in Services, GiveUp(s) PROVE IInv'
<1>1. /\ UNCHANGED <<defs, runs, queue, present, up, sched, overlapped>>
      /\ exec[s].at \notin {"idle", "requeueing"} /\ Interference
      /\ orphans' = orphans \cup {exec[s].run} /\ exec' = [exec EXCEPT ![s] = ExecIdle]
  BY DEF GiveUp, At, tables, ExecTo
<1>2. events' \in events..MaxEvents /\ events' \in 0..MaxEvents
  BY <1>1, Interfered DEF IInv
<1>3. exec[s].run \in Runs /\ orphans' \subseteq Runs
  BY <1>1 DEF IInv, TypeOK, ExecType, ExecutorsHold
<1>4. RunsAndExecutors'
  <2>1. RunsType' /\ QueueType' /\ \A q \in Runs : runs'[q] = runs[q]
    BY <1>1 DEF IInv, TypeOK, RunsType, QueueType, InLine
  <2>2. QED
    BY <1>1, <1>2, <1>3, <2>1, ReleasePreserves
<1>5. SchedType' /\ SchedulersKnow' /\ ScheduledOncePending'
  BY <1>1, SchedulersKept DEF ScheduledPending
<1>6. QED
  BY <1>1, <1>2, <1>3, <1>4, <1>5 DEF RunsAndExecutors, IInv, TypeOK, DefsType

(* An outcome is written; the executor is done, or goes on with it.          *)
LEMMA OutcomePreserves ==
    ASSUME IInv, NEW s \in Services, exec[s].at \notin {"idle", "requeueing"},
           NEW status \in Terminal, SetStatus(exec[s].run, status),
           NEW rec,
           \/ rec = ExecIdle
           \/ rec \in [at : {"failing", "retrying"}, run : {exec[s].run},
                       late : BOOLEAN, timedOut : BOOLEAN],
           rec.at = "retrying" => status = "failed" /\ runs[exec[s].run].attempt < Retries,
           exec' = [exec EXCEPT ![s] = rec], events' \in events..MaxEvents,
           UNCHANGED <<defs, queue, present, up, sched, orphans, overlapped>>
    PROVE  IInv'
<1> DEFINE r == exec[s].run
<1> USE DEF IInv, TypeOK
<1>1. /\ r \in Runs /\ r # None /\ runs[r].status \notin InLineStatus /\ None \notin Runs
      /\ runs[r].status # "queued"
  BY AutomationAssumption DEF ExecutorsHold, ExecType, Terminal, Runs, InLineStatus
<1>2. status \in {"running"} \cup Terminal
  OBVIOUS
<1>3. /\ RunsType' /\ QueueType'
      /\ runs'[r].status = status /\ runs'[r].auto = runs[r].auto
      /\ runs'[r].attempt = runs[r].attempt /\ runs'[r].trigger = runs[r].trigger
      /\ \A q \in Runs : q # r => runs'[q] = runs[q]
  BY <1>1, <1>2, SetStatusFacts
<1>5. ExecType' /\ exec'[s] = rec /\ \A t \in Services \ {s} : exec'[t] = exec[t]
  <2>1. rec \in [at : {"idle", "failing", "retrying"}, run : Runs \cup {None},
                 late : BOOLEAN, timedOut : BOOLEAN]
    <3>1. CASE rec = ExecIdle
      BY <3>1 DEF ExecIdle
    <3>2. CASE rec # ExecIdle
      BY <1>1, <3>2
    <3>3. QED
      BY <3>1, <3>2
  <2>2. QED
    BY <2>1 DEF ExecType
<1>6. \A t \in Services \ {s} : exec[t].run # r
  BY <1>1 DEF ClaimExclusive
<1>7. \/ rec.at = "idle" /\ rec.run = None
      \/ rec.run = r /\ rec.at \in {"failing", "retrying"}
  BY DEF ExecIdle
<1>8. RecordsInUse'
  <2>1. runs[r].status # "none"
    BY <1>1 DEF ExecutorsHold, Terminal
  <2>2. \A q \in Runs : /\ runs'[q].attempt = runs[q].attempt
                        /\ runs'[q].auto = runs[q].auto
                        /\ runs'[q].status # "none" => runs[q].status # "none"
                        /\ runs'[q].status = "stamped" => runs'[q] = runs[q]
    BY <1>3, <2>1 DEF Terminal
  <2>3. TypeOK /\ RecordsInUse /\ events' \in events..MaxEvents
    OBVIOUS
  <2> HIDE DEF IInv, TypeOK
  <2>4. QED
    BY <2>2, <2>3, RecordsKept
<1>9. ExecutorsHold'
  <2>1. ASSUME NEW t \in Services \ {s}
        PROVE  exec[t].run # None => exec[t].run \in Runs \ {r}
    BY <1>6 DEF ExecType
  <2>2. exec'[s].at = "retrying" => status = "failed" /\ runs[r].attempt < Retries
    BY <1>5
  <2>3. \A t \in Services : exec[t].at = "retrying" => exec[t].run # None
    BY DEF ExecutorsHold
  <2>4. QED
    BY <1>1, <1>3, <1>5, <1>7, <2>1, <2>2, <2>3 DEF ExecutorsHold
<1>10. ClaimExclusive'
  BY <1>5, <1>6, <1>7 DEF ClaimExclusive
<1>11. RunningIsExecuted'
  <2>1. \A q \in Runs \ {r} : runs[q].status = "running" =>
           q \in orphans \/ \E t \in Services \ {s} : exec[t].run = q
    BY DEF RunningIsExecuted
  <2>2. runs'[r].status # "running"
    BY <1>3 DEF Terminal
  <2> HIDE DEF IInv
  <2>3. QED
    BY <1>3, <1>5, <2>1, <2>2 DEF RunningIsExecuted
<1>12. \A q \in Runs, a \in Automations : ScheduledPending(q, a)' => ScheduledPending(q, a)
  BY <1>3 DEF ScheduledPending, Pending, Terminal
<1>13. SchedType' /\ SchedulersKnow' /\ ScheduledOncePending'
  <2>1. \A q \in Runs : runs'[q].status = "stamped" => runs'[q] = runs[q]
    BY <1>3 DEF Terminal
  <2>2. QED
    BY <1>12, <2>1, SchedulersKept
<1>14. events' \in 0..MaxEvents
  BY AutomationAssumption
<1>15. QED
  BY <1>3, <1>5, <1>8, <1>9, <1>10, <1>11, <1>13, <1>14 DEF DefsType

LEMMA RecordPreserves ==
    ASSUME IInv, NEW s \in Services, Record(s) PROVE IInv'
<1>1. /\ UNCHANGED <<defs, queue, present, up, sched, orphans, overlapped>>
      /\ exec[s].at = "recording" /\ events \in events..MaxEvents
  BY AutomationAssumption DEF Record, At, history, IInv, TypeOK
<1>2. exec[s] \in [at : {"idle", "recording", "failing", "retrying", "requeueing"} \cup Stages,
                   run : Runs \cup {None}, late : BOOLEAN, timedOut : BOOLEAN]
  BY DEF IInv, TypeOK, ExecType
<1> DEFINE failing == [exec[s] EXCEPT !.at = "failing", !.late = FALSE, !.timedOut = FALSE]
<1>3. /\ failing \in [at : {"failing"}, run : {exec[s].run}, late : BOOLEAN, timedOut : BOOLEAN]
      /\ failing.at = "failing" /\ ExecIdle.at = "idle"
  BY <1>2 DEF ExecIdle
<1>4. "success" \in Terminal
  BY DEF Terminal
<1>5. CASE SetStatus(exec[s].run, "success") /\ ExecTo(s, ExecIdle) /\ UNCHANGED events
  BY <1>1, <1>3, <1>4, <1>5, OutcomePreserves DEF ExecTo
<1>6. CASE SetStatus(exec[s].run, "success") /\ Failing(s, FALSE) /\ Interference
  <2>1. events' \in events..MaxEvents
    BY <1>6, Interfered DEF IInv
  <2>2. exec' = [exec EXCEPT ![s] = failing]
    BY <1>6 DEF Failing, ExecTo
  <2>3. QED
    BY <1>1, <1>3, <1>4, <1>6, <2>1, <2>2, OutcomePreserves
<1>7. CASE UNCHANGED runs /\ Failing(s, FALSE) /\ Interference
  <2>1. events' \in events..MaxEvents /\ events' \in 0..MaxEvents
    BY <1>7, Interfered DEF IInv
  <2>2. exec' = [exec EXCEPT ![s] = failing]
    BY <1>7 DEF Failing, ExecTo
  <2>3. ExecType' /\ exec'[s] = failing /\ \A t \in Services \ {s} : exec'[t] = exec[t]
    BY <1>2, <1>3, <2>2 DEF IInv, TypeOK, ExecType
  <2>4. failing.run = exec[s].run /\ exec[s].run # None /\ failing.at = "failing"
    BY <1>1, <1>2 DEF IInv, ExecutorsHold
  <2> HIDE DEF failing
  <2>5. /\ \A t \in Services : exec'[t].run = exec[t].run
        /\ \A t \in Services \ {s} : exec'[t].at = exec[t].at
        /\ exec'[s].at = "failing"
    BY <2>3, <2>4
  <2>9. ExecutorsHold' /\ ClaimExclusive' /\ RunningIsExecuted'
    BY <1>1, <1>7, <2>4, <2>5
    DEF IInv, ExecutorsHold, ClaimExclusive, RunningIsExecuted
  <2>6. SchedType' /\ SchedulersKnow' /\ ScheduledOncePending'
    BY <1>1, <1>7, SchedulersKept DEF ScheduledPending
  <2>7. RecordsInUse'
    BY <1>7, <2>1, RecordsKept DEF IInv
  <2>8. QED
    BY <1>1, <1>7, <2>1, <2>3, <2>6, <2>7, <2>9
    DEF IInv, TypeOK, DefsType, RunsType, QueueType, InLine
<1>8. QED
  BY <1>5, <1>6, <1>7 DEF Record

LEMMA FailPreserves ==
    ASSUME IInv, NEW s \in Services, Fail(s) PROVE IInv'
<1>1. /\ UNCHANGED <<defs, queue, present, up, sched, events, orphans, overlapped>>
      /\ exec[s].at = "failing" /\ SetStatus(exec[s].run, "failed")
      /\ events' \in events..MaxEvents
  BY AutomationAssumption DEF Fail, At, history, IInv, TypeOK
<1>2. exec[s] \in [at : {"idle", "recording", "failing", "retrying", "requeueing"} \cup Stages,
                   run : Runs \cup {None}, late : BOOLEAN, timedOut : BOOLEAN]
  BY DEF IInv, TypeOK, ExecType
<1> DEFINE retrying == [exec[s] EXCEPT !.at = "retrying"]
<1>3. /\ retrying \in [at : {"retrying"}, run : {exec[s].run}, late : BOOLEAN, timedOut : BOOLEAN]
      /\ retrying.at = "retrying" /\ ExecIdle.at = "idle" /\ "failed" \in Terminal
  BY <1>2 DEF ExecIdle, Terminal
<1>4. CASE ~exec[s].timedOut /\ Retries > runs[exec[s].run].attempt
  <2>1. exec' = [exec EXCEPT ![s] = retrying]
    BY <1>4 DEF Fail, ExecTo
  <2>2. runs[exec[s].run].attempt < Retries
    <3>1. exec[s].run \in Runs
      BY <1>1, <1>2 DEF IInv, ExecutorsHold
    <3>2. runs[exec[s].run].attempt \in Nat /\ Retries \in Nat
      BY <3>1, AutomationAssumption DEF IInv, TypeOK, RunsType
    <3>3. QED
      BY <1>4, <3>2
  <2>3. QED
    BY <1>1, <1>3, <2>1, <2>2, OutcomePreserves
<1>5. CASE ~(~exec[s].timedOut /\ Retries > runs[exec[s].run].attempt)
  <2>1. exec' = [exec EXCEPT ![s] = ExecIdle]
    BY <1>5 DEF Fail, ExecTo
  <2>2. QED
    BY <1>1, <1>3, <2>1, OutcomePreserves
<1>6. QED
  BY <1>4, <1>5

LEMMA RetryPreserves ==
    ASSUME IInv, NEW s \in Services, Retry(s) PROVE IInv'
<1> DEFINE held == exec[s].run
           a == runs[held].auto
           attempt == runs[held].attempt + 1
<1>1. /\ UNCHANGED <<defs, present, up, sched, events, orphans, overlapped>>
      /\ exec[s].at = "retrying"
  BY DEF Retry, At, history
<1>2. /\ held \in Runs /\ held # None /\ None \notin Runs
      /\ runs[held].status = "failed" /\ runs[held].attempt < Retries
  BY <1>1, AutomationAssumption DEF IInv, TypeOK, ExecType, ExecutorsHold, Runs
<1>3. a \in Automations /\ runs[held].attempt \in Nat
  BY <1>2, AutomationAssumption DEF IInv, TypeOK, RunsType, RecordsInUse
<1>4. events' \in events..MaxEvents /\ events \in Nat /\ events' = events
  BY <1>1, AutomationAssumption DEF IInv, TypeOK
<1>5. CASE UNCHANGED <<runs, queue>> /\ ExecTo(s, ExecIdle)
  <2>1. RunsAndExecutors'
    <3>1. RunsType' /\ QueueType' /\ \A q \in Runs : runs'[q] = runs[q]
      BY <1>5 DEF IInv, TypeOK, RunsType, QueueType, InLine
    <3>2. exec' = [exec EXCEPT ![s] = ExecIdle] /\ orphans' \subseteq Runs
      BY <1>1, <1>5 DEF ExecTo, IInv, TypeOK
    <3>3. QED
      BY <1>1, <1>2, <1>4, <3>1, <3>2, ReleasePreserves
  <2>2. SchedType' /\ SchedulersKnow' /\ ScheduledOncePending'
    BY <1>1, <1>5, SchedulersKept DEF ScheduledPending
  <2>3. QED
    BY <1>1, <2>1, <2>2 DEF RunsAndExecutors, IInv, TypeOK, DefsType
<1>6. CASE /\ \E r \in Runs : Stamp(r, a, "retry", attempt, Backoff, s, "executor")
           /\ ExecTo(s, [ExecIdle EXCEPT !.at = "requeueing"])
  <2>1. attempt \in 0..(Retries + MaxEvents) /\ attempt <= Retries + events' /\ attempt \in Nat
    BY <1>2, <1>3, <1>4, AutomationAssumption
  <2> HIDE DEF a, attempt
  <2>2. PICK r \in Runs : Stamp(r, a, "retry", attempt, Backoff, s, "executor")
    BY <1>6
  <2>3. Made(r, a, "retry", attempt, s, "executor")
    BY <1>3, <2>1, <2>2, StampFacts, Zenon DEF IInv
  <2>4. exec' = [exec EXCEPT ![s] = [ExecIdle EXCEPT !.at = "requeueing"]]
    BY <1>6 DEF ExecTo
  <2>5. RunsAndExecutors'
    BY <1>1, <1>3, <1>4, <2>1, <2>3, <2>4, MadeKept
  <2>6. SchedType' /\ SchedulersKnow' /\ ScheduledOncePending'
    BY <1>1, <2>3, OtherRunsMade
  <2>7. QED
    BY <1>1, <2>5, <2>6 DEF RunsAndExecutors, IInv, TypeOK, DefsType
<1>7. QED
  BY <1>5, <1>6 DEF Retry

LEMMA InsertRetryPreserves ==
    ASSUME IInv, NEW s \in Services, InsertRetry(s) PROVE IInv'
<1>1. /\ UNCHANGED <<defs, present, up, sched, events, orphans, overlapped>>
      /\ exec[s].at = "requeueing" /\ exec' = [exec EXCEPT ![s] = ExecIdle]
  BY DEF InsertRetry, At, ExecTo, history
<1>2. PICK r \in Stamps(s, "executor") : Inserted(r)
  BY InsertFacts DEF InsertRetry, IInv
<1>3. ExecType' /\ exec'[s] = ExecIdle /\ \A t \in Services \ {s} : exec'[t] = exec[t]
  BY <1>1 DEF IInv, TypeOK, ExecType, ExecIdle
<1>4. RunsAndExecutors'
  BY <1>1, <1>2, <1>3, InsertedKept
<1>5. SchedType' /\ SchedulersKnow' /\ ScheduledOncePending'
  BY <1>1, <1>2, OtherRunsInserted
<1>6. QED
  BY <1>1, <1>4, <1>5 DEF RunsAndExecutors, IInv, TypeOK, DefsType

-----------------------------------------------------------------------------
(* The HTTP handlers and the environment. *)
LEMMA UpsertPreserves ==
    ASSUME IInv, NEW a \in Automations, Upsert(a) PROVE IInv'
<1>1. /\ UNCHANGED <<runs, queue, present, up, sched, exec, orphans, overlapped>>
      /\ Interference
  BY DEF Upsert, history
<1>2. events' \in events..MaxEvents /\ events' \in 0..MaxEvents
  BY <1>1, Interfered DEF IInv
<1>3. RunsAndExecutors'
  BY <1>1, <1>2, RunsAndExecutorsKept
<1>4. SchedType' /\ SchedulersKnow' /\ ScheduledOncePending'
  BY <1>1, SchedulersKept DEF ScheduledPending
<1>5. DefsType'
  <2>1. PICK enabled \in BOOLEAN : defs' = [defs EXCEPT ![a] = Normalized(a, enabled)]
    BY DEF Upsert
  <2> DEFINE row == Normalized(a, enabled)
  <2>2. row \in [enabled : BOOLEAN, valid : BOOLEAN, next : {"null", "later", "due"}]
    BY NormalizedType
  <2>3. defs' = [defs EXCEPT ![a] = row]
    BY <2>1
  <2> HIDE DEF row
  <2>4. QED
    BY <2>2, <2>3 DEF IInv, TypeOK, DefsType
<1>6. QED
  BY <1>1, <1>2, <1>3, <1>4, <1>5 DEF RunsAndExecutors, IInv, TypeOK

(* Every request may add one to the attempts, and there are MaxEvents.       *)
LEMMA AttemptRange ==
    ASSUME NEW attempt \in Nat, NEW n \in 0..MaxEvents, attempt <= Retries + n
    PROVE  attempt \in 0..(Retries + MaxEvents)
BY AutomationAssumption

(* A user's request for a run, or for one more attempt at a run. *)
LEMMA RequestPreserves ==
    ASSUME IInv, NEW a \in Automations, NEW trigger \in {"manual", "retry"},
           NEW attempt \in Nat, attempt <= Retries + events', NEW later, NEW s \in Services,
           Interference, NEW r \in Runs,
           Stamp(r, a, trigger, attempt, later, s, "handler"),
           UNCHANGED <<defs, present, up, sched, exec, orphans, overlapped>>
    PROVE  IInv'
<1>1. /\ events' \in events..MaxEvents /\ events' \in 0..MaxEvents
  BY Interfered DEF IInv
<1>2. attempt \in 0..(Retries + MaxEvents)
  BY <1>1, AttemptRange, Zenon
<1>3. /\ trigger \in {"scheduled", "manual", "retry"} /\ trigger # "scheduled"
      /\ "handler" \in {"scheduler", "executor", "handler"}
  OBVIOUS
<1>4. Made(r, a, trigger, attempt, s, "handler")
  BY <1>2, <1>3, StampFacts, Zenon DEF IInv
<1>5. RunsAndExecutors'
  BY <1>1, <1>3, <1>4, MadeKept
<1>6. SchedType' /\ SchedulersKnow' /\ ScheduledOncePending'
  BY <1>4, OtherRunsMade
<1>7. QED
  BY <1>1, <1>5, <1>6 DEF RunsAndExecutors, IInv, TypeOK, DefsType

LEMMA RunNowPreserves ==
    ASSUME IInv, NEW s \in Services, NEW a \in Automations, RunNow(s, a) PROVE IInv'
<1>1. /\ UNCHANGED <<defs, present, up, sched, exec, orphans, overlapped>> /\ Interference
      /\ \E r \in Runs : Stamp(r, a, "manual", 0, FALSE, s, "handler")
  BY DEF RunNow, history
<1>2. 0 \in Nat /\ 0 <= Retries + events'
  BY <1>1, Interfered, AutomationAssumption DEF IInv
<1>3. QED
  BY <1>1, <1>2, RequestPreserves

LEMMA RetryRequestPreserves ==
    ASSUME IInv, NEW s \in Services, NEW q \in Runs, RetryRequest(s, q) PROVE IInv'
<1> DEFINE a == runs[q].auto
           attempt == runs[q].attempt + 1
<1>1. /\ UNCHANGED <<defs, present, up, sched, exec, orphans, overlapped>> /\ Interference
      /\ \E r \in Runs : Stamp(r, a, "retry", attempt, Backoff, s, "handler")
      /\ runs[q].status # "none"
  BY DEF RetryRequest, history
<1>2. a \in Automations
  BY <1>1 DEF IInv, RecordsInUse
<1>3. attempt \in Nat /\ attempt <= Retries + events'
  <2>1. runs[q].attempt \in Nat /\ runs[q].attempt <= Retries + events
    BY AutomationAssumption DEF IInv, TypeOK, RunsType, RecordsInUse
  <2>2. events' = events + 1 /\ events \in Nat /\ Retries \in Nat
    BY <1>1, AutomationAssumption DEF Interference, IInv, TypeOK
  <2>3. QED
    BY <2>1, <2>2
<1> HIDE DEF a, attempt
<1>4. QED
  BY <1>1, <1>2, <1>3, RequestPreserves

LEMMA InsertRequestedPreserves ==
    ASSUME IInv, NEW s \in Services, InsertRequested(s) PROVE IInv'
<1>1. UNCHANGED <<defs, present, up, sched, exec, events, orphans, overlapped>>
  BY DEF InsertRequested, history
<1>2. PICK r \in Stamps(s, "handler") : Inserted(r)
  BY InsertFacts DEF InsertRequested, IInv
<1>3. RunsAndExecutors'
  BY <1>1, <1>2, InsertedKept DEF IInv, TypeOK, ExecType
<1>4. SchedType' /\ SchedulersKnow' /\ ScheduledOncePending'
  BY <1>1, <1>2, OtherRunsInserted
<1>5. QED
  BY <1>1, <1>3, <1>4 DEF RunsAndExecutors, IInv, TypeOK, DefsType

LEMMA StartPreserves ==
    ASSUME IInv, NEW s \in Services, Start(s) PROVE IInv'
<1>1. /\ UNCHANGED <<defs, runs, queue, present, sched, exec, events, orphans>>
      /\ s \notin up /\ up' = up \cup {s} /\ overlapped' = (overlapped \/ up # {})
  BY DEF Start, tables
<1>2. events' \in events..MaxEvents
  BY <1>1, AutomationAssumption DEF IInv, TypeOK
<1>3. RunsAndExecutors'
  BY <1>1, <1>2, RunsAndExecutorsKept
<1>4. SchedType' /\ up' \subseteq Services
  BY <1>1 DEF IInv, TypeOK, SchedType
<1>5. overlapped' \in BOOLEAN /\ (~overlapped' => ~overlapped /\ up = {} /\ up' = {s})
  BY <1>1, Zenon
<1>6. SchedulersKnow'
  <2>1. ASSUME NEW t \in Services
        PROVE  /\ sched[t].at # "idle" => t \in up'
               /\ sched[t].at \in {"create", "insert", "advance", "write"}
                     => sched[t].auto \in Automations
               /\ ~overlapped' => \A u \in up' : t \in up' => t = u
               /\ (~overlapped' /\ sched[t].at \in {"create", "insert"})
                     => \A r \in Runs : ~ScheduledPending(r, sched[t].auto)
               /\ \A q, r \in Stamps(t, "scheduler") :
                     q = r /\ sched[t].at = "insert" /\ runs[r].auto = sched[t].auto
    BY <1>1, <1>5 DEF IInv, SchedulersKnow
  <2>2. QED
    BY <1>1, <2>1 DEF SchedulersKnow, ScheduledPending, Stamps
<1>7. ScheduledOncePending'
  BY <1>1, <1>5 DEF IInv, ScheduledOncePending, ScheduledPending
<1>8. QED
  BY <1>1, <1>3, <1>4, <1>5, <1>6, <1>7 DEF RunsAndExecutors, IInv, TypeOK, DefsType

LEMMA DiePreserves ==
    ASSUME IInv, NEW s \in Services, Die(s) PROVE IInv'
<1> DEFINE left == {r \in {exec[s].run} \ {None} : runs[r].status = "running"}
           lost == {r \in Runs : runs[r].status = "stamped" /\ runs[r].by = s}
<1>1. /\ UNCHANGED <<defs, present, overlapped>> /\ Interference
      /\ up' = up \ {s} /\ sched' = [sched EXCEPT ![s] = SchedIdle]
      /\ exec' = [exec EXCEPT ![s] = ExecIdle] /\ orphans' = orphans \cup left
      /\ runs' = [r \in Runs |-> IF r \in lost THEN NoRun ELSE runs[r]] /\ Leave(lost)
  BY DEF Die
<1>2. events' \in events..MaxEvents /\ events' \in 0..MaxEvents
  BY <1>1, Interfered DEF IInv
<1>3. /\ left \in {{}, {exec[s].run}} /\ left \subseteq Runs
      /\ exec[s].run # None /\ runs[exec[s].run].status = "running" => exec[s].run \in left
  BY DEF IInv, TypeOK, ExecType
<1>4. \A r \in Runs : IF r \in lost THEN runs'[r] = NoRun ELSE runs'[r] = runs[r]
  BY <1>1
<1>5. \A r \in Runs : runs'[r] = runs[r] \/ Lost(r)
  BY <1>4 DEF Lost
<1>6. RunsType'
  <2>1. NoRun \in [auto : Automations \cup {None},
                    trigger : {"none", "scheduled", "manual", "retry"},
                    status : {"none", "stamped"} \cup Pending \cup Terminal,
                    attempt : 0..(Retries + MaxEvents), by : Services \cup {None},
                    thread : {"none", "scheduler", "executor", "handler"}]
    BY AutomationAssumption DEF NoRun
  <2>2. QED
    BY <1>1, <2>1 DEF IInv, TypeOK, RunsType
<1>7. QueueType'
  <2>1. \A q \in InLine \ lost : q \in Runs /\ runs'[q].status \in InLineStatus
    BY <1>4 DEF IInv, TypeOK, QueueType, InLine, InLineStatus
  <2>2. QED
    BY <1>1, <2>1, LeaveFacts DEF IInv, TypeOK
<1> HIDE DEF left, lost
<1>8. /\ orphans' \in {orphans, orphans \cup {exec[s].run}} /\ orphans' \subseteq Runs
      /\ exec[s].run # None /\ runs[exec[s].run].status = "running" => exec[s].run \in orphans'
  BY <1>1, <1>3 DEF IInv, TypeOK
<1>9. RunsAndExecutors'
  BY <1>1, <1>2, <1>5, <1>6, <1>7, <1>8, ReleasePreserves
<1>10. SchedType' /\ sched'[s] = SchedIdle /\ \A t \in Services \ {s} : sched'[t] = sched[t]
  BY <1>1 DEF IInv, TypeOK, SchedType, SchedIdle
<1>11. \A q \in Runs, a \in Automations : ScheduledPending(q, a)' => ScheduledPending(q, a)
  BY <1>5 DEF ScheduledPending, Lost, NoRun, Pending
<1>12. \A t \in Services : \A q \in Stamps(t, "scheduler")' :
          t # s /\ q \in Stamps(t, "scheduler") /\ runs'[q] = runs[q]
  BY <1>4 DEF Stamps, NoRun, lost
<1>13. SchedulersKnow'
  <2>1. sched'[s].at = "idle"
    BY <1>10 DEF SchedIdle
  <2>2. QED
    BY <1>1, <1>10, <1>11, <1>12, <2>1 DEF IInv, SchedulersKnow
<1>14. ScheduledOncePending'
  BY <1>1, <1>11 DEF IInv, ScheduledOncePending
<1>15. up' \subseteq Services
  BY <1>1 DEF IInv, TypeOK
<1>16. QED
  BY <1>1, <1>2, <1>8, <1>9, <1>10, <1>13, <1>14, <1>15 DEF RunsAndExecutors, IInv, TypeOK, DefsType

LEMMA FileChangesPreserves ==
    ASSUME IInv, NEW a \in Automations, FileChanges(a) PROVE IInv'
<1>1. /\ UNCHANGED <<defs, runs, queue, up, sched, exec, orphans, overlapped>> /\ Interference
      /\ present' \subseteq Automations
  BY DEF FileChanges, tables, history, IInv, TypeOK
<1>2. events' \in events..MaxEvents /\ events' \in 0..MaxEvents
  BY <1>1, Interfered DEF IInv
<1>3. RunsAndExecutors'
  BY <1>1, <1>2, RunsAndExecutorsKept
<1>4. SchedType' /\ SchedulersKnow' /\ ScheduledOncePending'
  BY <1>1, SchedulersKept DEF ScheduledPending
<1>5. QED
  BY <1>1, <1>2, <1>3, <1>4 DEF RunsAndExecutors, IInv, TypeOK, DefsType

LEMMA BecomesDuePreserves ==
    ASSUME IInv, NEW a \in Automations, BecomesDue(a) PROVE IInv'
<1>1. /\ UNCHANGED <<runs, queue, present, up, sched, exec, events, orphans, overlapped>>
      /\ defs' = [defs EXCEPT ![a].next = "due"]
  BY DEF BecomesDue, history
<1>2. events' \in events..MaxEvents
  BY <1>1, AutomationAssumption DEF IInv, TypeOK
<1>3. RunsAndExecutors'
  BY <1>1, <1>2, RunsAndExecutorsKept
<1>4. SchedType' /\ SchedulersKnow' /\ ScheduledOncePending'
  BY <1>1, SchedulersKept DEF ScheduledPending
<1>5. DefsType'
  BY <1>1 DEF IInv, TypeOK, DefsType
<1>6. QED
  BY <1>1, <1>3, <1>4, <1>5 DEF RunsAndExecutors, IInv, TypeOK

(* A retry whose backoff is over joins the line, in which it was not. *)
LEMMA BackoffOverPreserves ==
    ASSUME IInv, NEW r \in Runs, BackoffOver(r) PROVE IInv'
<1>1. /\ UNCHANGED <<defs, runs, present, up, sched, exec, events, orphans, overlapped>>
      /\ Joins(r) /\ r \notin InLine /\ runs[r].status \in InLineStatus
  BY DEF BackoffOver, history, InLineStatus
<1>2. QueueType'
  <2>1. \A q \in InLine : runs'[q].status \in InLineStatus
    BY <1>1 DEF IInv, TypeOK, QueueType, InLineStatus
  <2>2. QED
    BY <1>1, <2>1, JoinsFacts DEF IInv, TypeOK
<1>5. RunsType' /\ ExecType' /\ RecordsInUse'
  BY <1>1 DEF IInv, TypeOK, RunsType, ExecType, RecordsInUse
<1>6. ExecutorsHold' /\ ClaimExclusive' /\ RunningIsExecuted'
  BY <1>1 DEF IInv, ExecutorsHold, ClaimExclusive, RunningIsExecuted
<1>7. SchedType' /\ SchedulersKnow' /\ ScheduledOncePending'
  BY <1>1, SchedulersKept DEF ScheduledPending
<1>8. QED
  BY <1>1, <1>2, <1>5, <1>6, <1>7 DEF IInv, TypeOK, DefsType

-----------------------------------------------------------------------------
LEMMA StutterPreserves == IInv /\ UNCHANGED vars => IInv'
<1> SUFFICES ASSUME IInv, UNCHANGED vars PROVE IInv'
  OBVIOUS
<1>1. UNCHANGED <<defs, present, runs, queue, up, sched, exec, events, orphans, overlapped>>
  BY DEF vars
<1>2. events' \in events..MaxEvents
  BY <1>1, AutomationAssumption DEF IInv, TypeOK
<1>3. RunsAndExecutors'
  BY <1>1, <1>2, RunsAndExecutorsKept
<1>4. SchedType' /\ SchedulersKnow' /\ ScheduledOncePending'
  BY <1>1, SchedulersKept DEF ScheduledPending
<1>5. QED
  BY <1>1, <1>3, <1>4 DEF RunsAndExecutors, IInv, TypeOK, DefsType

LEMMA NextPreserves == IInv /\ [Next]_vars => IInv'
<1> SUFFICES ASSUME IInv, [Next]_vars PROVE IInv'
  OBVIOUS
<1>1. CASE UNCHANGED vars
  BY <1>1, StutterPreserves
<1>2. ASSUME NEW a \in Automations, Upsert(a) \/ FileChanges(a) \/ BecomesDue(a)
      PROVE  IInv'
  BY <1>2, UpsertPreserves, FileChangesPreserves, BecomesDuePreserves
<1>3. ASSUME NEW r \in Runs, BackoffOver(r) PROVE IInv'
  BY <1>3, BackoffOverPreserves
<1>4. ASSUME NEW s \in Services, \/ Start(s) \/ Die(s) \/ InsertRequested(s)
                                 \/ \E a \in Automations : RunNow(s, a)
                                 \/ \E r \in Runs : RetryRequest(s, r)
      PROVE  IInv'
  BY <1>4, StartPreserves, DiePreserves, InsertRequestedPreserves, RunNowPreserves,
     RetryRequestPreserves
<1>5. ASSUME NEW s \in Services, Scheduling(s) PROVE IInv'
  BY <1>5, ListDuePreserves, CheckPendingPreserves, CreateScheduledPreserves,
     InsertScheduledPreserves, ReadForNextPreserves, WriteNextPreserves DEF Scheduling
<1>6. ASSUME NEW s \in Services, Executing(s) PROVE IInv'
  BY <1>6, ClaimPreserves, GiveUpPreserves, StagesPreserve, RecordPreserves,
     FailPreserves, RetryPreserves, InsertRetryPreserves DEF Executing
<1>7. CASE Next
  BY <1>2, <1>3, <1>4, <1>5, <1>6, <1>7 DEF Next, Environment
<1>8. QED
  BY <1>1, <1>7

(* IInv holds of every state, whatever requests, file changes and deaths     *)
(* come between the statements of the store.                                 *)
THEOREM Invariance == Spec => []IInv
<1>1. Init => IInv
  BY InitIInv
<1>2. IInv /\ [Next]_vars => IInv'
  BY NextPreserves
<1>3. QED
  BY <1>1, <1>2, PTL DEF Spec

(* The tables and the threads have their types: the line is a total order on *)
(* runs that are queued or about to be.                                      *)
THEOREM TypeCorrect == Spec => []TypeOK
<1>1. IInv => TypeOK
  BY DEF IInv
<1>2. QED
  BY <1>1, Invariance, PTL

(* claim_next_run: no two executors, of however many services, execute one   *)
(* run.                                                                      *)
THEOREM ClaimIsExclusive == Spec => []ClaimExclusive
<1>1. IInv => ClaimExclusive
  BY DEF IInv
<1>2. QED
  BY <1>1, Invariance, PTL

(* _execute_run: a run is left "running" without an executor only by a death *)
(* or by a failure outside the try statement.                                *)
THEOREM RunningRunsAreExecuted == Spec => []RunningIsExecuted
<1>1. IInv => RunningIsExecuted
  BY DEF IInv
<1>2. QED
  BY <1>1, Invariance, PTL

(* enqueue_due_runs: the look for a pending run and the insertion are two    *)
(* calls of the store, and yet one service never queues a second scheduled   *)
(* run of an automation.                                                     *)
THEOREM ScheduledRunsDoNotPileUp == Spec => []ScheduledOncePending
<1>1. IInv => ScheduledOncePending
  BY DEF IInv
<1>2. QED
  BY <1>1, Invariance, PTL

(* retry_run: the executor retries failed runs only, and no more often than  *)
(* retry_attempts.                                                           *)
THEOREM RetriesAreBounded == Spec => RetriesBounded
<1> DEFINE Bounded ==
      \A s \in Services : (At(s, {"retrying"}) /\ At(s, {"requeueing"})') =>
         /\ runs[exec[s].run].status = "failed"
         /\ \A r \in Runs : runs'[r] # runs[r] => runs'[r].attempt <= Retries
<1>1. IInv /\ [Next]_vars => [Bounded]_vars
  <2> SUFFICES ASSUME IInv, [Next]_vars, NEW s \in Services,
                      At(s, {"retrying"}), At(s, {"requeueing"})'
               PROVE  /\ runs[exec[s].run].status = "failed"
                      /\ \A r \in Runs : runs'[r] # runs[r] => runs'[r].attempt <= Retries
    OBVIOUS
  <2>1. /\ exec[s].at = "retrying" /\ exec[s].run \in Runs /\ exec'[s].at = "requeueing"
        /\ runs[exec[s].run].status = "failed" /\ runs[exec[s].run].attempt < Retries
    BY DEF At, IInv, TypeOK, ExecType, ExecutorsHold
  <2>2. Retry(s)
    <3>1. ASSUME NEW t \in Services, Executing(t) PROVE t = s
      <4>1. \E rec : exec' = [exec EXCEPT ![t] = rec]
        BY <3>1 DEF Executing, Claim, GiveUp, StageDone, StageFails, Deadline, CutOff,
           Record, Fail, Retry, InsertRetry, Failing, ExecTo
      <4>2. QED
        BY <2>1, <4>1 DEF IInv, TypeOK, ExecType
    <3>2. ASSUME NEW t \in Services, Scheduling(t) PROVE UNCHANGED exec
      BY <3>2 DEF Scheduling, ListDue, CheckPending, CreateScheduled, InsertScheduled,
         ReadForNext, WriteNext
    <3>3. ~Environment
      <4>1. ASSUME NEW t \in Services, Die(t) PROVE FALSE
        BY <2>1, <4>1 DEF Die, ExecIdle, IInv, TypeOK, ExecType
      <4>2. Environment => UNCHANGED exec \/ \E t \in Services : Die(t)
        BY DEF Environment, Upsert, RunNow, FileChanges, BecomesDue, RetryRequest,
           InsertRequested, BackoffOver, Start
      <4>3. QED
        BY <2>1, <4>1, <4>2
    <3>4. Executing(s)
      BY <2>1, <3>1, <3>2, <3>3 DEF Next, vars
    <3>5. QED
      BY <2>1, <3>4 DEF Executing, Claim, GiveUp, StageDone, StageFails, Deadline, CutOff,
         Record, Fail, InsertRetry, At, Stages
  <2>3. PICK r \in Runs : Stamp(r, runs[exec[s].run].auto, "retry",
                                runs[exec[s].run].attempt + 1, Backoff, s, "executor")
    <3>1. ~ExecTo(s, ExecIdle)
      BY <2>1 DEF ExecTo, ExecIdle, IInv, TypeOK, ExecType
    <3>2. QED
      BY <2>2, <3>1 DEF Retry
  <2>4. runs' = [runs EXCEPT ![r] = [auto |-> runs[exec[s].run].auto, trigger |-> "retry",
                    status |-> "stamped", attempt |-> runs[exec[s].run].attempt + 1,
                    by |-> s, thread |-> "executor"]]
    BY <2>3 DEF Stamp
  <2>5. runs[exec[s].run].attempt \in Nat /\ runs[exec[s].run].attempt + 1 <= Retries
    BY <2>1, AutomationAssumption DEF IInv, TypeOK, RunsType
  <2>6. \A q \in Runs : runs'[q] # runs[q] => runs'[q].attempt = runs[exec[s].run].attempt + 1
    BY <2>4 DEF IInv, TypeOK, RunsType
  <2>7. QED
    BY <2>1, <2>5, <2>6
<1>2. QED
  BY <1>1, Invariance, PTL DEF Spec, RetriesBounded
-----------------------------------------------------------------------------
(* The life of a record, and how the threads get on.  What the place of an   *)
(* executor says of its run, and that of a scheduler of its list.            *)
StagesTell ==
    \A s \in Services :
        /\ At(s, Stages \cup {"recording"}) => runs[exec[s].run].status = "running"
        /\ At(s, {"failing"}) => runs[exec[s].run].status \in {"running", "success"}

ListsTell ==
    \A s \in Services :
        sched[s].at \in {"create", "insert", "advance", "write"}
            => sched[s].auto \in sched[s].todo

PlacesTell == IInv /\ StagesTell /\ ListsTell

(* How a record may change: a free one is stamped as a new run, its maker    *)
(* inserts it or dies before, a claim makes the first of those in line a     *)
(* running one, and its executor gives that an outcome, which is replaced    *)
(* only where complete_run raised after its update.  No outcome is lost: a   *)
(* failed run stays one, a retry is another.                                 *)
Reused(r) ==
    /\ runs[r].status \notin {"stamped"} \cup Pending /\ runs'[r].status = "stamped"
    /\ \A s \in Services : exec[s].run = r => At(s, {"retrying"}) /\ At(s, {"requeueing"})'
Arrives(r) ==
    /\ runs[r].status = "stamped"
    /\ runs'[r] = [runs[r] EXCEPT !.status = "queued", !.by = None, !.thread = "none"]
Becomes(r, from, to) ==
    runs[r].status \in from /\ runs'[r] = [runs[r] EXCEPT !.status = to]
RecordAdvances(r) ==
    \/ Reused(r)
    \/ Arrives(r) /\ UNCHANGED up
    \/ Lost(r) /\ runs[r].by \in up \ up'
    \/ /\ Becomes(r, {"queued"}, "running") /\ First(r)
       /\ \E s \in Services : At(s, {"idle"}) /\ exec'[s].run = r
    \/ /\ Becomes(r, {"running"}, "success")
       /\ \E s \in Services : exec[s].run = r /\ At(s, {"recording"})
    \/ /\ Becomes(r, {"running", "success"}, "failed")
       /\ \E s \in Services : exec[s].run = r /\ At(s, {"failing"})
RecordsAdvance == [][\A r \in Runs : runs'[r] # runs[r] => RecordAdvances(r)]_vars

(* A run that waits in line waits on or is claimed; a claim meanwhile is of  *)
(* one that has got its queued_at before, and nobody else gets ahead of it:  *)
(* not a run whose queued_at is later, though its row be there first.        *)
Waiting == {r \in InLine : runs[r].status = "queued"}
Taken == {r \in Waiting : runs'[r].status = "running"}
KeepsItsPlace(r) ==
    /\ r \in Taken \/ r \in Waiting'
    /\ Taken \subseteq Ahead(r) \cup {r}
    /\ r \in Waiting' => Ahead(r)' \subseteq Ahead(r) \ Taken
QueueMovesOn == [][\A r \in Waiting : KeepsItsPlace(r)]_vars

(* What an executor has still to do for its run: two steps for a stage, one  *)
(* if its deadline has passed, the outcome, and two for a retry; and a       *)
(* scheduler for its list: five steps for an automation.                     *)
ExecLeft(e) ==
    CASE e.at = "daemon_ready" -> IF e.late THEN 11 ELSE 12
      [] e.at = "before_hooks" -> IF e.late THEN 9 ELSE 10
      [] e.at = "task_execution" -> IF e.late THEN 7 ELSE 8
      [] e.at = "after_success_hooks" -> IF e.late THEN 5 ELSE 6
      [] e.at = "recording" -> 4
      [] e.at = "failing" -> 3
      [] e.at = "retrying" -> 2
      [] e.at = "requeueing" -> 1
      [] OTHER -> 0
SchedLeft(k) ==
    LET n == 5 * Cardinality(k.todo)
    IN  CASE k.at = "check" -> n
          [] k.at = "create" -> n - 1
          [] k.at = "insert" -> n - 2
          [] k.at = "advance" -> n - 3
          [] k.at = "write" -> n - 4
          [] OTHER -> 0

(* Whoever is at work gets nearer to the end of it with every step: an       *)
(* executor with its run, a scheduler with its list.  No step of anybody     *)
(* else does anything to either, only the death of their service.            *)
ThreadsShorten ==
    \A s \in Services :
        /\ IF Executing(s) THEN Claim(s) \/ ExecLeft(exec'[s]) < ExecLeft(exec[s])
                           ELSE Die(s) \/ exec'[s] = exec[s]
        /\ IF Scheduling(s) THEN ListDue(s) \/ SchedLeft(sched'[s]) < SchedLeft(sched[s])
                            ELSE Die(s) \/ sched'[s] = sched[s]
ThreadsWindDown == [][ThreadsShorten]_vars

-----------------------------------------------------------------------------
LEMMA ExecLeftAt ==
    ASSUME NEW e
    PROVE  /\ e.at = "daemon_ready" => ExecLeft(e) = IF e.late THEN 11 ELSE 12
           /\ e.at = "before_hooks" => ExecLeft(e) = IF e.late THEN 9 ELSE 10
           /\ e.at = "task_execution" => ExecLeft(e) = IF e.late THEN 7 ELSE 8
           /\ e.at = "after_success_hooks" => ExecLeft(e) = IF e.late THEN 5 ELSE 6
           /\ e.at = "recording" => ExecLeft(e) = 4
           /\ e.at = "failing" => ExecLeft(e) = 3
           /\ e.at = "retrying" => ExecLeft(e) = 2
           /\ e.at = "requeueing" => ExecLeft(e) = 1
           /\ e.at = "idle" => ExecLeft(e) = 0
BY DEF ExecLeft

LEMMA ExecLeftOf ==
    ASSUME IInv, NEW s \in Services
    PROVE  /\ exec[s].late \in BOOLEAN
           /\ ExecLeft(exec[s]) \in 0..12
           /\ exec[s].at \in Stages => ExecLeft(exec[s]) \in 5..12
           /\ exec[s].at # "idle" => ExecLeft(exec[s]) >= 1
<1>1. /\ exec[s].late \in BOOLEAN
      /\ exec[s].at \in {"idle", "recording", "failing", "retrying", "requeueing"} \cup Stages
  BY DEF IInv, TypeOK, ExecType
<1>2. QED
  BY <1>1, ExecLeftAt DEF Stages

(* A step of an executor is nobody else's: it claims a run, or it brings the *)
(* one it has nearer to its end.                                             *)
LEMMA ExecutorWorks ==
    ASSUME IInv, NEW s \in Services, Executing(s)
    PROVE  /\ \A t \in Services \ {s} : exec'[t] = exec[t]
           /\ exec'[s] # exec[s] /\ UNCHANGED sched
           /\ Claim(s) \/ ExecLeft(exec'[s]) < ExecLeft(exec[s])
<1> DEFINE e == exec[s]
<1>1. e \in [at : {"idle", "recording", "failing", "retrying", "requeueing"} \cup Stages,
             run : Runs \cup {None}, late : BOOLEAN, timedOut : BOOLEAN]
  BY DEF IInv, TypeOK, ExecType
<1>2. ASSUME NEW rec, ExecTo(s, rec)
      PROVE  exec'[s] = rec /\ \A t \in Services \ {s} : exec'[t] = exec[t]
  BY <1>2 DEF ExecTo, IInv, TypeOK, ExecType
<1>3. UNCHANGED sched
  BY DEF Executing, Claim, GiveUp, StageDone, StageFails, Deadline, CutOff, Record, Fail, Retry,
     InsertRetry
<1>4. CASE Claim(s)
  <2>1. PICK r : ExecTo(s, [ExecIdle EXCEPT !.at = "daemon_ready", !.run = r])
    BY <1>4 DEF Claim
  <2>2. /\ exec'[s] = [ExecIdle EXCEPT !.at = "daemon_ready", !.run = r]
        /\ \A t \in Services \ {s} : exec'[t] = exec[t]
    BY <1>2, <2>1
  <2>4. exec'[s].at = "daemon_ready"
    BY <2>2 DEF ExecIdle
  <2>3. QED
    BY <1>3, <1>4, <2>2, <2>4 DEF Claim, At
<1>5. \A to \in BOOLEAN :
         [e EXCEPT !.at = "failing", !.late = FALSE, !.timedOut = to].at = "failing"
  BY <1>1
<1>6. ASSUME NEW to \in BOOLEAN, Failing(s, to)
      PROVE  /\ ExecLeft(exec'[s]) = 3 /\ exec'[s].at = "failing"
             /\ \A t \in Services \ {s} : exec'[t] = exec[t]
  <2>1. /\ exec'[s] = [e EXCEPT !.at = "failing", !.late = FALSE, !.timedOut = to]
        /\ \A t \in Services \ {s} : exec'[t] = exec[t]
    BY <1>2, <1>6 DEF Failing
  <2>2. exec'[s].at = "failing"
    BY <1>5, <2>1
  <2>3. QED
    BY <2>1, <2>2, ExecLeftAt
<1>6a. ASSUME NEW to \in BOOLEAN, Failing(s, to), e.at \in Stages \cup {"recording"}
       PROVE  /\ \A t \in Services \ {s} : exec'[t] = exec[t]
              /\ exec'[s] # exec[s] /\ ExecLeft(exec'[s]) < ExecLeft(exec[s])
  <2>1. /\ ExecLeft(exec'[s]) = 3 /\ exec'[s].at = "failing"
        /\ \A t \in Services \ {s} : exec'[t] = exec[t]
    BY <1>6, <1>6a
  <2>2. ExecLeft(exec[s]) \in 4..12 /\ e.at # "failing"
    BY <1>6a, ExecLeftOf, ExecLeftAt DEF Stages
  <2>3. QED
    BY <2>1, <2>2
<1>7. ASSUME ExecTo(s, ExecIdle), e.at # "idle"
      PROVE  /\ \A t \in Services \ {s} : exec'[t] = exec[t]
             /\ exec'[s] # exec[s] /\ ExecLeft(exec'[s]) < ExecLeft(exec[s])
  <2>1. exec'[s] = ExecIdle /\ \A t \in Services \ {s} : exec'[t] = exec[t]
    BY <1>2, <1>7
  <2>2. exec'[s].at = "idle"
    BY <2>1 DEF ExecIdle
  <2>3. QED
    BY <1>7, <2>1, <2>2, ExecLeftAt, ExecLeftOf
<1>8. CASE GiveUp(s)
  BY <1>3, <1>7, <1>8 DEF GiveUp, At
<1>9. CASE StageDone(s)
  <2>1. e.at \in Stages /\ After(e.at) \in Stages \cup {"recording"}
    BY <1>9 DEF StageDone, At, Stages, After
  <2>2. CASE e.late /\ After(e.at) # "recording"
    <3>1. Failing(s, TRUE)
      BY <1>9, <2>2 DEF StageDone
    <3>2. QED
      BY <1>3, <1>6a, <2>1, <3>1, Zenon
  <2>3. CASE ~(e.late /\ After(e.at) # "recording")
    <3>1. ExecTo(s, [e EXCEPT !.at = After(e.at)])
      BY <1>9, <2>3 DEF StageDone
    <3>2. /\ exec'[s] = [e EXCEPT !.at = After(e.at)]
          /\ \A t \in Services \ {s} : exec'[t] = exec[t]
      BY <1>2, <3>1
    <3>3. exec'[s].at = After(e.at) /\ exec'[s].late = e.late
      BY <1>1, <3>2
    <3>4. ~e.late \/ After(e.at) = "recording"
      BY <2>3
    <3>5. /\ e.at = "daemon_ready" => After(e.at) = "before_hooks"
          /\ e.at = "before_hooks" => After(e.at) = "task_execution"
          /\ e.at = "task_execution" => After(e.at) = "after_success_hooks"
          /\ e.at = "after_success_hooks" => After(e.at) = "recording"
      BY DEF After
    <3>6. ExecLeft(exec'[s]) < ExecLeft(exec[s]) /\ exec'[s].at # exec[s].at
      BY <1>1, <2>1, <3>3, <3>4, <3>5, ExecLeftAt DEF Stages
    <3>7. QED
      BY <1>3, <3>2, <3>6
  <2>4. QED
    BY <2>2, <2>3
<1>10. CASE StageFails(s)
  <2>1. Failing(s, FALSE) /\ e.at \in Stages
    BY <1>10 DEF StageFails, At
  <2>2. QED
    BY <1>3, <1>6a, <2>1, Zenon
<1>11. CASE Deadline(s)
  <2>1. e.at \in Stages /\ ~e.late /\ ExecTo(s, [e EXCEPT !.late = TRUE])
    BY <1>11 DEF Deadline, At
  <2>2. exec'[s] = [e EXCEPT !.late = TRUE] /\ \A t \in Services \ {s} : exec'[t] = exec[t]
    BY <1>2, <2>1
  <2>3. exec'[s].at = e.at /\ exec'[s].late = TRUE
    BY <1>1, <2>2
  <2>4. ExecLeft(exec'[s]) < ExecLeft(exec[s])
    BY <1>1, <2>1, <2>3, ExecLeftAt DEF Stages
  <2>5. QED
    BY <1>3, <2>1, <2>2, <2>3, <2>4
<1>12. CASE CutOff(s)
  <2>1. e.at \in Stages /\ Failing(s, At(s, {"daemon_ready", "task_execution"}))
    BY <1>12 DEF CutOff, At
  <2>2. At(s, {"daemon_ready", "task_execution"}) \in BOOLEAN
    BY DEF At
  <2>3. QED
    BY <1>3, <1>6a, <2>1, <2>2, Zenon
<1>13. CASE Record(s)
  <2>1. e.at = "recording" /\ (ExecTo(s, ExecIdle) \/ Failing(s, FALSE))
    BY <1>13 DEF Record, At
  <2>2. ExecLeft(exec[s]) = 4
    BY <1>1, <2>1, ExecLeftAt
  <2>3. CASE Failing(s, FALSE)
    BY <1>3, <1>6a, <2>1, <2>3, Zenon
  <2>4. CASE ExecTo(s, ExecIdle)
    BY <1>3, <1>7, <2>1, <2>4
  <2>5. QED
    BY <2>1, <2>3, <2>4
<1>14. CASE Fail(s)
  <2>1. e.at = "failing" /\ (ExecTo(s, ExecIdle) \/ ExecTo(s, [e EXCEPT !.at = "retrying"]))
    BY <1>14 DEF Fail, At
  <2>2. CASE ExecTo(s, ExecIdle)
    BY <1>3, <1>7, <2>1, <2>2
  <2>3. CASE ExecTo(s, [e EXCEPT !.at = "retrying"])
    <3>1. /\ exec'[s] = [e EXCEPT !.at = "retrying"]
          /\ \A t \in Services \ {s} : exec'[t] = exec[t]
      BY <1>2, <2>3
    <3>2. exec'[s].at = "retrying"
      BY <1>1, <3>1
    <3>3. QED
      BY <1>1, <1>3, <2>1, <3>1, <3>2, ExecLeftAt
  <2>4. QED
    BY <2>1, <2>2, <2>3
<1>15. CASE Retry(s)
  <2>1. /\ e.at = "retrying"
        /\ ExecTo(s, ExecIdle) \/ ExecTo(s, [ExecIdle EXCEPT !.at = "requeueing"])
    BY <1>15 DEF Retry, At
  <2>2. CASE ExecTo(s, ExecIdle)
    BY <1>3, <1>7, <2>1, <2>2
  <2>3. CASE ExecTo(s, [ExecIdle EXCEPT !.at = "requeueing"])
    <3>1. /\ exec'[s] = [ExecIdle EXCEPT !.at = "requeueing"]
          /\ \A t \in Services \ {s} : exec'[t] = exec[t]
      BY <1>2, <2>3
    <3>2. exec'[s].at = "requeueing"
      BY <3>1 DEF ExecIdle
    <3>3. ExecLeft(exec'[s]) = 1 /\ ExecLeft(exec[s]) = 2
      BY <2>1, <3>2, ExecLeftAt
    <3>4. QED
      BY <1>3, <3>1, <3>3
  <2>4. QED
    BY <2>1, <2>2, <2>3
<1>15a. CASE InsertRetry(s)
  BY <1>3, <1>7, <1>15a DEF InsertRetry, At
<1>16. QED
  BY <1>4, <1>8, <1>9, <1>10, <1>11, <1>12, <1>13, <1>14, <1>15, <1>15a DEF Executing

LEMMA SchedLeftAt ==
    ASSUME NEW k
    PROVE  /\ k.at = "check" => SchedLeft(k) = 5 * Cardinality(k.todo)
           /\ k.at = "create" => SchedLeft(k) = 5 * Cardinality(k.todo) - 1
           /\ k.at = "insert" => SchedLeft(k) = 5 * Cardinality(k.todo) - 2
           /\ k.at = "advance" => SchedLeft(k) = 5 * Cardinality(k.todo) - 3
           /\ k.at = "write" => SchedLeft(k) = 5 * Cardinality(k.todo) - 4
           /\ k.at = "idle" => SchedLeft(k) = 0
BY DEF SchedLeft

LEMMA TodoIsFinite ==
    ASSUME IInv, NEW s \in Services
    PROVE  /\ IsFiniteSet(sched[s].todo) /\ Cardinality(sched[s].todo) \in Nat
           /\ Cardinality(sched[s].todo) <= Cardinality(Automations)
           /\ Cardinality(Automations) \in Nat
           /\ \A a \in sched[s].todo :
                 Cardinality(sched[s].todo \ {a}) = Cardinality(sched[s].todo) - 1
<1>1. sched[s].todo \subseteq Automations /\ IsFiniteSet(Automations)
  BY AutomationAssumption DEF IInv, TypeOK, SchedType
<1>2. QED
  BY <1>1, FS_Subset, FS_CardinalityType, FS_RemoveElement

(* A step of a scheduler is nobody else's either: it makes a list, or it     *)
(* goes on with the one it has.                                              *)
LEMMA SchedulerWorks ==
    ASSUME IInv, ListsTell, NEW s \in Services, Scheduling(s)
    PROVE  /\ \A t \in Services \ {s} : sched'[t] = sched[t]
           /\ sched'[s] # sched[s] /\ UNCHANGED exec
           /\ ListDue(s) \/ SchedLeft(sched'[s]) < SchedLeft(sched[s])
           /\ sched'[s].at \in {"create", "insert", "advance", "write"}
                 => sched'[s].auto \in sched'[s].todo
<1> DEFINE k == sched[s]
           n == Cardinality(k.todo)
<1>1. k \in [at : {"idle", "check", "create", "insert", "advance", "write"},
             todo : SUBSET Automations, auto : Automations \cup {None}, next : {"null", "later"}]
  BY DEF IInv, TypeOK, SchedType
<1>2. ASSUME NEW rec, SchedTo(s, rec)
      PROVE  sched'[s] = rec /\ \A t \in Services \ {s} : sched'[t] = sched[t]
  BY <1>2 DEF SchedTo, IInv, TypeOK, SchedType
<1>3. UNCHANGED exec
  BY DEF Scheduling, ListDue, CheckPending, CreateScheduled, InsertScheduled, ReadForNext,
     WriteNext
<1>4. n \in Nat
  BY TodoIsFinite
<1>5. ASSUME NEW a \in k.todo, SchedTo(s, Rest(s, a))
      PROVE  /\ sched'[s].at \in {"idle", "check"}
             /\ \A t \in Services \ {s} : sched'[t] = sched[t]
             /\ SchedLeft(sched'[s]) < 5 * n - 4 /\ SchedLeft(sched'[s]) < 5 * n
             /\ sched'[s] # k
  <2>1. /\ sched'[s] = Rest(s, a)
        /\ \A t \in Services \ {s} : sched'[t] = sched[t]
    BY <1>2, <1>5
  <2>2. /\ Rest(s, a).at \in {"idle", "check"} /\ Rest(s, a).todo = k.todo \ {a}
    BY DEF Rest, SchedIdle
  <2>3. Cardinality(k.todo \ {a}) = n - 1 /\ n - 1 \in Nat
    <3>1. Cardinality(k.todo \ {a}) = n - 1
      BY TodoIsFinite
    <3>2. Cardinality(k.todo \ {a}) \in Nat
      BY TodoIsFinite, FS_RemoveElement, FS_CardinalityType
    <3>3. QED
      BY <3>1, <3>2
  <2>4. SchedLeft(Rest(s, a)) \in {0, 5 * Cardinality(k.todo \ {a})}
    BY <2>2, SchedLeftAt
  <2>5. SchedLeft(sched'[s]) < 5 * n - 4 /\ SchedLeft(sched'[s]) < 5 * n
    BY <1>4, <2>1, <2>3, <2>4
  <2>6. sched'[s].todo # k.todo
    BY <2>1, <2>2
  <2>7. QED
    BY <2>1, <2>2, <2>5, <2>6
<1>6. CASE ListDue(s)
  <2>1. /\ SchedTo(s, [SchedIdle EXCEPT !.at = "check", !.todo = {a \in Automations : Due(a)}])
        /\ k.at = "idle"
    BY <1>6 DEF ListDue
  <2>2. /\ sched'[s] = [SchedIdle EXCEPT !.at = "check", !.todo = {a \in Automations : Due(a)}]
        /\ \A t \in Services \ {s} : sched'[t] = sched[t]
    BY <1>2, <2>1, Zenon
  <2>3. sched'[s].at = "check"
    BY <2>2 DEF SchedIdle
  <2>4. QED
    BY <1>3, <1>6, <2>1, <2>2, <2>3
<1>7. CASE CheckPending(s)
  <2>1. k.at = "check" /\ SchedLeft(k) = 5 * n
    BY <1>7, SchedLeftAt DEF CheckPending
  <2>2. PICK a \in k.todo :
           SchedTo(s, IF HasPending(a) THEN Rest(s, a)
                      ELSE [k EXCEPT !.at = "create", !.auto = a])
    BY <1>7 DEF CheckPending
  <2>3. CASE HasPending(a)
    <3>1. SchedTo(s, Rest(s, a))
      BY <2>2, <2>3
    <3>2. /\ sched'[s].at \in {"idle", "check"}
          /\ \A t \in Services \ {s} : sched'[t] = sched[t]
          /\ SchedLeft(sched'[s]) < 5 * n /\ sched'[s] # k
      BY <1>5, <3>1, Zenon
    <3>3. QED
      BY <1>3, <2>1, <3>2
  <2>4. CASE ~HasPending(a)
    <3>1. /\ sched'[s] = [k EXCEPT !.at = "create", !.auto = a]
          /\ \A t \in Services \ {s} : sched'[t] = sched[t]
      BY <1>2, <2>2, <2>4
    <3>2. sched'[s].at = "create" /\ sched'[s].auto = a /\ sched'[s].todo = k.todo
      BY <1>1, <3>1
    <3>3. SchedLeft(sched'[s]) = 5 * n - 1
      BY <3>2, SchedLeftAt
    <3>4. QED
      BY <1>3, <1>4, <2>1, <3>1, <3>2, <3>3
  <2>5. QED
    BY <2>3, <2>4
<1>8. ASSUME k.at \in {"create", "insert", "advance", "write"}
      PROVE  /\ k.auto \in k.todo /\ n >= 1
             /\ SchedLeft(k) = CASE k.at = "create" -> 5 * n - 1
                                 [] k.at = "insert" -> 5 * n - 2
                                 [] k.at = "advance" -> 5 * n - 3
                                 [] k.at = "write" -> 5 * n - 4
  <2>1. k.auto \in k.todo
    BY <1>8 DEF ListsTell
  <2>2. n >= 1
    <3>1. Cardinality(k.todo \ {k.auto}) = n - 1
      BY <2>1, TodoIsFinite
    <3>2. Cardinality(k.todo \ {k.auto}) \in Nat
      BY TodoIsFinite, FS_RemoveElement, FS_CardinalityType
    <3>3. QED
      BY <1>4, <3>1, <3>2
  <2>3. QED
    BY <1>8, <2>1, <2>2, SchedLeftAt
<1>9. CASE CreateScheduled(s)
  <2>1. /\ k.at = "create" /\ SchedLeft(k) = 5 * n - 1 /\ k.auto \in k.todo /\ n >= 1
        /\ SchedTo(s, [k EXCEPT !.at = "insert"]) \/ SchedTo(s, SchedIdle)
    BY <1>8, <1>9 DEF CreateScheduled
  <2>2. CASE SchedTo(s, [k EXCEPT !.at = "insert"])
    <3>1. /\ sched'[s] = [k EXCEPT !.at = "insert"]
          /\ \A t \in Services \ {s} : sched'[t] = sched[t]
      BY <1>2, <2>2
    <3>2. sched'[s].at = "insert" /\ sched'[s].auto = k.auto /\ sched'[s].todo = k.todo
      BY <1>1, <3>1
    <3>3. SchedLeft(sched'[s]) = 5 * n - 2
      BY <3>2, SchedLeftAt
    <3>4. QED
      BY <1>3, <1>4, <2>1, <3>1, <3>2, <3>3
  <2>3. CASE SchedTo(s, SchedIdle)
    <3>1. sched'[s].at = "idle" /\ \A t \in Services \ {s} : sched'[t] = sched[t]
      BY <1>2, <2>3 DEF SchedIdle
    <3>2. SchedLeft(sched'[s]) = 0
      BY <3>1, SchedLeftAt
    <3>3. QED
      BY <1>3, <1>4, <2>1, <3>1, <3>2
  <2>4. QED
    BY <2>1, <2>2, <2>3
<1>9a. CASE InsertScheduled(s)
  <2>1. /\ k.at = "insert" /\ SchedLeft(k) = 5 * n - 2 /\ k.auto \in k.todo
        /\ SchedTo(s, [k EXCEPT !.at = "advance"])
    BY <1>8, <1>9a DEF InsertScheduled
  <2>2. /\ sched'[s] = [k EXCEPT !.at = "advance"]
        /\ \A t \in Services \ {s} : sched'[t] = sched[t]
    BY <1>2, <2>1
  <2>3. sched'[s].at = "advance" /\ sched'[s].auto = k.auto /\ sched'[s].todo = k.todo
    BY <1>1, <2>2
  <2>4. SchedLeft(sched'[s]) = 5 * n - 3
    BY <2>3, SchedLeftAt
  <2>5. QED
    BY <1>3, <1>4, <2>1, <2>2, <2>3, <2>4
<1>10. CASE ReadForNext(s)
  <2>1. k.at = "advance" /\ SchedLeft(k) = 5 * n - 3 /\ k.auto \in k.todo
    BY <1>8, <1>10 DEF ReadForNext
  <2>2. PICK next : SchedTo(s, [k EXCEPT !.at = "write", !.next = next])
    BY <1>10 DEF ReadForNext
  <2>3. /\ sched'[s] = [k EXCEPT !.at = "write", !.next = next]
        /\ \A t \in Services \ {s} : sched'[t] = sched[t]
    BY <1>2, <2>2
  <2>4. sched'[s].at = "write" /\ sched'[s].auto = k.auto /\ sched'[s].todo = k.todo
    BY <1>1, <2>3
  <2>5. SchedLeft(sched'[s]) = 5 * n - 4
    BY <2>4, SchedLeftAt
  <2>6. QED
    BY <1>3, <1>4, <2>1, <2>3, <2>4, <2>5
<1>11. CASE WriteNext(s)
  <2>1. /\ k.at = "write" /\ SchedLeft(k) = 5 * n - 4 /\ k.auto \in k.todo
        /\ SchedTo(s, Rest(s, k.auto))
    BY <1>8, <1>11 DEF WriteNext
  <2>2. /\ sched'[s].at \in {"idle", "check"}
        /\ \A t \in Services \ {s} : sched'[t] = sched[t]
        /\ SchedLeft(sched'[s]) < 5 * n - 4 /\ sched'[s] # k
    BY <1>5, <2>1, Zenon
  <2>3. QED
    BY <1>3, <2>1, <2>2
<1>12. QED
  BY <1>6, <1>7, <1>9, <1>9a, <1>10, <1>11 DEF Scheduling

-----------------------------------------------------------------------------
(* The records and the line.                                                 *)
Moves ==
    /\ StagesTell'
    /\ \A r \in Runs : runs'[r] # runs[r] => RecordAdvances(r)
    /\ \A r \in Waiting : KeepsItsPlace(r)

Tells(s) == At(s, Stages \cup {"recording", "failing"})

LEMMA TellingRun ==
    ASSUME IInv, NEW s \in Services, Tells(s)
    PROVE  exec[s].run \in Runs /\ exec[s].run # None
BY DEF IInv, TypeOK, ExecType, ExecutorsHold, Tells, At, Stages

LEMMA TellsKept ==
    ASSUME IInv, StagesTell,
           \A s \in Services : Tells(s)' =>
               \/ exec'[s] = exec[s] /\ runs'[exec[s].run] = runs[exec[s].run]
               \/ /\ exec'[s].run = exec[s].run /\ runs'[exec[s].run] = runs[exec[s].run]
                  /\ At(s, Stages \cup {"recording"})
               \/ At(s, {"failing"})' /\ runs'[exec'[s].run].status \in {"running", "success"}
               \/ ~At(s, {"failing"})' /\ runs'[exec'[s].run].status = "running"
    PROVE  StagesTell'
<1> SUFFICES ASSUME NEW s \in Services, Tells(s)'
             PROVE  /\ At(s, Stages \cup {"recording"})' => runs'[exec'[s].run].status = "running"
                    /\ At(s, {"failing"})' => runs'[exec'[s].run].status \in {"running", "success"}
  BY DEF StagesTell, Tells, At
<1>1. CASE exec'[s] = exec[s] /\ runs'[exec[s].run] = runs[exec[s].run]
  BY <1>1 DEF StagesTell, At
<1>2. CASE /\ exec'[s].run = exec[s].run /\ runs'[exec[s].run] = runs[exec[s].run]
           /\ At(s, Stages \cup {"recording"})
  BY <1>2 DEF StagesTell
<1>3. CASE At(s, {"failing"})' /\ runs'[exec'[s].run].status \in {"running", "success"}
  BY <1>3 DEF At, Stages
<1>4. CASE ~At(s, {"failing"})' /\ runs'[exec'[s].run].status = "running"
  BY <1>4
<1>5. QED
  BY <1>1, <1>2, <1>3, <1>4

(* Who waits keeps its place if nobody is claimed and nobody gets ahead.     *)
LEMMA PlacesKept ==
    ASSUME IInv, \A q \in Waiting : runs'[q].status = "queued",
           \/ UNCHANGED queue
           \/ \A q \in Waiting : q \in InLine' /\ queue'[q] \subseteq queue[q]
    PROVE  \A r \in Waiting : KeepsItsPlace(r)
<1>1. \A q \in Waiting : q \in InLine' /\ queue'[q] \subseteq queue[q]
  BY DEF Waiting, InLine
<1>2. Taken = {}
  BY DEF Taken
<1>3. \A q \in Waiting : q \in Waiting' /\ Ahead(q)' \subseteq Ahead(q)
  BY <1>1 DEF Waiting, Ahead
<1>4. QED
  BY <1>2, <1>3 DEF KeepsItsPlace

(* Steps that leave the records and the line alone, and take no executor to  *)
(* a place where it tells more than it did.                                  *)
LEMMA QuietMoves ==
    ASSUME PlacesTell, UNCHANGED <<runs, queue>>,
           \A s \in Services : Tells(s)' => \/ exec'[s] = exec[s]
                                            \/ exec'[s].run = exec[s].run /\ At(s, Stages \cup {"recording"})
    PROVE  Moves
<1>1. StagesTell'
  BY TellsKept DEF PlacesTell
<1>2. \A r \in Waiting : KeepsItsPlace(r)
  <2>1. \A q \in Waiting : runs'[q].status = "queued"
    BY DEF Waiting
  <2>2. QED
    BY <2>1, PlacesKept DEF PlacesTell
<1>3. QED
  BY <1>1, <1>2 DEF Moves

(* An executor whose run does not change tells what it told.                 *)
LEMMA OthersTell ==
    ASSUME PlacesTell, NEW r, \A q \in Runs : q # r => runs'[q] = runs[q],
           \A t \in Services : \/ exec'[t] = exec[t] /\ (Tells(t) => exec[t].run # r)
                               \/ ~Tells(t)'
    PROVE  StagesTell'
<1>1. ASSUME NEW t \in Services, Tells(t)'
      PROVE  exec'[t] = exec[t] /\ runs'[exec[t].run] = runs[exec[t].run]
  <2>1. exec'[t] = exec[t] /\ (Tells(t) => exec[t].run # r)
    BY <1>1
  <2>2. Tells(t)
    BY <1>1, <2>1 DEF Tells, At
  <2>3. exec[t].run \in Runs
    BY <2>2, TellingRun DEF PlacesTell
  <2>4. QED
    BY <2>1, <2>2, <2>3
<1>2. QED
  BY <1>1, TellsKept DEF PlacesTell

(* What a stamp does to its executor: nothing, unless it is the retry of the *)
(* run that executor has just failed.                                        *)
StampStage(s, thread) ==
    \/ UNCHANGED exec /\ thread # "executor"
    \/ /\ exec' = [exec EXCEPT ![s] = [ExecIdle EXCEPT !.at = "requeueing"]]
       /\ At(s, {"retrying"})

LEMMA StampMoves ==
    ASSUME PlacesTell, NEW r \in Runs, NEW a \in Automations,
           NEW trigger \in {"scheduled", "manual", "retry"},
           NEW attempt \in 0..(Retries + MaxEvents), NEW later, NEW s \in Services,
           NEW thread \in {"scheduler", "executor", "handler"},
           Stamp(r, a, trigger, attempt, later, s, thread), StampStage(s, thread)
    PROVE  Moves
<1>1. Made(r, a, trigger, attempt, s, thread)
  <2>1. TypeOK
    BY DEF PlacesTell, IInv
  <2>2. QED
    BY <2>1, StampFacts, Zenon
<1>2. /\ runs'[r].status = "stamped" /\ runs[r].status \notin {"stamped"} \cup Pending
      /\ \A q \in Runs : q # r => runs'[q] = runs[q]
      /\ \A t \in Services : exec[t].run = r => t = s /\ thread = "executor"
      /\ \A q \in InLine : q # r /\ q \in InLine' /\ queue'[q] = queue[q]
  BY <1>1 DEF Made
<1>3. \/ UNCHANGED exec /\ \A t \in Services : exec[t].run # r
      \/ /\ \A t \in Services \ {s} : exec'[t] = exec[t] /\ exec[t].run # r
         /\ At(s, {"retrying"}) /\ At(s, {"requeueing"})'
  <2>1. CASE UNCHANGED exec /\ thread # "executor"
    BY <1>2, <2>1
  <2>2. CASE /\ exec' = [exec EXCEPT ![s] = [ExecIdle EXCEPT !.at = "requeueing"]]
             /\ At(s, {"retrying"})
    <3>1. exec'[s].at = "requeueing" /\ \A t \in Services \ {s} : exec'[t] = exec[t]
      BY <2>2 DEF ExecIdle, PlacesTell, IInv, TypeOK, ExecType
    <3>2. QED
      BY <1>2, <2>2, <3>1 DEF At
  <2>3. QED
    BY <2>1, <2>2 DEF StampStage
<1>4. StagesTell'
  <2>1. CASE UNCHANGED exec /\ \A t \in Services : exec[t].run # r
    BY <1>2, <2>1, OthersTell
  <2>2. CASE /\ \A t \in Services \ {s} : exec'[t] = exec[t] /\ exec[t].run # r
             /\ At(s, {"requeueing"})'
    <3>1. ~Tells(s)'
      BY <2>2 DEF Tells, At, Stages
    <3>2. QED
      BY <1>2, <2>2, <3>1, OthersTell
  <2>3. QED
    BY <1>3, <2>1, <2>2
<1>5. \A q \in Runs : runs'[q] # runs[q] => RecordAdvances(q)
  <2>1. Reused(r)
    BY <1>2, <1>3 DEF Reused
  <2>2. QED
    BY <1>2, <2>1 DEF RecordAdvances
<1>6. \A q \in Waiting : KeepsItsPlace(q)
  <2>1. \A q \in Waiting : /\ q \in InLine' /\ queue'[q] \subseteq queue[q]
                           /\ runs'[q].status = "queued"
    BY <1>2 DEF Waiting, InLine
  <2>2. QED
    BY <2>1, PlacesKept DEF PlacesTell
<1>7. QED
  BY <1>4, <1>5, <1>6 DEF Moves

LEMMA InsertMoves ==
    ASSUME PlacesTell, NEW s, NEW thread, Insert(s, thread), UNCHANGED up,
           \A t \in Services : exec'[t] = exec[t] \/ ~Tells(t)'
    PROVE  Moves
<1>1. PICK r \in Stamps(s, thread) : Inserted(r)
  BY InsertFacts DEF PlacesTell, IInv
<1>2. /\ runs[r].status = "stamped" /\ UNCHANGED queue /\ Arrives(r)
      /\ \A q \in Runs : q # r => runs'[q] = runs[q]
  BY <1>1 DEF Inserted, Arrives
<1>3. StagesTell'
  <2>1. ASSUME NEW t \in Services, Tells(t)'
        PROVE  exec'[t] = exec[t] /\ runs'[exec[t].run] = runs[exec[t].run]
    <3>1. exec'[t] = exec[t] /\ Tells(t)
      BY <2>1 DEF Tells, At
    <3>2. /\ exec[t].run \in Runs
          /\ runs[exec[t].run].status \in {"running"} \cup Terminal
      BY <3>1, TellingRun DEF PlacesTell, IInv, ExecutorsHold
    <3>3. exec[t].run # r
      BY <1>2, <3>2 DEF Terminal
    <3>4. QED
      BY <1>2, <3>1, <3>2, <3>3
  <2>2. QED
    BY <2>1, TellsKept DEF PlacesTell
<1>4. \A q \in Runs : runs'[q] # runs[q] => RecordAdvances(q)
  BY <1>2 DEF RecordAdvances
<1>5. \A q \in Waiting : KeepsItsPlace(q)
  <2>1. \A q \in Waiting : runs'[q].status = "queued"
    BY <1>2 DEF Waiting, InLine
  <2>2. QED
    BY <1>2, <2>1, PlacesKept DEF PlacesTell
<1>6. QED
  BY <1>3, <1>4, <1>5 DEF Moves

LEMMA ClaimMoves ==
    ASSUME PlacesTell, NEW s \in Services, Claim(s) PROVE Moves
<1> USE DEF PlacesTell, IInv, TypeOK
<1>1. PICK r \in Runs :
         /\ First(r) /\ SetStatus(r, "running") /\ Leave({r})
         /\ ExecTo(s, [ExecIdle EXCEPT !.at = "daemon_ready", !.run = r])
  BY DEF Claim
<1>2. exec[s].at = "idle" /\ runs[r].status = "queued" /\ r \in InLine
  BY <1>1 DEF Claim, At, First
<1>3. /\ runs'[r] = [runs[r] EXCEPT !.status = "running"] /\ runs'[r].status = "running"
      /\ \A q \in Runs : q # r => runs'[q] = runs[q]
  BY <1>1, SetStatusFacts
<1>4. /\ exec'[s] = [ExecIdle EXCEPT !.at = "daemon_ready", !.run = r]
      /\ \A t \in Services \ {s} : exec'[t] = exec[t]
  BY <1>1 DEF ExecTo, ExecType
<1>5. exec'[s].at = "daemon_ready" /\ exec'[s].run = r
  BY <1>4 DEF ExecIdle
<1>6. StagesTell'
  <2>1. ASSUME NEW t \in Services \ {s}, Tells(t)'
        PROVE  exec'[t] = exec[t] /\ runs'[exec[t].run] = runs[exec[t].run]
    <3>1. exec'[t] = exec[t] /\ Tells(t)
      BY <1>4, <2>1 DEF Tells, At
    <3>2. exec[t].run \in Runs /\ exec[t].run # None
      BY <3>1, TellingRun
    <3>3. exec[t].run # r
      BY <1>2, <3>2 DEF ExecutorsHold, Terminal
    <3>4. QED
      BY <1>3, <3>1, <3>2, <3>3
  <2>2. ~At(s, {"failing"})' /\ runs'[exec'[s].run].status = "running"
    BY <1>3, <1>5 DEF At
  <2>3. QED
    BY <2>1, <2>2, TellsKept
<1>7. RecordAdvances(r)
  <2>1. Becomes(r, {"queued"}, "running")
    BY <1>2, <1>3 DEF Becomes
  <2>2. At(s, {"idle"}) /\ exec'[s].run = r
    BY <1>2, <1>5 DEF At
  <2>3. QED
    BY <1>1, <2>1, <2>2 DEF RecordAdvances
<1>8. ASSUME NEW q \in Waiting PROVE KeepsItsPlace(q)
  <2>1. q \in InLine /\ q \in Runs /\ runs[q].status = "queued"
    BY <1>8 DEF Waiting, InLine
  <2>2. Taken = {r}
    BY <1>2, <1>3 DEF Taken, Waiting, InLine
  <2>3. r \in queue[q]
    <3>1. q # r => q \notin queue[r]
      BY <1>1, <2>1 DEF First, Ahead
    <3>2. QED
      BY <1>2, <2>1, <3>1 DEF QueueType, InLine
  <2>4. ASSUME q # r
        PROVE  q \in Waiting' /\ queue'[q] = queue[q] \ {r}
    <3>1. \A p \in InLine \ {r} : p \in Runs /\ runs'[p].status \in InLineStatus
      BY <1>3 DEF QueueType, InLine, InLineStatus
    <3>2. q \in InLine' /\ queue'[q] = queue[q] \ {r}
      BY <1>1, <2>1, <2>4, <3>1, LeaveFacts
    <3>3. QED
      BY <1>3, <2>1, <2>4, <3>2 DEF Waiting
  <2>5. r \notin Waiting'
    BY <1>3 DEF Waiting
  <2>6. QED
    BY <2>2, <2>3, <2>4, <2>5 DEF KeepsItsPlace, Ahead
<1>9. QED
  BY <1>3, <1>6, <1>7, <1>8 DEF Moves

LEMMA StageMoves ==
    ASSUME PlacesTell, NEW s \in Services,
           StageDone(s) \/ StageFails(s) \/ Deadline(s) \/ CutOff(s)
    PROVE  Moves
<1>1. /\ UNCHANGED <<runs, queue>> /\ exec[s].at \in Stages
      /\ \E rec \in [at : {"recording", "failing"} \cup Stages, run : {exec[s].run},
                     late : BOOLEAN, timedOut : BOOLEAN] :
            exec' = [exec EXCEPT ![s] = rec]
  BY StageSteps DEF PlacesTell
<1>2. exec'[s].run = exec[s].run /\ \A t \in Services \ {s} : exec'[t] = exec[t]
  BY <1>1 DEF PlacesTell, IInv, TypeOK, ExecType
<1>3. QED
  BY <1>1, <1>2, QuietMoves DEF At

LEMMA LeavingMoves ==
    ASSUME PlacesTell, NEW s \in Services, exec' = [exec EXCEPT ![s] = ExecIdle],
           UNCHANGED <<runs, queue>>
    PROVE  Moves
<1>1. exec'[s].at = "idle" /\ \A t \in Services \ {s} : exec'[t] = exec[t]
  BY DEF PlacesTell, IInv, TypeOK, ExecType, ExecIdle
<1>2. ~Tells(s)'
  BY <1>1 DEF Tells, At, Stages
<1>3. QED
  BY <1>1, <1>2, QuietMoves

(* The outcomes: what complete_run is called with from where. *)
LEMMA OutcomeMoves ==
    ASSUME PlacesTell, NEW s \in Services, NEW to \in Terminal,
           SetStatus(exec[s].run, to), UNCHANGED queue,
           \/ At(s, {"recording"}) /\ to = "success"
           \/ At(s, {"failing"}) /\ to = "failed",
           \A t \in Services \ {s} : exec'[t] = exec[t],
           \/ exec'[s].at \in {"idle", "retrying"}
           \/ to = "success" /\ exec'[s].at = "failing" /\ exec'[s].run = exec[s].run
    PROVE  Moves
<1> DEFINE r == exec[s].run
<1> USE DEF PlacesTell
<1>1. Tells(s)
  BY DEF Tells, At
<1>2. r \in Runs /\ r # None
  BY <1>1, TellingRun
<1>3. /\ runs'[r] = [runs[r] EXCEPT !.status = to] /\ runs'[r].status = to
      /\ \A q \in Runs : q # r => runs'[q] = runs[q]
  BY <1>2 DEF SetStatus, IInv, TypeOK, RunsType
<1>4. StagesTell'
  <2>1. ASSUME NEW t \in Services \ {s}, Tells(t)'
        PROVE  exec'[t] = exec[t] /\ runs'[exec[t].run] = runs[exec[t].run]
    <3>1. exec'[t] = exec[t] /\ Tells(t)
      BY <2>1 DEF Tells, At
    <3>2. exec[t].run \in Runs /\ exec[t].run # None
      BY <3>1, TellingRun
    <3>3. exec[t].run # r
      BY <1>2, <3>2 DEF IInv, ClaimExclusive
    <3>4. QED
      BY <1>3, <3>1, <3>2, <3>3
  <2>2. Tells(s)' => At(s, {"failing"})' /\ runs'[exec'[s].run].status \in {"running", "success"}
    BY <1>3 DEF Tells, At, Stages
  <2>3. QED
    BY <2>1, <2>2, TellsKept
<1>5. RecordAdvances(r)
  <2>1. CASE At(s, {"recording"}) /\ to = "success"
    <3>1. runs[r].status = "running"
      BY <2>1 DEF StagesTell, At
    <3>2. QED
      BY <1>3, <2>1, <3>1 DEF RecordAdvances, Becomes
  <2>2. CASE At(s, {"failing"}) /\ to = "failed"
    <3>1. runs[r].status \in {"running", "success"}
      BY <2>2 DEF StagesTell
    <3>2. QED
      BY <1>3, <2>2, <3>1 DEF RecordAdvances, Becomes
  <2>3. QED
    BY <2>1, <2>2
<1>6. \A q \in Waiting : KeepsItsPlace(q)
  <2>1. runs[r].status # "queued"
    BY <1>2 DEF IInv, ExecutorsHold, Terminal
  <2>2. \A q \in Waiting : runs'[q].status = "queued"
    BY <1>3, <2>1 DEF Waiting, InLine
  <2>3. QED
    BY <2>2, PlacesKept
<1>7. QED
  BY <1>3, <1>4, <1>5, <1>6 DEF Moves

LEMMA RecordMoves ==
    ASSUME PlacesTell, NEW s \in Services, Record(s) PROVE Moves
<1>1. /\ At(s, {"recording"}) /\ UNCHANGED queue
      /\ \A t \in Services \ {s} : exec'[t] = exec[t]
  BY ExecutorWorks DEF PlacesTell, Executing, Record
<1>2. exec[s] \in [at : {"idle", "recording", "failing", "retrying", "requeueing"} \cup Stages,
                   run : Runs \cup {None}, late : BOOLEAN, timedOut : BOOLEAN]
  BY DEF PlacesTell, IInv, TypeOK, ExecType
<1>3. exec \in [Services -> [at : {"idle", "recording", "failing", "retrying", "requeueing"} \cup Stages,
                             run : Runs \cup {None}, late : BOOLEAN, timedOut : BOOLEAN]]
  BY DEF PlacesTell, IInv, TypeOK, ExecType
<1>4. Failing(s, FALSE) => exec'[s].at = "failing" /\ exec'[s].run = exec[s].run
  <2>1. Failing(s, FALSE) =>
          exec'[s] = [exec[s] EXCEPT !.at = "failing", !.late = FALSE, !.timedOut = FALSE]
    BY <1>3 DEF Failing, ExecTo
  <2>2. QED
    BY <1>2, <2>1
<1>5. ExecTo(s, ExecIdle) => exec'[s].at = "idle"
  BY <1>3 DEF ExecTo, ExecIdle
<1>6. CASE SetStatus(exec[s].run, "success")
  <2>1. ExecTo(s, ExecIdle) \/ Failing(s, FALSE)
    BY DEF Record
  <2>2. \/ exec'[s].at = "idle"
        \/ exec'[s].at = "failing" /\ exec'[s].run = exec[s].run
    BY <1>4, <1>5, <2>1
  <2>3. "success" \in Terminal
    BY DEF Terminal
  <2>4. QED
    BY <1>1, <1>6, <2>2, <2>3, OutcomeMoves
<1>7. CASE UNCHANGED runs /\ Failing(s, FALSE)
  <2>1. At(s, Stages \cup {"recording"})
    BY <1>1 DEF At
  <2>2. QED
    BY <1>1, <1>4, <1>7, <2>1, QuietMoves
<1>8. QED
  BY <1>6, <1>7 DEF Record

LEMMA FailMoves ==
    ASSUME PlacesTell, NEW s \in Services, Fail(s) PROVE Moves
<1>1. /\ At(s, {"failing"}) /\ UNCHANGED queue /\ SetStatus(exec[s].run, "failed")
      /\ \A t \in Services \ {s} : exec'[t] = exec[t]
  BY ExecutorWorks DEF PlacesTell, Executing, Fail
<1>2. exec'[s].at \in {"idle", "retrying"}
  <2>1. exec \in [Services -> [at : {"idle", "recording", "failing", "retrying", "requeueing"} \cup Stages,
                               run : Runs \cup {None}, late : BOOLEAN, timedOut : BOOLEAN]]
    BY DEF PlacesTell, IInv, TypeOK, ExecType
  <2>2. \/ exec' = [exec EXCEPT ![s] = ExecIdle]
        \/ exec' = [exec EXCEPT ![s] = [exec[s] EXCEPT !.at = "retrying"]]
    BY DEF Fail, ExecTo
  <2>3. exec'[s] = ExecIdle \/ exec'[s] = [exec[s] EXCEPT !.at = "retrying"]
    BY <2>1, <2>2
  <2>4. [exec[s] EXCEPT !.at = "retrying"].at = "retrying" /\ ExecIdle.at = "idle"
    BY <2>1 DEF ExecIdle
  <2>5. QED
    BY <2>3, <2>4
<1>3. "failed" \in Terminal
  BY DEF Terminal
<1>4. QED
  BY <1>1, <1>2, <1>3, OutcomeMoves

LEMMA RetryMoves ==
    ASSUME PlacesTell, NEW s \in Services, Retry(s) PROVE Moves
<1> DEFINE held == exec[s].run
           a == runs[held].auto
           attempt == runs[held].attempt + 1
<1>1. exec[s].at = "retrying" /\ At(s, {"retrying"})
  BY DEF Retry, At
<1>3. /\ held \in Runs /\ runs[held].status = "failed" /\ runs[held].attempt < Retries
  BY <1>1 DEF PlacesTell, IInv, TypeOK, ExecType, ExecutorsHold
<1>4. a \in Automations /\ attempt \in 0..(Retries + MaxEvents)
  <2>1. runs[held].attempt \in Nat /\ Retries \in Nat /\ MaxEvents \in Nat
    BY <1>3, AutomationAssumption DEF PlacesTell, IInv, TypeOK, RunsType
  <2>2. a \in Automations
    BY <1>3 DEF PlacesTell, IInv, RecordsInUse
  <2>3. QED
    BY <1>3, <2>1, <2>2
<1>5. CASE UNCHANGED <<runs, queue>> /\ ExecTo(s, ExecIdle)
  BY <1>5, LeavingMoves DEF ExecTo
<1>6. CASE /\ \E r \in Runs : Stamp(r, a, "retry", attempt, Backoff, s, "executor")
           /\ ExecTo(s, [ExecIdle EXCEPT !.at = "requeueing"])
  <2> HIDE DEF a, attempt
  <2>1. PICK r \in Runs : Stamp(r, a, "retry", attempt, Backoff, s, "executor")
    BY <1>6
  <2>2. StampStage(s, "executor")
    BY <1>1, <1>6 DEF ExecTo, StampStage
  <2>3. QED
    BY <1>4, <2>1, <2>2, StampMoves, Zenon
<1>7. QED
  BY <1>5, <1>6 DEF Retry

LEMMA InsertRetryMoves ==
    ASSUME PlacesTell, NEW s \in Services, InsertRetry(s) PROVE Moves
<1>1. Insert(s, "executor") /\ UNCHANGED up /\ exec' = [exec EXCEPT ![s] = ExecIdle]
  BY DEF InsertRetry, ExecTo
<1>2. exec'[s].at = "idle" /\ \A t \in Services \ {s} : exec'[t] = exec[t]
  BY <1>1 DEF PlacesTell, IInv, TypeOK, ExecType, ExecIdle
<1>3. ~Tells(s)'
  BY <1>2 DEF Tells, At, Stages
<1>4. QED
  BY <1>1, <1>2, <1>3, InsertMoves

(* Requests and the rest of the environment.                                 *)
LEMMA RequestMoves ==
    ASSUME PlacesTell, NEW s \in Services, NEW a \in Automations,
           NEW trigger \in {"manual", "retry"},
           NEW attempt \in 0..(Retries + MaxEvents), NEW later, UNCHANGED exec,
           \E r \in Runs : Stamp(r, a, trigger, attempt, later, s, "handler")
    PROVE  Moves
<1>1. PICK r \in Runs : Stamp(r, a, trigger, attempt, later, s, "handler")
  OBVIOUS
<1>2. /\ trigger \in {"scheduled", "manual", "retry"} /\ StampStage(s, "handler")
      /\ "handler" \in {"scheduler", "executor", "handler"}
  BY DEF StampStage
<1>3. QED
  BY <1>1, <1>2, StampMoves, Zenon

LEMMA DieMoves ==
    ASSUME PlacesTell, NEW s \in Services, Die(s) PROVE Moves
<1> DEFINE lost == {r \in Runs : runs[r].status = "stamped" /\ runs[r].by = s}
<1>1. /\ exec' = [exec EXCEPT ![s] = ExecIdle] /\ up' = up \ {s} /\ s \in up
      /\ runs' = [r \in Runs |-> IF r \in lost THEN NoRun ELSE runs[r]] /\ Leave(lost)
  BY DEF Die
<1>2. \A r \in Runs : IF r \in lost THEN runs'[r] = NoRun ELSE runs'[r] = runs[r]
  BY <1>1
<1>3. exec'[s].at = "idle" /\ \A t \in Services \ {s} : exec'[t] = exec[t]
  BY <1>1 DEF PlacesTell, IInv, TypeOK, ExecType, ExecIdle
<1>4. StagesTell'
  <2>1. ASSUME NEW t \in Services, Tells(t)'
        PROVE  exec'[t] = exec[t] /\ runs'[exec[t].run] = runs[exec[t].run]
    <3>1. exec'[t] = exec[t] /\ Tells(t)
      BY <1>3, <2>1 DEF Tells, At, Stages
    <3>2. /\ exec[t].run \in Runs
          /\ runs[exec[t].run].status \in {"running"} \cup Terminal
      BY <3>1, TellingRun DEF PlacesTell, IInv, ExecutorsHold
    <3>3. exec[t].run \notin lost
      BY <3>2 DEF Terminal
    <3>4. QED
      BY <1>2, <3>1, <3>2, <3>3
  <2>2. QED
    BY <2>1, TellsKept DEF PlacesTell
<1>5. \A r \in Runs : runs'[r] # runs[r] => RecordAdvances(r)
  <2>1. ASSUME NEW r \in lost PROVE Lost(r) /\ runs[r].by \in up \ up'
    BY <1>1, <1>2 DEF Lost
  <2>2. QED
    BY <1>2, <2>1 DEF RecordAdvances
<1>6. \A q \in Waiting : KeepsItsPlace(q)
  <2>1. \A q \in InLine \ lost : q \in Runs /\ runs'[q].status \in InLineStatus
    BY <1>2 DEF PlacesTell, IInv, TypeOK, QueueType, InLine, InLineStatus
  <2>2. \A q \in InLine \ lost : q \in InLine' /\ queue'[q] = queue[q] \ lost
    BY <1>1, <2>1, LeaveFacts DEF PlacesTell, IInv, TypeOK
  <2>3. \A q \in Waiting : q \in InLine \ lost /\ runs'[q].status = "queued"
    BY <1>2 DEF Waiting, InLine
  <2>4. QED
    BY <2>2, <2>3, PlacesKept DEF PlacesTell
<1>7. QED
  BY <1>4, <1>5, <1>6 DEF Moves

LEMMA EnvironmentMoves ==
    ASSUME PlacesTell, Environment PROVE Moves
<1>1. ASSUME UNCHANGED <<runs, queue, exec>> PROVE Moves
  BY <1>1, QuietMoves
<1>2. ASSUME NEW s \in Services, NEW a \in Automations, RunNow(s, a) PROVE Moves
  <2>1. 0 \in 0..(Retries + MaxEvents) /\ "manual" \in {"manual", "retry"}
    BY AutomationAssumption
  <2>2. UNCHANGED exec /\ \E r \in Runs : Stamp(r, a, "manual", 0, FALSE, s, "handler")
    BY <1>2 DEF RunNow
  <2>3. QED
    BY <2>1, <2>2, RequestMoves, Zenon
<1>3. ASSUME NEW s \in Services, NEW r \in Runs, RetryRequest(s, r) PROVE Moves
  <2> DEFINE a == runs[r].auto
             attempt == runs[r].attempt + 1
  <2>1. /\ UNCHANGED exec /\ Interference /\ runs[r].status # "none"
        /\ \E q \in Runs : Stamp(q, a, "retry", attempt, Backoff, s, "handler")
    BY <1>3 DEF RetryRequest
  <2>2. a \in Automations /\ attempt \in 0..(Retries + MaxEvents)
    <3>1. events \in Nat /\ events + 1 <= MaxEvents /\ MaxEvents \in Nat /\ Retries \in Nat
      BY <2>1, AutomationAssumption DEF PlacesTell, IInv, TypeOK, Interference
    <3>2. runs[r].attempt \in Nat /\ runs[r].attempt <= Retries + events /\ a \in Automations
      BY <2>1, AutomationAssumption DEF PlacesTell, IInv, TypeOK, RunsType, RecordsInUse
    <3>3. QED
      BY <3>1, <3>2
  <2> HIDE DEF a, attempt
  <2>3. "retry" \in {"manual", "retry"}
    OBVIOUS
  <2>4. QED
    BY <2>1, <2>2, <2>3, RequestMoves, Zenon
<1>4. ASSUME NEW r \in Runs, BackoffOver(r) PROVE Moves
  <2>1. /\ UNCHANGED <<runs, exec>> /\ Joins(r) /\ r \notin InLine
        /\ runs[r].status \in InLineStatus
    BY <1>4 DEF BackoffOver, InLineStatus
  <2>2. StagesTell'
    BY <2>1 DEF PlacesTell, StagesTell, At
  <2>3. \A q \in InLine : runs'[q].status \in InLineStatus
    BY <2>1 DEF PlacesTell, IInv, TypeOK, QueueType, InLineStatus
  <2>4. \A q \in InLine : q \in InLine' /\ queue'[q] = queue[q]
    BY <2>1, <2>3, JoinsFacts DEF PlacesTell, IInv, TypeOK
  <2>5. \A q \in Waiting : KeepsItsPlace(q)
    <3>1. \A q \in Waiting : /\ runs'[q].status = "queued"
                             /\ q \in InLine' /\ queue'[q] \subseteq queue[q]
      BY <2>1, <2>4 DEF Waiting
    <3>2. QED
      BY <3>1, PlacesKept DEF PlacesTell
  <2>6. QED
    BY <2>1, <2>2, <2>5 DEF Moves
<1>5. ASSUME NEW s \in Services, InsertRequested(s) PROVE Moves
  BY <1>5, InsertMoves DEF InsertRequested
<1>6. QED
  BY <1>1, <1>2, <1>3, <1>4, <1>5, DieMoves
  DEF Environment, Upsert, FileChanges, BecomesDue, Start, tables

LEMMA SchedulingMoves ==
    ASSUME PlacesTell, NEW s \in Services, Scheduling(s) PROVE Moves
<1>1. ASSUME UNCHANGED <<runs, queue, exec>> PROVE Moves
  BY <1>1, QuietMoves
<1>2. CASE CreateScheduled(s)
  <2> DEFINE a == sched[s].auto
  <2>1. /\ UNCHANGED exec
        /\ \/ \E r \in Runs : Stamp(r, a, "scheduled", 0, FALSE, s, "scheduler")
           \/ UNCHANGED <<runs, queue>>
    BY <1>2 DEF CreateScheduled
  <2>2. /\ a \in Automations /\ 0 \in 0..(Retries + MaxEvents) /\ StampStage(s, "scheduler")
        /\ "scheduler" \in {"scheduler", "executor", "handler"}
        /\ "scheduled" \in {"scheduled", "manual", "retry"}
    BY <1>2, <2>1, AutomationAssumption
    DEF PlacesTell, IInv, SchedulersKnow, CreateScheduled, StampStage
  <2> HIDE DEF a
  <2>3. ASSUME NEW r \in Runs, Stamp(r, a, "scheduled", 0, FALSE, s, "scheduler") PROVE Moves
    BY <2>1, <2>2, <2>3, StampMoves, Zenon
  <2>4. QED
    BY <1>1, <2>1, <2>3
<1>3. CASE InsertScheduled(s)
  BY <1>3, InsertMoves DEF InsertScheduled
<1>4. QED
  BY <1>1, <1>2, <1>3
  DEF Scheduling, ListDue, CheckPending, ReadForNext, WriteNext, tables

LEMMA ExecutingMoves ==
    ASSUME PlacesTell, NEW s \in Services, Executing(s) PROVE Moves
<1>1. CASE GiveUp(s)
  BY <1>1, LeavingMoves DEF GiveUp, ExecTo, tables
<1>2. QED
  BY <1>1, ClaimMoves, StageMoves, RecordMoves, FailMoves, RetryMoves, InsertRetryMoves
  DEF Executing

LEMMA NextMoves ==
    ASSUME PlacesTell, [Next]_vars PROVE Moves
<1>1. CASE UNCHANGED vars
  BY <1>1, QuietMoves DEF vars
<1>2. QED
  BY <1>1, EnvironmentMoves, SchedulingMoves, ExecutingMoves DEF Next

LEMMA NextListsTell ==
    ASSUME PlacesTell, [Next]_vars PROVE ListsTell'
<1>1. CASE UNCHANGED sched
  BY <1>1 DEF PlacesTell, ListsTell
<1>2. ASSUME NEW s \in Services, Scheduling(s) PROVE ListsTell'
  BY <1>2, SchedulerWorks DEF PlacesTell, ListsTell
<1>3. ASSUME NEW s \in Services, Die(s) PROVE ListsTell'
  <2>1. sched'[s] = SchedIdle /\ \A t \in Services \ {s} : sched'[t] = sched[t]
    BY <1>3 DEF Die, PlacesTell, IInv, TypeOK, SchedType
  <2>2. QED
    BY <2>1 DEF PlacesTell, ListsTell, SchedIdle
<1>4. ASSUME NEW s \in Services, Executing(s) PROVE ListsTell'
  BY <1>1, <1>4, ExecutorWorks DEF PlacesTell
<1>5. Environment => UNCHANGED sched \/ \E s \in Services : Die(s)
  BY DEF Environment, Upsert, RunNow, FileChanges, BecomesDue, RetryRequest,
     InsertRequested, BackoffOver, Start
<1>6. QED
  BY <1>1, <1>2, <1>3, <1>4, <1>5 DEF Next, vars

(* Every place tells what it does, in every state. *)
LEMMA PlacesAlwaysTell == Spec => []PlacesTell
<1>1. Init => StagesTell /\ ListsTell
  BY DEF Init, StagesTell, ListsTell, At, Stages, ExecIdle, SchedIdle
<1>2. PlacesTell /\ [Next]_vars => StagesTell' /\ ListsTell'
  BY NextMoves, NextListsTell DEF Moves
<1>3. IInv /\ StagesTell /\ ListsTell <=> PlacesTell
  BY DEF PlacesTell
<1>4. PlacesTell /\ IInv' /\ [Next]_vars => PlacesTell'
  BY <1>2 DEF PlacesTell
<1>5. Init /\ IInv => PlacesTell
  BY <1>1 DEF PlacesTell
<1>6. QED
  BY <1>4, <1>5, Invariance, PTL DEF Spec

(* complete_run, claim_next_run and create_run, of however many services: an *)
(* outcome that a run has got is never lost.  It is replaced by one          *)
(* executor only, the one that has recorded a success and been told that it  *)
(* failed to; a record is used again only when nobody looks at it any more.  *)
THEOREM OutcomesStand == Spec => RecordsAdvance
<1>1. PlacesTell /\ [Next]_vars
        => [\A r \in Runs : runs'[r] # runs[r] => RecordAdvances(r)]_vars
  BY NextMoves DEF Moves
<1>2. QED
  BY <1>1, PlacesAlwaysTell, PTL DEF Spec, RecordsAdvance

(* claim_next_run takes the oldest of the rows that are due: a run that      *)
(* waits is overtaken by none that looked at the clock after it, whatever    *)
(* the order of the insertions, and each claim brings it nearer to its own.  *)
THEOREM NobodyIsOvertaken == Spec => QueueMovesOn
<1>1. PlacesTell /\ [Next]_vars => [\A r \in Waiting : KeepsItsPlace(r)]_vars
  BY NextMoves DEF Moves
<1>2. QED
  BY <1>1, PlacesAlwaysTell, PTL DEF Spec, QueueMovesOn

LEMMA NextShortens ==
    ASSUME PlacesTell, [Next]_vars PROVE ThreadsShorten
<1> SUFFICES ASSUME NEW s \in Services
             PROVE  /\ IF Executing(s) THEN Claim(s) \/ ExecLeft(exec'[s]) < ExecLeft(exec[s])
                                       ELSE Die(s) \/ exec'[s] = exec[s]
                    /\ IF Scheduling(s)
                       THEN ListDue(s) \/ SchedLeft(sched'[s]) < SchedLeft(sched[s])
                       ELSE Die(s) \/ sched'[s] = sched[s]
  BY DEF ThreadsShorten
<1>1. Executing(s) => Claim(s) \/ ExecLeft(exec'[s]) < ExecLeft(exec[s])
  BY ExecutorWorks DEF PlacesTell
<1>2. Scheduling(s) => ListDue(s) \/ SchedLeft(sched'[s]) < SchedLeft(sched[s])
  BY SchedulerWorks DEF PlacesTell
<1>3. ASSUME ~Executing(s) PROVE Die(s) \/ exec'[s] = exec[s]
  <2>1. ASSUME NEW t \in Services, Executing(t) \/ Scheduling(t) PROVE exec'[s] = exec[s]
    BY <1>3, <2>1, ExecutorWorks, SchedulerWorks DEF PlacesTell
  <2>2. ASSUME NEW t \in Services, Die(t) PROVE Die(s) \/ exec'[s] = exec[s]
    BY <2>2 DEF Die, PlacesTell, IInv, TypeOK, ExecType
  <2>3. Environment => UNCHANGED exec \/ \E t \in Services : Die(t)
    BY DEF Environment, Upsert, RunNow, FileChanges, BecomesDue, RetryRequest,
     InsertRequested, BackoffOver, Start
  <2>4. QED
    BY <2>1, <2>2, <2>3 DEF Next, vars
<1>4. ASSUME ~Scheduling(s) PROVE Die(s) \/ sched'[s] = sched[s]
  <2>1. ASSUME NEW t \in Services, Executing(t) \/ Scheduling(t) PROVE sched'[s] = sched[s]
    BY <1>4, <2>1, ExecutorWorks, SchedulerWorks DEF PlacesTell
  <2>2. ASSUME NEW t \in Services, Die(t) PROVE Die(s) \/ sched'[s] = sched[s]
    BY <2>2 DEF Die, PlacesTell, IInv, TypeOK, SchedType
  <2>3. Environment => UNCHANGED sched \/ \E t \in Services : Die(t)
    BY DEF Environment, Upsert, RunNow, FileChanges, BecomesDue, RetryRequest,
     InsertRequested, BackoffOver, Start
  <2>4. QED
    BY <2>1, <2>2, <2>3 DEF Next, vars
<1>5. QED
  BY <1>1, <1>2, <1>3, <1>4

(* _execute_run and enqueue_due_runs come to an end: each step of an         *)
(* executor or a scheduler shortens what it has left, whatever other threads,*)
(* requests and the file system do meanwhile.                                *)
THEOREM RunsWindDown == Spec => ThreadsWindDown
<1>1. PlacesTell /\ [Next]_vars => [ThreadsShorten]_vars
  BY NextShortens
<1>2. QED
  BY <1>1, PlacesAlwaysTell, PTL DEF Spec, ThreadsWindDown

(* An executor is done with a run after twelve steps of its own at the       *)
(* latest, and a scheduler with a turn of its loop after five for each       *)
(* automation.                                                               *)
WorkIsBounded ==
    \A s \in Services : /\ ExecLeft(exec[s]) \in 0..12
                        /\ SchedLeft(sched[s]) \in 0..(5 * Cardinality(Automations))

THEOREM RunsAreShort == Spec => []WorkIsBounded
<1>1. PlacesTell => WorkIsBounded
  <2> SUFFICES ASSUME PlacesTell, NEW s \in Services
               PROVE  /\ ExecLeft(exec[s]) \in 0..12
                      /\ SchedLeft(sched[s]) \in 0..(5 * Cardinality(Automations))
    BY DEF WorkIsBounded
  <2> DEFINE k == sched[s]
             n == Cardinality(k.todo)
  <2>1. ExecLeft(exec[s]) \in 0..12
    BY ExecLeftOf DEF PlacesTell
  <2>2. n \in Nat /\ n <= Cardinality(Automations) /\ Cardinality(Automations) \in Nat
    BY TodoIsFinite DEF PlacesTell
  <2>3. k.at \in {"create", "insert", "advance", "write"} => n >= 1
    <3> SUFFICES ASSUME k.at \in {"create", "insert", "advance", "write"} PROVE n >= 1
      OBVIOUS
    <3>1. k.auto \in k.todo
      BY DEF PlacesTell, ListsTell
    <3>2. n # 0
      BY <3>1, TodoIsFinite, FS_EmptySet DEF PlacesTell
    <3>3. QED
      BY <2>2, <3>2
  <2>4. k.at \in {"idle", "check", "create", "insert", "advance", "write"}
    BY DEF PlacesTell, IInv, TypeOK, SchedType
  <2>5. SchedLeft(k) \in {0, 5 * n} \cup
           (IF n >= 1 THEN {5 * n - 1, 5 * n - 2, 5 * n - 3, 5 * n - 4} ELSE {})
    BY <2>3, <2>4, SchedLeftAt
  <2>6. SchedLeft(k) \in 0..(5 * Cardinality(Automations))
    BY <2>2, <2>5
  <2>7. QED
    BY <2>1, <2>6
<1>2. QED
  BY <1>1, PlacesAlwaysTell, PTL

-----------------------------------------------------------------------------
(* The moments of a schedule.  AutomationRuns leaves open when an automation *)
(* becomes due; here the arithmetic of Schedule is right for days of any     *)
(* length, any time of the day or of the week and any zone.                  *)

(* a is q times d and r more. *)
Divided(a, d, q, r) ==
    /\ a \in Int /\ d \in Nat \ {0} /\ q \in Int /\ r \in 0..(d - 1)
    /\ a = q * d + r

(* ... as the quotient and the rest of a division say, *)
LEMMA Division ==
    ASSUME NEW a \in Int, NEW d \in Nat \ {0}
    PROVE  Divided(a, d, a \div d, a % d)
BY DEF Divided

(* ... and they alone; *)
LEMMA DivisionUnique ==
    ASSUME NEW a, NEW d, NEW q, NEW r, Divided(a, d, q, r)
    PROVE  a \div d = q /\ a % d = r
BY DEF Divided

(* one more d, one more in the quotient. *)
LEMMA NextMultiple ==
    ASSUME NEW a, NEW d, NEW q, NEW r, Divided(a, d, q, r)
    PROVE  Divided(a + d, d, q + 1, r)
<1>1. (q + 1) * d = q * d + d /\ q * d \in Int
  BY DEF Divided
<1>2. QED
  BY <1>1 DEF Divided

(* After how long a schedule repeats. *)
Period(s) == IF s.kind = "daily" THEN TicksPerDay ELSE Week

(* c is the first time of the wall after t that s names.  It keeps the fold  *)
(* of t only if no days were added to get there.                             *)
Follows(s, t, c) ==
    /\ c.wall \in Int /\ c.wall > t.wall /\ c.wall <= t.wall + Period(s)
    /\ Names(s, c.wall)
    /\ c.fold = IF s.kind = "weekly" \/ c.wall \div TicksPerDay # t.wall \div TicksPerDay
                THEN 0 ELSE t.fold

(* Two numbers with one rest are d apart at least. *)
LEMMA Congruent ==
    ASSUME NEW d \in Nat \ {0}, NEW x \in Int, NEW y \in Int, x % d = y % d, x < y
    PROVE  x <= y - d
<1> DEFINE k == (x \div d) - (y \div d)
<1>1. k \in Int /\ x - y = k * d
  BY Division DEF Divided
<1>2. k < 0
  <2>1. k >= 0 => k * d >= 0
    BY <1>1
  <2>2. QED
    BY <1>1, <2>1
<1>3. k * d <= -d
  BY <1>1, <1>2
<1>4. QED
  BY <1>1, <1>3

LEMMA PeriodType ==
    ASSUME NEW s
    PROVE  TicksPerDay \in Nat \ {0} /\ Week \in Nat \ {0} /\ Period(s) \in Nat \ {0}
           /\ Period(s) >= TicksPerDay /\ Period(s) <= Week /\ Week = 7 * TicksPerDay
BY ScheduleAssumption DEF Period, Week

(* After t, nothing is named but c and what comes a day later or more. *)
LEMMA NamedLater ==
    ASSUME NEW s \in Schedules, NEW t, t.wall \in Int, NEW c, Follows(s, t, c),
           NEW w \in Int, Names(s, w), w > t.wall
    PROVE  w = c.wall \/ w >= c.wall + TicksPerDay
<1>1. w % Period(s) = c.wall % Period(s) /\ c.wall \in Int
  BY DEF Names, Follows, Period
<1>2. w < c.wall => w <= c.wall - Period(s)
  BY <1>1, PeriodType, Congruent
<1>3. c.wall < w => c.wall <= w - Period(s)
  BY <1>1, PeriodType, Congruent
<1>4. QED
  BY <1>1, <1>2, <1>3, PeriodType DEF Follows


(* Local by cases. *)
LEMMA LocalType ==
    ASSUME NEW z, IsZone(z), NEW i \in Int
    PROVE  /\ Local(z, i).wall \in Int /\ Local(z, i).fold \in {0, 1}
           /\ i < z.change => Local(z, i).wall = i + z.before /\ Local(z, i).fold = 0
           /\ i >= z.change =>
                 /\ Local(z, i).wall = i + z.after
                 /\ Local(z, i).fold = IF i + z.after < z.change + z.before THEN 1 ELSE 0
BY DEF IsZone, Local

(* NextDaily and NextWeekly before they go back to an instant. *)
DailyTime(t, tick) ==
    LET candidate == SetTime(t, tick)
    IN  IF candidate.wall <= t.wall THEN PlusDays(candidate, 1) ELSE candidate

WeeklyTime(t, day, tick) ==
    LET candidate == PlusDays(SetTime(t, tick), (day - Weekday(t)) % 7)
    IN  IF candidate.wall <= t.wall THEN PlusDays(candidate, 7) ELSE candidate



(* The time `tick' of the day q of the wall. *)
LEMMA DailyCandidate ==
    ASSUME NEW wall, NEW d, NEW q, NEW r, Divided(wall, d, q, r), NEW tick \in 0..(d - 1)
    PROVE  LET c == q * d + tick
           IN  Divided(c, d, q, tick) /\ c > wall - d /\ c < wall + d
BY DEF Divided

(* A daily schedule computes the time that follows. *)
LEMMA DailyFollows ==
    ASSUME NEW s \in Schedules, s.kind = "daily", NEW wall \in Int, NEW fold \in {0, 1}
    PROVE  Follows(s, [wall |-> wall, fold |-> fold],
                   DailyTime([wall |-> wall, fold |-> fold], s.at))
<1> DEFINE t == [wall |-> wall, fold |-> fold]
           d == TicksPerDay
           q == wall \div d
           c == q * d + s.at
<1>1. s.at \in 0..(d - 1) /\ d \in Nat \ {0}
  BY PeriodType DEF Schedules
<1>2. Divided(wall, d, q, wall % d)
  BY <1>1, Division
<1>3. Divided(c, d, q, s.at) /\ c > wall - d /\ c < wall + d
  BY <1>1, <1>2, DailyCandidate
<1>4. c \div d = q /\ c % d = s.at /\ (c + d) \div d = q + 1 /\ (c + d) % d = s.at
  <2> HIDE DEF c, d, q
  <2>1. Divided(c + d, d, q + 1, s.at)
    BY <1>3, NextMultiple
  <2>2. QED
    BY <1>3, <2>1, DivisionUnique
<1>5. DailyTime(t, s.at) = IF c <= wall THEN [wall |-> c + d, fold |-> 0] ELSE [wall |-> c, fold |-> fold]
  <2>1. SetTime(t, s.at) = [wall |-> c, fold |-> fold]
    BY DEF SetTime
  <2>2. PlusDays([wall |-> c, fold |-> fold], 1) = [wall |-> c + d, fold |-> 0]
    BY <1>1 DEF PlusDays
  <2>3. QED
    BY <2>1, <2>2 DEF DailyTime
<1> HIDE DEF q, c, d
<1>6. d = TicksPerDay /\ q = wall \div TicksPerDay /\ c \in Int /\ d \in Nat /\ q \in Int
  BY <1>3 DEF d, q, Divided
<1>7. CASE c <= wall
  BY <1>3, <1>4, <1>5, <1>6, <1>7 DEF Follows, Names, Period
<1>8. CASE ~(c <= wall)
  BY <1>3, <1>4, <1>5, <1>6, <1>8 DEF Follows, Names, Period
<1>9. QED
  BY <1>6, <1>7, <1>8

(* The day of the week of a time of the week. *)
LEMMA DayOfWeek ==
    ASSUME NEW a, NEW d, NEW q, NEW r, Divided(a, d, q, r), a >= 0, a < 7 * d
    PROVE  q \in 0..6
<1>1. q \in Int /\ d \in Nat \ {0} /\ r \in 0..(d - 1) /\ a = q * d + r
  BY DEF Divided
<1>2. q < 0 => q * d <= -d
  BY <1>1
<1>3. q > 6 => q * d >= 7 * d
  BY <1>1
<1>4. q * d \in Int /\ a \in Int
  BY <1>1
<1>5. QED
  BY <1>1, <1>2, <1>3, <1>4

(* (day - weekday) % 7 days on, it is the day asked for. *)
LEMMA DaysAhead ==
    ASSUME NEW q \in Int, NEW day \in 0..6
    PROVE  /\ (day - (q % 7)) % 7 \in 0..6
           /\ \E m \in Int : q + ((day - (q % 7)) % 7) = m * 7 + day
<1> DEFINE k == (day - (q % 7)) % 7
           m == (q \div 7) + (IF day < q % 7 THEN 1 ELSE 0)
<1>1. q % 7 \in 0..6 /\ q \div 7 \in Int /\ q = 7 * (q \div 7) + (q % 7)
  OBVIOUS
<1>2. k = IF day < q % 7 THEN day - (q % 7) + 7 ELSE day - (q % 7)
  BY <1>1
<1>3. k \in 0..6 /\ q + k = m * 7 + day /\ m \in Int
  BY <1>1, <1>2
<1>4. QED
  BY <1>3

(* The time of the week `at' that is k days on: less than a week away. *)
LEMMA WeeklyCandidate ==
    ASSUME NEW wall, NEW d, NEW q, NEW r, Divided(wall, d, q, r), 
           NEW at, NEW day \in 0..6, NEW tick, Divided(at, d, day, tick),
           NEW k \in 0..6, NEW m \in Int, q + k = m * 7 + day
    PROVE  LET c == (q * d + tick) + k * d
           IN  Divided(c, 7 * d, m, at) /\ c > wall - 7 * d /\ c <= wall + 7 * d
<1>1. /\ wall \in Int /\ d \in Nat \ {0} /\ q \in Int /\ r \in 0..(d - 1)
      /\ wall = q * d + r /\ tick \in 0..(d - 1) /\ at = day * d + tick
  BY DEF Divided
<1>2. /\ k * d \in 0..(6 * d) /\ day * d \in 0..(6 * d) /\ q * d \in Int /\ m * (7 * d) \in Int
  BY <1>1
<1>3. q * d + k * d = m * (7 * d) + day * d
  <2>1. q * d + k * d = (q + k) * d
    BY <1>1
  <2>2. (m * 7 + day) * d = m * (7 * d) + day * d
    BY <1>1
  <2>3. QED
    BY <2>1, <2>2
<1>4. at \in 0..(7 * d - 1) /\ 7 * d \in Nat \ {0}
  BY <1>1, <1>2
<1>5. QED
  BY <1>1, <1>2, <1>3, <1>4 DEF Divided

(* A weekly schedule computes the time that follows. *)
LEMMA WeeklyFollows ==
    ASSUME NEW s \in Schedules, s.kind = "weekly", NEW wall \in Int, NEW fold \in {0, 1}
    PROVE  Follows(s, [wall |-> wall, fold |-> fold],
                   WeeklyTime([wall |-> wall, fold |-> fold], s.at \div TicksPerDay, s.at % TicksPerDay))
<1> DEFINE t == [wall |-> wall, fold |-> fold]
           d == TicksPerDay
           q == wall \div d
           day == s.at \div d
           tick == s.at % d
           k == (day - (q % 7)) % 7
           c == (q * d + tick) + k * d
<1>1. s.at \in Int /\ s.at \in 0..(7 * d - 1) /\ d \in Nat \ {0} /\ Week = 7 * d /\ Week \in Nat \ {0}
  BY PeriodType DEF Schedules
<1>2. Divided(wall, d, q, wall % d) /\ Divided(s.at, d, day, tick)
  BY <1>1, Division
<1>3. day \in 0..6 /\ q \in Int
  BY <1>1, <1>2, DayOfWeek DEF Divided
<1>4. PICK m \in Int : q + k = m * 7 + day /\ k \in 0..6
  BY <1>3, DaysAhead
<1>5. Divided(c, Week, m, s.at) /\ c > wall - Week /\ c <= wall + Week
  BY <1>1, <1>2, <1>3, <1>4, WeeklyCandidate
<1>6. c % Week = s.at /\ (c + Week) % Week = s.at
  <2> HIDE DEF c
  <2>1. Divided(c + Week, Week, m + 1, s.at)
    BY <1>5, NextMultiple
  <2>2. QED
    BY <1>5, <2>1, DivisionUnique
<1>7. WeeklyTime(t, day, tick) = [wall |-> IF c <= wall THEN c + Week ELSE c, fold |-> 0]
  <2>1. SetTime(t, tick) = [wall |-> q * d + tick, fold |-> fold] /\ Weekday(t) = q % 7
    BY DEF SetTime, Weekday
  <2>2. PlusDays([wall |-> q * d + tick, fold |-> fold], k) = [wall |-> c, fold |-> 0]
    BY DEF PlusDays
  <2>3. PlusDays([wall |-> c, fold |-> 0], 7) = [wall |-> c + Week, fold |-> 0]
    BY DEF PlusDays, Week
  <2>4. k = (day - (q % 7)) % 7
    OBVIOUS
  <2> HIDE DEF q, c, d, k, day, tick
  <2>5. QED
    BY <2>1, <2>2, <2>3, <2>4 DEF WeeklyTime
<1> HIDE DEF q, c, d, k, day, tick
<1>8. c \in Int /\ Week \in Int
  BY <1>1, <1>5 DEF Divided
<1>9. QED
  BY <1>5, <1>6, <1>7, <1>8 DEF Follows, Names, Period, d, day, tick

(* Either way the next run is the instant of a time of the wall that follows *)
(* the present one.                                                          *)
LEMMA NextRunFollows ==
    ASSUME NEW z, IsZone(z), NEW s \in Schedules, s.kind # "interval", NEW now \in Int
    PROVE  \E c : Follows(s, Local(z, now), c) /\ NextRunAt(z, s, now) = Utc(z, c)
<1>1. PICK wall \in Int, fold \in {0, 1} : Local(z, now) = [wall |-> wall, fold |-> fold]
  BY DEF Local, IsZone
<1>2. s.kind \in {"daily", "weekly"}
  BY DEF Schedules
<1>3. CASE s.kind = "daily"
  <2>1. NextRunAt(z, s, now) = Utc(z, DailyTime(Local(z, now), s.at))
    BY <1>3 DEF NextRunAt, NextDaily, DailyTime
  <2>2. QED
    BY <1>1, <1>3, <2>1, DailyFollows
<1>4. CASE s.kind = "weekly"
  <2>1. NextRunAt(z, s, now) =
          Utc(z, WeeklyTime(Local(z, now), s.at \div TicksPerDay, s.at % TicksPerDay))
    BY <1>4 DEF NextRunAt, NextWeekly, WeeklyTime
  <2>2. QED
    BY <1>1, <1>4, <2>1, WeeklyFollows
<1>5. QED
  BY <1>2, <1>3, <1>4

(* Utc by cases: before the change, after it, and where the wall shows a time *)
(* twice or never.                                                           *)
LEMMA UtcCases ==
    ASSUME NEW z, IsZone(z), NEW c, c.wall \in Int
    PROVE  /\ c.wall < z.change + z.before /\ c.wall < z.change + z.after
                => Utc(z, c) = c.wall - z.before
           /\ c.wall >= z.change + z.before /\ c.wall >= z.change + z.after
                => Utc(z, c) = c.wall - z.after
           /\ ~(c.wall < z.change + z.before /\ c.wall < z.change + z.after)
              /\ ~(c.wall >= z.change + z.before /\ c.wall >= z.change + z.after)
                => Utc(z, c) = c.wall - (IF c.fold = 0 THEN z.before ELSE z.after)
BY DEF IsZone, Utc, Earlier, Later

(* What the proof below uses of a moment and the time that follows it. *)
Setting(z, s, now, c) ==
    /\ IsZone(z) /\ s \in Schedules /\ s.kind # "interval"
    /\ now \in 0..(Horizon - Week - TicksPerDay)
    /\ Follows(s, Local(z, now), c)

(* What is read as the first pass is past. *)
LEMMA FirstPass ==
    ASSUME NEW z, NEW s, NEW now, NEW c, Setting(z, s, now, c), ReadAsFirstPass(z, s, now)
    PROVE  Utc(z, c) <= now
<1> DEFINE t == Local(z, now)
<1>1. PICK i \in SecondPasses(z, s) :
        i > now /\ (s.kind = "weekly" \/ Local(z, i).wall \div TicksPerDay # t.wall \div TicksPerDay)
  BY DEF ReadAsFirstPass
<1>2. i \in Int /\ Names(s, Local(z, i).wall) /\ Local(z, i).fold = 1 /\ t.fold = 1
  BY DEF SecondPasses, Shown, Instants, ReadAsFirstPass
<1>3. now \in Int /\ IsZone(z) /\ s \in Schedules /\ Follows(s, t, c)
  BY DEF Setting
<1>4. now >= z.change /\ t.wall = now + z.after /\ t.wall \in Int
  BY <1>2, <1>3, LocalType DEF IsZone
<1>5. i >= z.change /\ Local(z, i).wall = i + z.after /\ i + z.after < z.change + z.before
  BY <1>2, <1>3, LocalType DEF IsZone
<1>6. i + z.after = c.wall \/ i + z.after >= c.wall + TicksPerDay
  BY <1>1, <1>2, <1>3, <1>4, <1>5, NamedLater DEF IsZone
<1>7. c.wall \in Int /\ c.wall > t.wall
  BY <1>3 DEF Follows
<1>8. i + z.after = c.wall
  <2>1. /\ z.change \in Int /\ z.before \in Int /\ z.after \in Int
        /\ z.before - z.after <= TicksPerDay /\ TicksPerDay \in Int
    BY <1>3, ScheduleAssumption DEF IsZone
  <2> HIDE DEF t
  <2>2. QED
    BY <1>2, <1>3, <1>4, <1>5, <1>6, <1>7, <2>1
<1>9. c.fold = 0
  BY <1>1, <1>3, <1>5, <1>8 DEF Follows
<1>10. Utc(z, c) = c.wall - z.before
  BY <1>3, <1>4, <1>5, <1>7, <1>8, <1>9, UtcCases DEF IsZone
<1>11. QED
  BY <1>2, <1>3, <1>4, <1>5, <1>8, <1>10 DEF IsZone


(* Setting, in numbers. *)
LEMMA SettingType ==
    ASSUME NEW z, NEW s, NEW now, NEW c, Setting(z, s, now, c)
    PROVE  /\ z.change \in Int /\ z.before \in Int /\ z.after \in Int
           /\ z.before - z.after <= TicksPerDay /\ z.after - z.before <= TicksPerDay
           /\ TicksPerDay \in Nat \ {0} /\ Week \in Nat /\ Horizon \in Nat
           /\ now \in Nat /\ now <= Horizon - Week - TicksPerDay
           /\ Local(z, now).wall \in Int
           /\ c.wall \in Int /\ c.wall > Local(z, now).wall
           /\ c.wall <= Local(z, now).wall + Week
           /\ Names(s, c.wall)
<1>1. IsZone(z) /\ Follows(s, Local(z, now), c) /\ Week \in Nat /\ Horizon \in Nat
      /\ TicksPerDay \in Nat \ {0} /\ Period(s) <= Week /\ Period(s) \in Int
  BY PeriodType, ScheduleAssumption DEF Setting
<1>2. now \in Nat /\ now <= Horizon - Week - TicksPerDay
  BY <1>1 DEF Setting
<1>3. Local(z, now).wall \in Int
  BY <1>1, <1>2, LocalType
<1>4. QED
  BY <1>1, <1>2, <1>3 DEF Follows, IsZone

(* Where the next run falls, if it is not read as the first pass. *)
LEMMA WhereNext ==
    ASSUME NEW z, NEW s, NEW now, NEW c, Setting(z, s, now, c), ~ReadAsFirstPass(z, s, now)
    PROVE  LET next == Utc(z, c)
           IN  \/ now < z.change /\ next = c.wall - z.before /\ next < z.change
               \/ now < z.change /\ next = c.wall - z.after /\ next >= z.change
                    /\ c.wall >= z.change + z.before
               \/ now < z.change /\ next = c.wall - z.before /\ next >= z.change
                    /\ c.wall < z.change + z.after
               \/ now >= z.change /\ next = c.wall - z.after
<1> DEFINE t == Local(z, now)
<1> USE SettingType
<1>1. CASE now < z.change
  <2>1. t.fold = 0
    BY <1>1, LocalType DEF Setting
  <2>2. c.fold = 0
    BY <2>1 DEF Setting, Follows
  <2>3. QED
    BY <1>1, <2>2, UtcCases DEF Setting
<1>2. CASE now >= z.change
  <2>1. t.wall = now + z.after /\ t.fold = IF now + z.after < z.change + z.before THEN 1 ELSE 0
    BY <1>2, LocalType DEF Setting
  <2>2. CASE c.wall >= z.change + z.before
    BY <1>2, <2>1, <2>2, UtcCases DEF Setting
  <2>3. CASE c.wall < z.change + z.before
    <3> DEFINE i == c.wall - z.after
    <3>1. i \in Int /\ i > now /\ i >= z.change /\ i \in Instants
      BY <1>2, <2>1 DEF Instants
    <3>2. Local(z, i).wall = c.wall /\ Local(z, i).fold = 1
      BY <2>3, <3>1, LocalType DEF Setting
    <3>3. i \in SecondPasses(z, s)
      BY <3>1, <3>2 DEF SecondPasses, Shown
    <3>4. t.fold = 1
      BY <1>2, <2>1, <2>3
    <3>5. ~(s.kind = "weekly" \/ c.wall \div TicksPerDay # t.wall \div TicksPerDay)
      BY <3>1, <3>2, <3>3, <3>4 DEF ReadAsFirstPass
    <3>6. c.fold = 1
      BY <3>4, <3>5 DEF Setting, Follows
    <3>7. QED
      BY <1>2, <2>1, <2>3, <3>6, UtcCases DEF Setting
  <2>4. QED
    BY <2>2, <2>3
<1>3. QED
  BY <1>1, <1>2

(* It is ahead, and shown or made up for. *)
LEMMA NextIsOccurrence ==
    ASSUME NEW z, NEW s, NEW now, NEW c, Setting(z, s, now, c), ~ReadAsFirstPass(z, s, now)
    PROVE  Utc(z, c) > now /\ Utc(z, c) \in Occurrences(z, s)
<1> DEFINE next == Utc(z, c)
<1> USE SettingType
<1>1. /\ now < z.change => Local(z, now).wall = now + z.before
      /\ now >= z.change => Local(z, now).wall = now + z.after
  BY LocalType DEF Setting
<1>2. next \in Int /\ next > now /\ next <= Horizon
  BY <1>1, WhereNext
<1>3. next \in Instants
  BY <1>2 DEF Instants
<1>4. CASE Local(z, next).wall = c.wall
  BY <1>2, <1>3, <1>4 DEF Occurrences, Shown
<1>5. CASE /\ next = c.wall - z.before /\ next >= z.change
           /\ c.wall < z.change + z.after
  <2>1. ASSUME NEW i \in Instants
        PROVE  Local(z, i).wall # c.wall
    BY <1>5, LocalType DEF Setting, Instants
  <2>2. next + z.before = c.wall
    BY <1>5
  <2>3. QED
    BY <1>2, <1>3, <2>1, <2>2 DEF Occurrences, MadeUp, NeverShown
<1>6. \/ Local(z, next).wall = c.wall
      \/ /\ next = c.wall - z.before /\ next >= z.change
         /\ c.wall < z.change + z.after
  <2>1. /\ next < z.change => Local(z, next).wall = next + z.before
        /\ next >= z.change => Local(z, next).wall = next + z.after
    BY <1>2, LocalType DEF Setting
  <2>2. QED
    BY <1>2, <2>1, WhereNext
<1>7. QED
  BY <1>2, <1>4, <1>5, <1>6

(* What lies between is a second showing or never shown: a first showing is a *)
(* time of the wall after now's, so not before c, and the clock is set by a  *)
(* day at most.                                                              *)
LEMMA NothingBetween ==
    ASSUME NEW z, NEW s, NEW now, NEW c, Setting(z, s, now, c), ~ReadAsFirstPass(z, s, now),
           NEW i \in Occurrences(z, s), now < i, i < Utc(z, c)
    PROVE  i \in SecondPasses(z, s) \cup MadeUp(z, s)
<1> DEFINE next == Utc(z, c)
           w == Local(z, i).wall
<1> USE SettingType
<1>1. CASE i \in MadeUp(z, s)
  BY <1>1
<1>2. CASE i \in SecondPasses(z, s)
  BY <1>2
<1>3. CASE i \in Shown(z, s) /\ i \notin SecondPasses(z, s)
  <2>1. i \in Int /\ Names(s, w) /\ Local(z, i).fold # 1
    BY <1>3 DEF SecondPasses, Shown, Instants
  <2>2. /\ now < z.change => Local(z, now).wall = now + z.before
        /\ now >= z.change => Local(z, now).wall = now + z.after
        /\ i < z.change => w = i + z.before
        /\ i >= z.change => w = i + z.after /\ i + z.after >= z.change + z.before
        /\ w \in Int
    BY <2>1, LocalType DEF Setting
  <2>3. w > Local(z, now).wall => w = c.wall \/ w >= c.wall + TicksPerDay
    BY <2>1, <2>2, NamedLater DEF Setting
  <2>4. FALSE
    BY <2>1, <2>2, <2>3, WhereNext
  <2>5. QED
    BY <2>4
<1>4. QED
  BY <1>1, <1>2, <1>3 DEF Occurrences

(* The next run of every schedule by the clock, in every zone whose clock is *)
(* set once, computed at any moment: the next occurrence, but for second     *)
(* showings and times never shown; or, in the one case ReadAsFirstPass, a    *)
(* moment that has passed.                                                   *)
THEOREM NextRunIsRight ==
    ASSUME NEW z, IsZone(z), NEW s \in Schedules, s.kind # "interval"
    PROVE  NextRunIsNext(z, s)
<1> SUFFICES ASSUME NEW now \in 0..(Horizon - Week - TicksPerDay)
             PROVE  LET next == NextRunAt(z, s, now)
                    IN  IF ReadAsFirstPass(z, s, now) THEN next <= now
                        ELSE /\ next > now /\ next \in Occurrences(z, s)
                             /\ \A i \in Occurrences(z, s) :
                                   now < i /\ i < next => i \in SecondPasses(z, s) \cup MadeUp(z, s)
  BY DEF NextRunIsNext
<1>1. now \in Int
  BY PeriodType, ScheduleAssumption
<1>2. PICK c : Follows(s, Local(z, now), c) /\ NextRunAt(z, s, now) = Utc(z, c)
  BY <1>1, NextRunFollows
<1>3. Setting(z, s, now, c)
  BY <1>2 DEF Setting
<1>4. QED
  BY <1>2, <1>3, FirstPass, NextIsOccurrence, NothingBetween

(* In a zone that never puts its clock back every schedule, by intervals or  *)
(* by the clock, runs next after the moment it is computed at: the scheduler *)
(* never finds an automation due again that it has just queued.              *)
THEOREM NextRunIsAhead ==
    ASSUME NEW z, IsZone(z), z.before <= z.after, NEW s \in Schedules,
           NEW now \in 0..(Horizon - Week - TicksPerDay)
    PROVE  NextRunAt(z, s, now) > now
<1>1. now \in Int
  BY PeriodType, ScheduleAssumption
<1>2. CASE s.kind = "interval"
  <2>1. s.interval \in Nat \ {0}
    BY <1>2, ScheduleAssumption DEF Schedules
  <2>2. QED
    BY <1>1, <1>2, <2>1 DEF NextRunAt
<1>3. CASE s.kind # "interval"
  <2>1. Local(z, now).fold # 1
    BY <1>1 DEF Local, IsZone
  <2>2. ~ReadAsFirstPass(z, s, now)
    BY <2>1 DEF ReadAsFirstPass
  <2>3. QED
    BY <1>3, <2>2, NextRunIsRight DEF NextRunIsNext
<1>4. QED
  BY <1>2, <1>3
=============================================================================
