---------------------------- MODULE NetworkRecords ----------------------------
(* NetworkRecordStore and the observer of one page (network.py,              *)
(* browser/network_capture.py), as operators on one record.  A network       *)
(* record is its resource type; a waiter is the task that waits, with its    *)
(* filter.                                                                   *)
EXTENDS Integers, FiniteSets, SequencesExt

CONSTANTS Types,         \* resource types
          RecordLimit,   \* maxlen of both buffers (200 in the code)
          AnyType        \* a filter without the criterion resource_type

ASSUME LimitAssumption == RecordLimit \in Nat \ {0}

StaticTypes == {"image", "stylesheet", "script", "font", "media"}
Filters == [type : Types \cup {AnyType}, include_static : BOOLEAN]

(* Every criterion of a filter is a conjunct; one stands for all of them. *)
Matches(filter, type) ==
    /\ filter.include_static \/ type \notin StaticTypes
    /\ filter.type \in {AnyType, type}

Bounded(queue) == IF Len(queue) > RecordLimit THEN Tail(queue) ELSE queue

NewObserver == [recent |-> << >>, captured |-> << >>, capturing |-> FALSE,
                waiters |-> {}, finalizing |-> {}]

(* Observers whose waiters are taken from a set. *)
Observers(waiters) ==
    [recent : Seq(Types), captured : Seq(Types), capturing : BOOLEAN,
     waiters : SUBSET waiters, finalizing : SUBSET Types]

StartCapture(o) == [o EXCEPT !.captured = << >>, !.capturing = TRUE]
StopCapture(o) == [o EXCEPT !.capturing = FALSE]
GetRecords(o, filter, clear) ==
    IF clear THEN [o EXCEPT !.captured = SelectSeq(@, LAMBDA r : ~Matches(filter, r))] ELSE o

(* wait_for_record: the answer is there, or the task becomes a waiter. *)
Found(o, filter) == \E r \in Range(o.recent) : Matches(filter, r)
AddWaiter(o, task, filter) == [o EXCEPT !.waiters = @ \cup {[task |-> task, filter |-> filter]}]
DropWaiter(o, task) == [o EXCEPT !.waiters = {w \in @ : w.task # task}]

(* add_record: the tasks it serves, and what it leaves. *)
Served(o, type) == {w.task : w \in {v \in o.waiters : Matches(v.filter, type)}}
AddRecord(o, type) ==
    [o EXCEPT !.recent = Bounded(Append(@, type)),
              !.captured = IF o.capturing THEN Bounded(Append(@, type)) ELSE @,
              !.waiters = {w \in @ : ~Matches(w.filter, type)}]

(* requestfinished and requestfailed: a task reads the headers and the body, *)
(* and only its end makes the record.  The mark `completed` lets one task    *)
(* per request through.                                                      *)
Spawn(o, type) == [o EXCEPT !.finalizing = @ \cup {type}]
FinalizeRequest(o, type) == AddRecord([o EXCEPT !.finalizing = @ \ {type}], type)
FinalizeFails(o, type) == [o EXCEPT !.finalizing = @ \ {type}]
=============================================================================
