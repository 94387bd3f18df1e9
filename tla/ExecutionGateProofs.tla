------------------------ MODULE ExecutionGateProofs ------------------------
(* Proofs about ExecutionGate, for every finite set of requests.             *)
(*                                                                           *)
(* The inductive invariant joins the type, the agreement of the two counters *)
(* and the mode with what the tasks do, the isolation and the absence of     *)
(* lost wake-ups.  None of the last three is inductive alone: the isolation  *)
(* needs "active = 0 means nobody is inside", and a decrement keeps the type *)
(* only because the task it counts out was counted in.                       *)
EXTENDS ExecutionGate, FiniteSetTheorems, TLAPS

IInv ==
    /\ TypeOK
    /\ CountsAgree
    /\ ExclusiveIsolation
    /\ NoLostWakeup

(* What the three predicates of wait_for say, one per kind. *)
LEMMA MayEnterMeaning ==
    /\ \A k \in Exclusives : MayEnter(k) <=> active = 0
    /\ MayEnter("cleanup") <=> mode \in {None, "batch"}
    /\ MayEnter("shared") <=> (mode = None /\ waiters = 0)
BY DEF MayEnter, Exclusives, Shared

(* A predicate stays false when the mode stays and no count drops to zero. *)
LEMMA StaysBlocked ==
    ASSUME NEW k \in Kinds, ~MayEnter(k), mode' = mode,
           active' = 0 => active = 0, waiters' = 0 => waiters = 0
    PROVE  ~MayEnter(k)'
BY DEF MayEnter

(* Both sets that the counters count are finite. *)
LEMMA CountedSetsFinite == IsFiniteSet(Inside) /\ IsFiniteSet(QueuedExclusives)
<1>1. IsFiniteSet(Requests)
  BY GateAssumption
<1>2. Inside \in SUBSET Requests /\ QueuedExclusives \in SUBSET Requests
  BY DEF Inside, QueuedExclusives
<1>3. QED
  BY <1>1, <1>2, FS_Subset

(* notify_all moves sleepers only. *)
LEMMA NotifyAllMeaning ==
    ASSUME NEW p \in [Requests -> Places]
    PROVE  /\ NotifyAll(p) \in [Requests -> Places]
           /\ \A r \in Requests :
                 /\ NotifyAll(p)[r] # "sleeping"
                 /\ NotifyAll(p)[r] = "inside" <=> p[r] = "inside"
                 /\ NotifyAll(p)[r] = "outside" <=> p[r] = "outside"
                 /\ NotifyAll(p)[r] = "notified" <=> p[r] \in {"sleeping", "notified"}
BY DEF NotifyAll, Places

LEMMA InitIInv == Init => IInv
<1> SUFFICES ASSUME Init PROVE IInv
  OBVIOUS
<1>1. Inside = {} /\ QueuedExclusives = {}
  BY DEF Init, Inside, QueuedExclusives, Queued
<1>2. TypeOK
  BY GateAssumption DEF Init, TypeOK, Places, Kinds, Shared, Exclusives
<1>3. CountsAgree
  BY <1>1, FS_EmptySet DEF Init, CountsAgree
<1>4. ExclusiveIsolation /\ NoLostWakeup
  BY <1>1 DEF Init, ExclusiveIsolation, NoLostWakeup
<1>5. QED
  BY <1>2, <1>3, <1>4 DEF IInv

(* A task that the predicate lets in, from outside or after a wake-up: the   *)
(* waiters it leaves are those queued without it.                            *)
LEMMA AdmitPreserves ==
    ASSUME IInv, NEW r \in Requests, NEW k \in Kinds, NEW left,
           pc[r] # "inside", MayEnter(k), Admit(r, k, left),
           kind' = [kind EXCEPT ![r] = k],
           r \in QueuedExclusives => k \in Exclusives,
           left = IF r \in QueuedExclusives THEN waiters - 1 ELSE waiters
    PROVE  IInv'
<1> USE DEF IInv
<1>0. left = Cardinality(QueuedExclusives \ {r}) /\ left \in Nat
  <2>1. IsFiniteSet(QueuedExclusives \ {r})
    BY CountedSetsFinite, FS_RemoveElement
  <2>2. Cardinality(QueuedExclusives \ {r})
          = IF r \in QueuedExclusives THEN waiters - 1 ELSE waiters
    BY CountedSetsFinite, FS_RemoveElement DEF CountsAgree
  <2>3. QED
    BY <2>1, <2>2, FS_CardinalityType
<1>1. /\ pc' \in [Requests -> Places]
      /\ kind' \in [Requests -> Kinds]
      /\ mode' \in Exclusives \cup {None}
      /\ active' \in Nat /\ waiters' = left
      /\ pc'[r] = "inside" /\ kind'[r] = k
      /\ \A s \in Requests \ {r} :
            /\ kind'[s] = kind[s]
            /\ pc'[s] = "inside" <=> pc[s] = "inside"
            /\ pc'[s] \in {"sleeping", "notified"} <=> pc[s] \in {"sleeping", "notified"}
            /\ pc'[s] = "sleeping" => (pc[s] = "sleeping" /\ k \notin Exclusives)
  <2>1. CASE k \in Exclusives
    <3>1. pc' = [NotifyAll(pc) EXCEPT ![r] = "inside"] /\ mode' = k
      BY <2>1 DEF Admit
    <3>2. QED
      BY <3>1, <2>1, <1>0, NotifyAllMeaning DEF Admit, TypeOK, Places
  <2>2. CASE k \notin Exclusives
    <3>1. pc' = [pc EXCEPT ![r] = "inside"] /\ mode' = mode
      BY <2>2 DEF Admit
    <3>2. QED
      BY <3>1, <2>2, <1>0 DEF Admit, TypeOK, Places
  <2>3. QED
    BY <2>1, <2>2
<1>2. Inside' = Inside \cup {r} /\ r \notin Inside
  BY <1>1 DEF Inside
<1>3. QueuedExclusives' = QueuedExclusives \ {r}
  BY <1>1 DEF QueuedExclusives, Queued
<1>4. active' = Cardinality(Inside')
  BY <1>2, CountedSetsFinite, FS_AddElement DEF CountsAgree, Admit
<1>5. waiters' = Cardinality(QueuedExclusives')
  BY <1>0, <1>1, <1>3
<1>6. k \in Exclusives => (Inside = {} /\ mode' = k)
  BY CountedSetsFinite, FS_EmptySet, MayEnterMeaning DEF CountsAgree, Admit
<1>7. k \notin Exclusives => mode' = mode
  BY DEF Admit
<1>8. k = "cleanup" => mode \in {None, "batch"}
  BY MayEnterMeaning
<1>9. k = "shared" => (mode = None /\ waiters = 0)
  BY MayEnterMeaning
<1>10. TypeOK'
  BY <1>0, <1>1 DEF TypeOK
<1>11. CountsAgree'
  <2>1. \A s \in Inside' : kind'[s] \in Exclusives => mode' = kind'[s]
    BY <1>1, <1>2, <1>6, <1>7 DEF CountsAgree, Inside
  <2>2. mode' # None => \E s \in Inside' : kind'[s] = mode'
    BY <1>1, <1>2, <1>6, <1>7 DEF CountsAgree, Inside
  <2>3. QED
    BY <1>4, <1>5, <2>1, <2>2 DEF CountsAgree
<1>12. ExclusiveIsolation'
  <2>1. CASE k \in Exclusives
    BY <2>1, <1>2, <1>6 DEF ExclusiveIsolation
  <2>2. CASE k \notin Exclusives
    <3>1. \A s \in Inside : kind[s] \in Exclusives => (kind[s] = "batch" /\ k = "cleanup")
      BY <2>2, <1>8, <1>9, GateAssumption DEF CountsAgree, Kinds, Shared, Exclusives
    <3>2. \A s \in Inside : s # r /\ kind'[s] = kind[s]
      BY <1>1, <1>2 DEF Inside
    <3>3. QED
      BY <2>2, <3>1, <3>2, <1>1, <1>2 DEF ExclusiveIsolation
  <2>3. QED
    BY <2>1, <2>2
<1>13. NoLostWakeup'
  <2> SUFFICES ASSUME NEW s \in Requests, pc'[s] = "sleeping"
               PROVE  ~MayEnter(kind[s])'
    BY DEF NoLostWakeup
  <2>1. s # r /\ pc[s] = "sleeping" /\ kind'[s] = kind[s] /\ k \notin Exclusives
    BY <1>1
  <2>2. ~MayEnter(kind[s])
    BY <2>1 DEF NoLostWakeup
  <2>3. mode' = mode
    BY <2>1, <1>7
  <2>4. waiters' = waiters
    BY <2>1, <1>1
  <2>5. active' # 0
    BY DEF Admit, TypeOK
  <2>6. QED
    BY <2>1, <2>2, <2>3, <2>4, <2>5, StaysBlocked DEF TypeOK
<1>14. QED
  BY <1>10, <1>11, <1>12, <1>13

(* A task that goes to sleep because its predicate is false, for the first   *)
(* time (an exclusive one counted in) or again. *)
LEMMA SleepPreserves ==
    ASSUME IInv, NEW r \in Requests, NEW k \in Kinds,
           pc[r] # "inside", ~MayEnter(k),
           pc' = [pc EXCEPT ![r] = "sleeping"],
           kind' = [kind EXCEPT ![r] = k],
           r \in QueuedExclusives => k \in Exclusives,
           waiters' = IF k \in Exclusives /\ r \notin QueuedExclusives
                      THEN waiters + 1 ELSE waiters,
           UNCHANGED <<active, mode>>
    PROVE  IInv'
<1> USE DEF IInv
<1>1. TypeOK'
  BY DEF TypeOK, Places
<1>2. Inside' = Inside /\ r \notin Inside /\ \A s \in Inside : kind'[s] = kind[s]
  BY DEF Inside, TypeOK
<1>3. QueuedExclusives' = IF k \in Exclusives THEN QueuedExclusives \cup {r}
                          ELSE QueuedExclusives
  BY DEF QueuedExclusives, Queued, TypeOK
<1>4. CountsAgree'
  <2>1. waiters' = Cardinality(QueuedExclusives')
    BY <1>3, CountedSetsFinite, FS_AddElement DEF CountsAgree
  <2>2. QED
    BY <1>2, <2>1 DEF CountsAgree
<1>5. ExclusiveIsolation'
  BY <1>2 DEF ExclusiveIsolation
<1>6. NoLostWakeup'
  <2> SUFFICES ASSUME NEW s \in Requests, pc'[s] = "sleeping"
               PROVE  ~MayEnter(kind[s])'
    BY DEF NoLostWakeup
  <2>1. ~MayEnter(kind'[s])
    BY DEF NoLostWakeup, TypeOK
  <2>2. waiters' = 0 => waiters = 0
    BY DEF TypeOK
  <2>3. QED
    BY <2>1, <2>2, StaysBlocked DEF TypeOK
<1>7. QED
  BY <1>1, <1>4, <1>5, <1>6

LEMMA CancelPreserves ==
    ASSUME IInv, NEW r \in Requests, CancelQueued(r)
    PROVE  IInv'
<1> USE DEF IInv
<1>1. QueuedExclusives' = QueuedExclusives \ {r} /\ Inside' = Inside /\ r \notin Inside
  <2>1. CASE kind[r] \in Exclusives
    BY <2>1, NotifyAllMeaning
       DEF CancelQueued, QueuedExclusives, Inside, Queued, TypeOK
  <2>2. CASE kind[r] \notin Exclusives
    BY <2>2 DEF CancelQueued, QueuedExclusives, Inside, Queued, TypeOK
  <2>3. QED
    BY <2>1, <2>2
<1>2. waiters' = Cardinality(QueuedExclusives')
  <2>1. r \in QueuedExclusives <=> kind[r] \in Exclusives
    BY DEF QueuedExclusives, CancelQueued
  <2>2. QED
    BY <1>1, <2>1, CountedSetsFinite, FS_RemoveElement DEF CountsAgree, CancelQueued
<1>3. waiters' \in Nat
  BY <1>1, <1>2, CountedSetsFinite, FS_RemoveElement, FS_CardinalityType
<1>4. TypeOK'
  BY <1>3, NotifyAllMeaning DEF TypeOK, CancelQueued, Places, Kinds, Shared
<1>5. CountsAgree' /\ ExclusiveIsolation'
  BY <1>1, <1>2 DEF CountsAgree, ExclusiveIsolation, CancelQueued, TypeOK, Inside
<1>6. NoLostWakeup'
  <2> SUFFICES ASSUME NEW s \in Requests, pc'[s] = "sleeping"
               PROVE  ~MayEnter(kind[s])'
    BY DEF NoLostWakeup
  <2>1. s # r /\ pc[s] = "sleeping" /\ kind'[s] = kind[s] /\ kind[r] \notin Exclusives
    BY NotifyAllMeaning DEF CancelQueued, TypeOK
  <2>2. UNCHANGED <<active, waiters, mode>>
    BY <2>1 DEF CancelQueued
  <2>3. ~MayEnter(kind[s])
    BY <2>1 DEF NoLostWakeup
  <2>4. QED
    BY <2>1, <2>2, <2>3, StaysBlocked DEF TypeOK
<1>7. QED
  BY <1>4, <1>5, <1>6

LEMMA LeavePreserves ==
    ASSUME IInv, NEW r \in Requests, Leave(r)
    PROVE  IInv'
<1> USE DEF IInv
<1>1. /\ pc' \in [Requests -> Places]
      /\ Inside' = Inside \ {r} /\ r \in Inside
      /\ QueuedExclusives' = QueuedExclusives
      /\ \A s \in Inside' : kind'[s] = kind[s]
      /\ \A s \in Requests : pc'[s] # "sleeping"
  <2>1. /\ pc' \in [Requests -> Places]
        /\ pc[r] = "inside" /\ pc'[r] = "outside"
        /\ \A s \in Requests : pc'[s] # "sleeping"
        /\ \A s \in Requests \ {r} :
              /\ kind'[s] = kind[s]
              /\ pc'[s] = "inside" <=> pc[s] = "inside"
              /\ pc'[s] \in {"sleeping", "notified"} <=> pc[s] \in {"sleeping", "notified"}
    BY NotifyAllMeaning DEF Leave, TypeOK, Places
  <2>2. QED
    BY <2>1 DEF Inside, QueuedExclusives, Queued
<1>2. active' = Cardinality(Inside') /\ active' \in Nat
  <2>1. IsFiniteSet(Inside \ {r}) /\ Cardinality(Inside \ {r}) = active - 1
    BY <1>1, CountedSetsFinite, FS_RemoveElement DEF CountsAgree
  <2>2. QED
    BY <1>1, <2>1, FS_CardinalityType DEF Leave
<1>3. TypeOK'
  BY <1>1, <1>2 DEF Leave, TypeOK, Kinds, Shared
<1>4. CASE kind[r] \in Exclusives
  <2>1. \A s \in Inside' : kind[s] \notin Exclusives
    BY <1>1, <1>4 DEF ExclusiveIsolation, Exclusives
  <2>2. CountsAgree' /\ ExclusiveIsolation'
    BY <1>1, <1>2, <1>4, <2>1 DEF CountsAgree, ExclusiveIsolation, Leave
  <2>3. QED
    BY <1>1, <1>3, <2>2 DEF NoLostWakeup
<1>5. CASE kind[r] \notin Exclusives
  <2>1. mode' = mode /\ waiters' = waiters
    BY <1>5 DEF Leave
  <2>2. mode' # None => \E s \in Inside' : kind'[s] = mode'
    BY <1>1, <1>5, <2>1 DEF CountsAgree, TypeOK
  <2>3. CountsAgree' /\ ExclusiveIsolation'
    BY <1>1, <1>2, <2>1, <2>2 DEF CountsAgree, ExclusiveIsolation
  <2>4. QED
    BY <1>1, <1>3, <2>3 DEF NoLostWakeup
<1>6. QED
  BY <1>4, <1>5

LEMMA NextIInv == IInv /\ [Next]_vars => IInv'
<1> SUFFICES ASSUME IInv, [Next]_vars PROVE IInv'
  OBVIOUS
<1>1. CASE UNCHANGED vars
  BY <1>1 DEF vars, IInv, TypeOK, CountsAgree, ExclusiveIsolation, NoLostWakeup,
              Inside, QueuedExclusives, Queued, MayEnter
<1>2. ASSUME NEW r \in Requests, NEW k \in Kinds, EnterAtOnce(r, k) PROVE IInv'
  <2>1. pc[r] # "inside" /\ r \notin QueuedExclusives
    BY <1>2 DEF EnterAtOnce, QueuedExclusives, Queued
  <2>2. QED
    BY <1>2, <2>1, AdmitPreserves DEF EnterAtOnce
<1>3. ASSUME NEW r \in Requests, NEW k \in Kinds, EnterAndWait(r, k) PROVE IInv'
  <2>1. pc[r] # "inside" /\ r \notin QueuedExclusives
    BY <1>3 DEF EnterAndWait, QueuedExclusives, Queued
  <2>2. QED
    BY <1>3, <2>1, SleepPreserves DEF EnterAndWait
<1>4. ASSUME NEW r \in Requests, Wake(r) PROVE IInv'
  <2>1. /\ pc[r] = "notified" /\ kind[r] \in Kinds
        /\ kind' = [kind EXCEPT ![r] = kind[r]]
        /\ r \in QueuedExclusives <=> kind[r] \in Exclusives
    BY <1>4 DEF Wake, WakeAndEnter, WakeAndSleep, QueuedExclusives, Queued, IInv, TypeOK
  <2>2. CASE WakeAndEnter(r)
    BY <2>1, <2>2, AdmitPreserves DEF WakeAndEnter
  <2>3. CASE WakeAndSleep(r)
    BY <2>1, <2>3, SleepPreserves DEF WakeAndSleep
  <2>4. QED
    BY <1>4, <2>2, <2>3 DEF Wake
<1>5. QED
  BY <1>1, <1>2, <1>3, <1>4, CancelPreserves, LeavePreserves DEF Next, Enter

(* Every reachable state satisfies the inductive invariant. *)
LEMMA Invariance == Spec => []IInv
BY InitIInv, NextIInv, PTL DEF Spec

-----------------------------------------------------------------------------
(* The counters never go negative, and every field keeps its type. *)
THEOREM TypeCorrect == Spec => []TypeOK
BY Invariance, PTL DEF IInv

(* A batch runs beside page cleanup only; stop and rebuild run alone. *)
THEOREM Isolation == Spec => []ExclusiveIsolation
BY Invariance, PTL DEF IInv

(* The counters and the mode are exactly what the tasks are doing. *)
THEOREM CountsCorrect == Spec => []CountsAgree
BY Invariance, PTL DEF IInv

(* No task sleeps while its predicate holds. *)
THEOREM WakeupsKept == Spec => []NoLostWakeup
BY Invariance, PTL DEF IInv

(* Not everybody waits: whoever sleeps in the queue has somebody inside, or  *)
(* somebody who is about to look at its predicate again.                     *)
SomebodyMoves ==
    \A r \in Requests : Queued(r) => \E s \in Requests : pc[s] \in {"inside", "notified"}

THEOREM NotAllAsleep == Spec => []SomebodyMoves
<1>1. IInv => SomebodyMoves
  <2> SUFFICES ASSUME IInv, NEW r \in Requests, pc[r] = "sleeping",
                      \A s \in Requests : pc[s] \notin {"inside", "notified"}
               PROVE  FALSE
    BY DEF SomebodyMoves, Queued
  <2> USE DEF IInv
  <2>1. active = 0 /\ mode = None
    <3>1. Inside = {}
      BY DEF Inside
    <3>2. QED
      BY <3>1, FS_EmptySet DEF CountsAgree
  <2>2. \A s \in Requests : pc[s] = "sleeping" => kind[s] \notin Exclusives
    BY <2>1, MayEnterMeaning DEF NoLostWakeup
  <2>3. waiters = 0
    <3>1. QueuedExclusives = {}
      BY <2>2 DEF QueuedExclusives, Queued
    <3>2. QED
      BY <3>1, FS_EmptySet DEF CountsAgree
  <2>4. kind[r] \in {"shared", "cleanup"}
    BY <2>2 DEF TypeOK, Kinds, Shared, Exclusives
  <2>5. QED
    BY <2>1, <2>3, <2>4, MayEnterMeaning DEF NoLostWakeup
<1>2. QED
  BY <1>1, Invariance, PTL

(* No shared action overtakes a queued batch, stop or rebuild. *)
THEOREM ExclusivePriority == Spec => NoSharedPastQueuedExclusive
<1> DEFINE A == \A r \in Requests :
                  (pc[r] # "inside" /\ pc'[r] = "inside" /\ kind'[r] = "shared")
                      => QueuedExclusives = {}
<1>1. ASSUME IInv, [Next]_vars PROVE [A]_vars
  <2> SUFFICES ASSUME Next, NEW r \in Requests,
                      pc[r] # "inside", pc'[r] = "inside", kind'[r] = "shared"
               PROVE  QueuedExclusives = {}
    BY <1>1
  <2>1. PICK s \in Requests : Enter(s) \/ Wake(s) \/ CancelQueued(s) \/ Leave(s)
    BY DEF Next
  <2>2. r = s /\ MayEnter("shared")
    <3>0. pc \in [Requests -> Places] /\ kind \in [Requests -> Kinds]
      BY <1>1 DEF IInv, TypeOK
    <3>1. CASE Enter(s)
      BY <3>0, <3>1, NotifyAllMeaning DEF Enter, EnterAtOnce, EnterAndWait, Admit
    <3>2. CASE Wake(s)
      BY <3>0, <3>2, NotifyAllMeaning DEF Wake, WakeAndEnter, WakeAndSleep, Admit
    <3>3. CASE CancelQueued(s)
      BY <3>0, <3>3, NotifyAllMeaning DEF CancelQueued
    <3>4. CASE Leave(s)
      BY <3>0, <3>4, NotifyAllMeaning DEF Leave
    <3>5. QED
      BY <2>1, <3>1, <3>2, <3>3, <3>4
  <2>3. waiters = 0
    BY <2>2, MayEnterMeaning
  <2>4. QED
    BY <1>1, <2>3, CountedSetsFinite, FS_EmptySet DEF IInv, CountsAgree
<1>2. QED
  BY Invariance, <1>1, PTL DEF Spec, NoSharedPastQueuedExclusive
=============================================================================
