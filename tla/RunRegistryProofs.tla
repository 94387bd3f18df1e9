------------------------- MODULE RunRegistryProofs -------------------------
(* Proofs about RunRegistry, for any number of runs and any limit.           *)
(*                                                                           *)
(* RunsAccounted is not inductive: that a run is terminal only when its task *)
(* is over follows from what the record says at each stage of the task, and  *)
(* the count of commands from the stage that the task is in.  What           *)
(* CancelTerminates needs of the steps is proved too: a cancellation is not  *)
(* taken back, and every step of a task brings it nearer to its end.         *)
EXTENDS RunRegistry, FiniteSetTheorems, WellFoundedInduction, TLAPS

Reading == {r \in Runs : stage[r] = "read"}

(* Every open command is that of a run in its read. *)
DepthIsReaders == depth = Cardinality(Reading)

(* What the record of a run says while its task is at a stage; runs that     *)
(* were not started have no task, and only a live task is asked to end.      *)
RecordFollowsTask ==
    /\ \A r \in Runs : r > counter => stage[r] = "none"
    /\ \A r \in asked : stage[r] \in Live
    /\ \A r \in Known :
          /\ stage[r] \in Live => status[r] \notin Terminal
          /\ (stage[r] = "created" /\ r \in asked) => status[r] = "cancel_requested"
          /\ stage[r] = "callback" => status[r] \in Terminal \cup {"cancel_requested"}
          /\ stage[r] = "finished" => status[r] \in Terminal
          /\ stage[r] # "none"

IInv == TypeOK /\ DepthIsReaders /\ RecordFollowsTask

LEMMA KnownAreRuns == TypeOK => Known \subseteq Runs
<1> SUFFICES ASSUME TypeOK, NEW x \in Known PROVE x \in Runs
  OBVIOUS
<1>1. x \in 1..counter /\ counter \in 0..MaxRuns
  BY DEF TypeOK
<1>2. QED
  BY <1>1, RunAssumption DEF Runs

(* Eviction only removes records. *)
LEMMA EvictRemoves ==
    ASSUME NEW st, NEW D, st \in [D -> Statuses], NEW busy
    PROVE  /\ DOMAIN Evict(st, busy) \subseteq D
           /\ Evict(st, busy) \in [DOMAIN Evict(st, busy) -> Statuses]
           /\ \A x \in DOMAIN Evict(st, busy) : Evict(st, busy)[x] = st[x]
<1>1. DOMAIN st = D
  OBVIOUS
<1>2. CASE Cardinality(D) <= MaxCompleted
  BY <1>1, <1>2 DEF Evict
<1>3. CASE ~(Cardinality(D) <= MaxCompleted)
  <2> DEFINE evictable == {r \in D : st[r] \in Terminal /\ r \notin busy}
             gone == {r \in evictable :
                         Cardinality({s \in evictable : s < r}) < Cardinality(D) - MaxCompleted}
  <2>1. Evict(st, busy) = [r \in D \ gone |-> st[r]]
    BY <1>1, <1>3 DEF Evict
  <2>2. \A r \in D \ gone : st[r] \in Statuses
    OBVIOUS
  <2> HIDE DEF gone
  <2>3. QED
    BY <2>1, <2>2
<1>4. QED
  BY <1>2, <1>3

(* A task enters or leaves its read, or does neither. *)
LEMMA DepthCounted ==
    ASSUME TypeOK, DepthIsReaders, NEW r \in Runs, NEW s \in Stages,
           stage' = [stage EXCEPT ![r] = s],
           depth' = depth + (IF s = "read" THEN 1 ELSE 0)
                          - (IF stage[r] = "read" THEN 1 ELSE 0)
    PROVE  depth' \in Nat /\ DepthIsReaders'
<1>1. IsFiniteSet(Reading)
  <2>1. IsFiniteSet(Runs)
    BY RunAssumption, FS_Interval DEF Runs
  <2>2. Reading \in SUBSET Runs
    BY DEF Reading
  <2>3. QED
    BY <2>1, <2>2, FS_Subset
<1>2. depth \in Nat /\ depth = Cardinality(Reading)
  BY DEF TypeOK, DepthIsReaders
<1>3. \A x \in Runs : stage'[x] = IF x = r THEN s ELSE stage[x]
  BY DEF TypeOK
<1>4. CASE s = "read"
  <2>1. Reading' = Reading \cup {r}
    BY <1>3, <1>4 DEF Reading
  <2>2. r \in Reading <=> stage[r] = "read"
    BY DEF Reading
  <2>3. QED
    BY <1>1, <1>2, <1>4, <2>1, <2>2, FS_AddElement DEF DepthIsReaders
<1>5. CASE s # "read"
  <2>1. Reading' = Reading \ {r}
    BY <1>3, <1>5 DEF Reading
  <2>2. r \in Reading <=> stage[r] = "read"
    BY DEF Reading
  <2>3. IsFiniteSet(Reading \ {r})
        /\ Cardinality(Reading \ {r}) = IF r \in Reading THEN Cardinality(Reading) - 1
                                        ELSE Cardinality(Reading)
    BY <1>1, FS_RemoveElement
  <2>4. Cardinality(Reading \ {r}) \in Nat
    BY <2>3, FS_CardinalityType
  <2>5. QED
    BY <1>2, <1>5, <2>1, <2>2, <2>3, <2>4 DEF DepthIsReaders
<1>6. QED
  BY <1>4, <1>5

LEMMA InitIInv == Init => IInv
<1> SUFFICES ASSUME Init PROVE IInv
  OBVIOUS
<1>1. Known = {} /\ counter = 0
  BY DEF Init, Known
<1>2. TypeOK
  BY <1>1, RunAssumption DEF Init, TypeOK, Stages, Terminal, Statuses, Known
<1>3. Reading = {}
  BY DEF Init, Reading
<1>4. DepthIsReaders
  BY <1>3, FS_EmptySet DEF Init, DepthIsReaders
<1>5. RecordFollowsTask
  BY <1>1 DEF Init, RecordFollowsTask
<1>6. QED
  BY <1>2, <1>4, <1>5 DEF IInv

LEMMA StartReadPreserves == IInv /\ StartRead => IInv'
<1> SUFFICES ASSUME IInv, StartRead PROVE IInv'
  OBVIOUS
<1> DEFINE r == counter + 1
           st == [x \in Known \cup {r} |-> IF x = r THEN "queued" ELSE status[x]]
           new == Evict(st, Busy \cup {r})
<1>1. /\ counter \in 0..MaxRuns /\ counter < MaxRuns /\ r \in Runs
      /\ counter' = r /\ status' = new
      /\ stage' = [stage EXCEPT ![r] = "created"]
      /\ UNCHANGED <<result, asked, raising, depth>>
  BY RunAssumption DEF IInv, TypeOK, StartRead, Runs
<1>2. st \in [Known \cup {r} -> Statuses] /\ Known \subseteq 1..counter
  BY DEF IInv, TypeOK, Statuses
<1>3. /\ DOMAIN new \subseteq Known \cup {r}
      /\ new \in [DOMAIN new -> Statuses]
      /\ \A x \in DOMAIN new : new[x] = st[x]
  <2> HIDE DEF st
  <2>1. QED
    BY <1>2, EvictRemoves
<1>4. \A x \in DOMAIN new : new[x] = IF x = r THEN "queued" ELSE status[x]
  BY <1>3
<1> HIDE DEF st, new
<1>5. Known' = DOMAIN new
  BY <1>1 DEF Known
<1>6. TypeOK'
  <2>1. Known' \subseteq 1..counter'
    BY <1>1, <1>2, <1>3, <1>5
  <2>2. stage' \in [Runs -> Stages]
    BY <1>1 DEF IInv, TypeOK, Stages, Live
  <2>3. QED
    BY <1>1, <1>3, <1>5, <2>1, <2>2 DEF IInv, TypeOK, Runs
<1>7. r \notin asked /\ r \notin Known /\ stage[r] = "none"
  <2>1. stage[r] = "none"
    BY <1>1, r > counter DEF IInv, RecordFollowsTask
  <2>2. QED
    BY <1>1, <1>2, <2>1 DEF IInv, RecordFollowsTask, Live
<1>8. Known' \subseteq Runs
  BY <1>1, <1>3, <1>5, KnownAreRuns DEF IInv
<1>9. RecordFollowsTask'
  <2>1. \A x \in Runs : stage'[x] = IF x = r THEN "created" ELSE stage[x]
    BY <1>1 DEF IInv, TypeOK
  <2>2. asked \subseteq Runs /\ Known' \subseteq Runs
    BY <1>1, <1>8 DEF TypeOK, IInv
  <2>3. \A x \in Runs : x > counter' => stage'[x] = "none"
    BY <1>1, <2>1 DEF IInv, RecordFollowsTask, TypeOK, Runs
  <2>4. \A x \in asked' : stage'[x] \in Live
    BY <1>1, <1>7, <2>1, <2>2 DEF IInv, RecordFollowsTask
  <2>5. ASSUME NEW x \in Known', x # r
        PROVE  x \in Known /\ status'[x] = status[x] /\ stage'[x] = stage[x]
    BY <1>1, <1>3, <1>4, <1>5, <2>1, <2>2, <2>5
  <2>6. r \in Known' => status'[r] = "queued" /\ stage'[r] = "created"
    BY <1>1, <1>4, <1>5, <2>1
  <2>7. QED
    BY <1>1, <1>7, <2>3, <2>4, <2>5, <2>6 DEF IInv, RecordFollowsTask, Live, Terminal
<1>10. DepthIsReaders'
  <2>1. Reading' = Reading
    BY <1>1, <1>7 DEF Reading, IInv, TypeOK
  <2>2. QED
    BY <1>1, <2>1 DEF IInv, DepthIsReaders
<1>11. QED
  BY <1>6, <1>9, <1>10 DEF IInv

(* A step of one run: its task goes to stage s, records other than its own   *)
(* are left or evicted, and its own says what the stage requires.            *)
LEMMA RunStepPreserves ==
    ASSUME IInv, NEW r \in Runs, stage[r] # "none", NEW s \in Stages \ {"none"},
           stage' = [stage EXCEPT ![r] = s],
           counter' = counter, result' \subseteq Runs, raising' \in [Runs -> Terminal],
           depth' = depth + (IF s = "read" THEN 1 ELSE 0)
                          - (IF stage[r] = "read" THEN 1 ELSE 0),
           Known' \subseteq Known, status' \in [Known' -> Statuses],
           \A x \in Known' \ {r} : status'[x] = status[x],
           asked' \subseteq Runs, asked' \ {r} \subseteq asked,
           \A x \in Known' \ {r} : x \in asked <=> x \in asked',
           r \in asked' => s \in Live,
           r \in Known' =>
              /\ s \in Live => status'[r] \notin Terminal
              /\ (s = "created" /\ r \in asked') => status'[r] = "cancel_requested"
              /\ s = "callback" => status'[r] \in Terminal \cup {"cancel_requested"}
              /\ s = "finished" => status'[r] \in Terminal
    PROVE  IInv'
<1>1. \A x \in Runs : stage'[x] = IF x = r THEN s ELSE stage[x]
  BY DEF IInv, TypeOK
<1>2. depth' \in Nat /\ DepthIsReaders'
  BY DepthCounted DEF IInv
<1>3. TypeOK'
  <2>1. stage' \in [Runs -> Stages]
    BY DEF IInv, TypeOK
  <2>2. QED
    BY <1>2, <2>1 DEF IInv, TypeOK
<1>4. RecordFollowsTask'
  <2>1. asked' \subseteq Runs /\ Known' \subseteq Runs /\ r <= counter
    <3>1. Known \subseteq Runs
      BY KnownAreRuns DEF IInv
    <3>2. r <= counter
      BY DEF IInv, TypeOK, RecordFollowsTask, Runs
    <3>3. QED
      BY <3>1, <3>2
  <2>2. \A x \in Runs : x > counter' => stage'[x] = "none"
    BY <1>1, <2>1 DEF IInv, RecordFollowsTask, TypeOK, Runs
  <2>3. \A x \in asked' : stage'[x] \in Live
    BY <1>1, <2>1 DEF IInv, RecordFollowsTask
  <2>4. ASSUME NEW x \in Known', x # r
        PROVE  x \in Known /\ status'[x] = status[x] /\ stage'[x] = stage[x]
               /\ (x \in asked' => x \in asked)
    BY <1>1, <2>1, <2>4
  <2>5. \A x \in Known' : stage'[x] # "none"
    BY <1>1, <2>1, <2>4 DEF IInv, RecordFollowsTask
  <2>6. r \in Known' => stage'[r] = s
    BY <1>1
  <2>7. QED
    BY <2>2, <2>3, <2>4, <2>5, <2>6 DEF IInv, RecordFollowsTask
<1>5. QED
  BY <1>2, <1>3, <1>4 DEF IInv

(* Setting one record keeps the others and the domain. *)
LEMMA SetRecord ==
    ASSUME TypeOK, NEW r, NEW v \in Statuses
    PROVE  /\ [status EXCEPT ![r] = v] \in [Known -> Statuses]
           /\ \A x \in Known : [status EXCEPT ![r] = v][x] = IF x = r THEN v ELSE status[x]
BY DEF TypeOK

(* The last step of a task. *)
LEMMA FinishPreserves ==
    ASSUME IInv, NEW r \in Runs, NEW outcome \in Terminal, stage[r] \in Live,
           stage[r] # "read", Finish(r, outcome),
           UNCHANGED <<counter, raising, depth>>, result' = result
    PROVE  IInv'
<1> DEFINE st == [status EXCEPT ![r] = outcome]
<1>1. /\ st \in [Known -> Statuses]
      /\ \A x \in Known : st[x] = IF x = r THEN outcome ELSE status[x]
  BY SetRecord DEF IInv, Statuses
<1>2. status' = Evict(st, Busy)
  BY DEF Finish
<1> HIDE DEF st
<1>3. /\ Known' \subseteq Known /\ status' \in [Known' -> Statuses]
      /\ \A x \in Known' : status'[x] = st[x]
  BY <1>1, <1>2, EvictRemoves DEF Known
<1>4. /\ \A x \in Known' \ {r} : status'[x] = status[x]
      /\ r \in Known' => status'[r] = outcome
  BY <1>1, <1>3
<1>5. /\ "callback" \in Stages \ {"none"} /\ stage[r] # "none"
      /\ "callback" \notin Live
  BY DEF Stages, Live
<1>6. /\ stage' = [stage EXCEPT ![r] = "callback"]
      /\ asked' = asked \ {r} /\ asked' \subseteq Runs
      /\ result' \subseteq Runs /\ raising' \in [Runs -> Terminal] /\ depth \in Nat
  BY DEF Finish, IInv, TypeOK
<1>7. depth' = depth + (IF "callback" = "read" THEN 1 ELSE 0)
                        - (IF stage[r] = "read" THEN 1 ELSE 0)
  BY <1>6
<1>8. /\ asked' \ {r} \subseteq asked /\ r \notin asked'
      /\ \A x \in Known' \ {r} : x \in asked <=> x \in asked'
  BY <1>6
<1> HIDE DEF Finish
<1>9. QED
  BY <1>3, <1>4, <1>5, <1>6, <1>7, <1>8, RunStepPreserves
LEMMA CancelPreserves == \A r \in Runs : IInv /\ Cancel(r) => IInv'
<1> SUFFICES ASSUME NEW r \in Runs, IInv, Cancel(r) PROVE IInv'
  OBVIOUS
<1>1. /\ status' \in [Known -> Statuses]
      /\ \A x \in Known : status'[x] = IF x = r THEN "cancel_requested" ELSE status[x]
  BY SetRecord DEF IInv, Cancel, Statuses
<1>2. Known' = Known
  BY <1>1 DEF Known
<1>3. /\ stage[r] \in Live /\ stage[r] \in Stages \ {"none"} /\ stage[r] # "finished"
      /\ stage[r] # "callback"
      /\ stage' = [stage EXCEPT ![r] = stage[r]]
  BY DEF Cancel, IInv, TypeOK, Live, Stages
<1>4. depth' = depth + (IF stage[r] = "read" THEN 1 ELSE 0)
                     - (IF stage[r] = "read" THEN 1 ELSE 0)
  BY DEF Cancel, IInv, TypeOK
<1>5. /\ counter' = counter /\ result' \subseteq Runs /\ raising' \in [Runs -> Terminal]
      /\ asked' = asked \cup {r} /\ asked' \subseteq Runs
  BY DEF Cancel, IInv, TypeOK
<1>6. "cancel_requested" \notin Terminal
  BY DEF Terminal
<1>7. QED
  BY <1>1, <1>2, <1>3, <1>4, <1>5, <1>6, RunStepPreserves

(* The steps of the task that leave its record alone. *)
LEMMA QuietStepPreserves ==
    ASSUME IInv, NEW r \in Runs, stage[r] # "none", NEW s \in Stages \ {"none"},
           stage' = [stage EXCEPT ![r] = s], UNCHANGED <<counter, status>>,
           result' \subseteq Runs, raising' \in [Runs -> Terminal],
           depth' = depth + (IF s = "read" THEN 1 ELSE 0)
                          - (IF stage[r] = "read" THEN 1 ELSE 0),
           asked' \in {asked, asked \ {r}},
           \/ stage[r] \in Live /\ s \in Live \ {"created"}
           \/ stage[r] = "created" /\ s = "callback" /\ r \in asked /\ r \notin asked'
    PROVE  IInv'
<1>1. Known' = Known /\ status' \in [Known' -> Statuses]
  BY DEF Known, IInv, TypeOK
<1>2. asked' \subseteq Runs /\ asked' \ {r} = asked \ {r}
  BY DEF IInv, TypeOK
<1>3. r \in asked' => s \in Live
  BY DEF Live
<1>4. r \in Known' =>
         /\ s \in Live => status'[r] \notin Terminal
         /\ s # "created" /\ s # "finished"
         /\ s = "callback" => status'[r] \in Terminal \cup {"cancel_requested"}
  BY <1>1 DEF IInv, RecordFollowsTask, Live
<1>5. QED
  BY <1>1, <1>2, <1>3, <1>4, RunStepPreserves

LEMMA TaskStepPreserves == \A r \in Runs : IInv /\ TaskStep(r) => IInv'
<1> SUFFICES ASSUME NEW r \in Runs, IInv, TaskStep(r) PROVE IInv'
  OBVIOUS
<1> USE DEF Live, Stages
<1>1. /\ depth \in Nat /\ asked \subseteq Runs /\ result \subseteq Runs
      /\ raising \in [Runs -> Terminal]
      /\ result \cup {r} \subseteq Runs
      /\ \A v \in Terminal : [raising EXCEPT ![r] = v] \in [Runs -> Terminal]
  BY DEF IInv, TypeOK
<1>2. CASE NeverRan(r)
  <2>1. /\ depth' = depth + (IF "callback" = "read" THEN 1 ELSE 0)
                          - (IF stage[r] = "read" THEN 1 ELSE 0)
        /\ "callback" \in Stages \ {"none"}
    BY <1>1, <1>2 DEF NeverRan
  <2>2. QED
    BY <1>1, <1>2, <2>1, QuietStepPreserves DEF NeverRan
<1>3. CASE QueueAtGate(r)
  <2>1. /\ depth' = depth + (IF "queued" = "read" THEN 1 ELSE 0)
                          - (IF stage[r] = "read" THEN 1 ELSE 0)
        /\ "queued" \in Stages \ {"none"}
    BY <1>1, <1>3 DEF QueueAtGate
  <2>2. QED
    BY <1>1, <1>3, <2>1, QuietStepPreserves DEF QueueAtGate
<1>4. CASE Admitted(r)
  <2>1. /\ status' \in [Known -> Statuses]
        /\ \A x \in Known : status'[x] = IF x = r THEN "running" ELSE status[x]
    BY <1>4, SetRecord DEF IInv, Admitted, Statuses
  <2>2. Known' = Known
    BY <2>1 DEF Known
  <2>3. depth' = depth + (IF "begin" = "read" THEN 1 ELSE 0)
                       - (IF stage[r] = "read" THEN 1 ELSE 0)
    BY <1>1, <1>4 DEF Admitted
  <2>4. "running" \notin Terminal
    BY DEF Terminal
  <2>5. QED
    BY <1>1, <1>4, <2>1, <2>2, <2>3, <2>4, RunStepPreserves DEF Admitted
<1>5. CASE Begun(r)
  <2>1. /\ depth' = depth + (IF "read" = "read" THEN 1 ELSE 0)
                          - (IF stage[r] = "read" THEN 1 ELSE 0)
        /\ "read" \in Stages \ {"none"}
    BY <1>1, <1>5 DEF Begun
  <2>2. QED
    BY <1>1, <1>5, <2>1, QuietStepPreserves DEF Begun
<1>6. CASE BeginFails(r)
  BY <1>6, FinishPreserves DEF BeginFails, Terminal
<1>7. CASE ReadDone(r)
  <2>1. /\ depth' = depth + (IF "end" = "read" THEN 1 ELSE 0)
                          - (IF stage[r] = "read" THEN 1 ELSE 0)
        /\ "end" \in Stages \ {"none"}
    BY <1>1, <1>7 DEF ReadDone, ToEnd
  <2>2. QED
    BY <1>1, <1>7, <2>1, QuietStepPreserves DEF ReadDone, ToEnd, Terminal
<1>8. CASE ReadFails(r)
  <2>1. /\ depth' = depth + (IF "end" = "read" THEN 1 ELSE 0)
                          - (IF stage[r] = "read" THEN 1 ELSE 0)
        /\ "end" \in Stages \ {"none"}
    BY <1>1, <1>8 DEF ReadFails, ToEnd
  <2>2. QED
    BY <1>1, <1>8, <2>1, QuietStepPreserves DEF ReadFails, ToEnd, Terminal
<1>9. CASE EndDone(r)
  BY <1>1, <1>9, FinishPreserves DEF EndDone
<1>10. CASE EndFails(r)
  BY <1>10, FinishPreserves DEF EndFails, Terminal
<1>11. CASE MeetsCancel(r)
  <2>1. CASE stage[r] = "read"
    <3>1. /\ depth' = depth + (IF "end" = "read" THEN 1 ELSE 0)
                            - (IF stage[r] = "read" THEN 1 ELSE 0)
          /\ "end" \in Stages \ {"none"}
      BY <1>1, <1>11, <2>1 DEF MeetsCancel, ToEnd
    <3>2. QED
      BY <1>1, <1>11, <2>1, <3>1, QuietStepPreserves DEF MeetsCancel, ToEnd, Terminal
  <2>2. CASE stage[r] # "read"
    BY <1>11, <2>2, FinishPreserves DEF MeetsCancel, Terminal
  <2>3. QED
    BY <2>1, <2>2
<1>12. CASE SwallowsCancel(r)
  <2>1. stage' = [stage EXCEPT ![r] = stage[r]]
    BY <1>12 DEF SwallowsCancel, IInv, TypeOK
  <2>2. depth' = depth + (IF stage[r] = "read" THEN 1 ELSE 0)
                       - (IF stage[r] = "read" THEN 1 ELSE 0)
    BY <1>1, <1>12 DEF SwallowsCancel
  <2>3. QED
    BY <1>1, <1>12, <2>1, <2>2, QuietStepPreserves DEF SwallowsCancel
<1>13. CASE RunFinished(r)
  <2> DEFINE st == IF r \in Known /\ status[r] = "cancel_requested"
                   THEN [status EXCEPT ![r] = "canceled"] ELSE status
  <2>1. /\ st \in [Known -> Statuses]
        /\ \A x \in Known \ {r} : st[x] = status[x]
        /\ r \in Known => st[r] \in Terminal
    <3>1. "canceled" \in Statuses /\ "canceled" \in Terminal
      BY DEF Statuses, Terminal
    <3>2. r \in Known => status[r] \in Terminal \cup {"cancel_requested"}
      BY <1>13 DEF RunFinished, IInv, RecordFollowsTask
    <3>3. status \in [Known -> Statuses]
      BY DEF IInv, TypeOK
    <3>4. QED
      BY <3>1, <3>2, <3>3, SetRecord DEF IInv
  <2>2. status' = Evict(st, Busy)
    BY <1>13 DEF RunFinished
  <2> HIDE DEF st
  <2>3. /\ Known' \subseteq Known /\ status' \in [Known' -> Statuses]
        /\ \A x \in Known' : status'[x] = st[x]
    BY <2>1, <2>2, EvictRemoves DEF Known
  <2>4. /\ \A x \in Known' \ {r} : status'[x] = status[x]
        /\ r \in Known' => status'[r] \in Terminal
    BY <2>1, <2>3
  <2>5. stage[r] = "callback" /\ r \notin asked
    BY <1>13 DEF RunFinished, IInv, RecordFollowsTask
  <2>6. depth' = depth + (IF "finished" = "read" THEN 1 ELSE 0)
                       - (IF stage[r] = "read" THEN 1 ELSE 0)
    BY <1>1, <1>13, <2>5 DEF RunFinished
  <2>7. /\ stage' = [stage EXCEPT ![r] = "finished"]
        /\ UNCHANGED <<counter, result, asked, raising>>
    BY <1>13 DEF RunFinished
  <2>8. QED
    BY <1>1, <2>3, <2>4, <2>5, <2>6, <2>7, RunStepPreserves
<1>14. QED
  BY <1>2, <1>3, <1>4, <1>5, <1>6, <1>7, <1>8, <1>9, <1>10, <1>11, <1>12, <1>13
     DEF TaskStep

LEMMA NextPreserves == IInv /\ [Next]_vars => IInv'
<1> SUFFICES ASSUME IInv, [Next]_vars PROVE IInv'
  OBVIOUS
<1>1. CASE StartRead
  BY <1>1, StartReadPreserves
<1>2. CASE \E r \in Runs : Cancel(r) \/ TaskStep(r)
  BY <1>2, CancelPreserves, TaskStepPreserves
<1>3. CASE UNCHANGED vars
  BY <1>3 DEF vars, IInv, TypeOK, DepthIsReaders, Reading, RecordFollowsTask, Known
<1>4. QED
  BY <1>1, <1>2, <1>3 DEF Next

(* The invariant of the registry, however many reads there are. *)
THEOREM Invariance == Spec => []IInv
BY InitIInv, NextPreserves, PTL DEF Spec

(* Every command that a background read begins is ended exactly once, and a  *)
(* record is terminal exactly when the task of the read can write no more.   *)
THEOREM RunsAreAccounted == Spec => []RunsAccounted
<1>1. IInv => RunsAccounted
  <2> SUFFICES ASSUME IInv PROVE RunsAccounted
    OBVIOUS
  <2>1. TypeOK /\ depth = Cardinality({r \in Runs : stage[r] = "read"})
    BY DEF IInv, DepthIsReaders, Reading
  <2>2. ASSUME NEW r \in Known, status[r] \in Terminal
        PROVE  stage[r] \in {"callback", "finished"}
    <3>1. stage[r] \in Stages /\ stage[r] \notin Live /\ stage[r] # "none"
      BY <2>2, KnownAreRuns DEF IInv, TypeOK, RecordFollowsTask
    <3>2. QED
      BY <3>1 DEF Stages
  <2>3. \A r \in Known : stage[r] = "finished" => status[r] \in Terminal
    BY DEF IInv, RecordFollowsTask
  <2>4. QED
    BY <2>1, <2>2, <2>3 DEF RunsAccounted
<1>2. QED
  BY <1>1, Invariance, PTL

(* A status that was reported as final is never revised, neither by a late   *)
(* cancel nor by the end of the task nor by its done callback.               *)
THEOREM TerminalStaysFinal == Spec => TerminalIsFinal
<1> DEFINE Final == \A r \in Known : status[r] \in Terminal
                        => r \notin DOMAIN status' \/ status'[r] = status[r]
<1>1. IInv /\ [Next]_vars => [Final]_vars
  <2> SUFFICES ASSUME IInv, [Next]_vars, NEW r \in Known, status[r] \in Terminal,
                      r \in DOMAIN status'
               PROVE  status'[r] = status[r]
    OBVIOUS
  <2>1. /\ stage[r] \notin Live /\ r \in Runs /\ r <= counter /\ counter \in Nat
        /\ status \in [Known -> Statuses] /\ status[r] # "cancel_requested"
    <3>1. TypeOK
      BY DEF IInv
    <3>2. r \in 1..counter /\ counter \in 0..MaxRuns
      BY <3>1 DEF TypeOK
    <3>3. status \in [Known -> Statuses]
      BY <3>1 DEF TypeOK
    <3>4. QED
      BY <3>1, <3>2, <3>3, RunAssumption, KnownAreRuns
         DEF IInv, RecordFollowsTask, Terminal
  <2>2. CASE StartRead
    <3> DEFINE n == counter + 1
               st == [x \in Known \cup {n} |-> IF x = n THEN "queued" ELSE status[x]]
    <3>1. st \in [Known \cup {n} -> Statuses] /\ st[r] = status[r]
      BY <2>1 DEF Statuses
    <3>2. status' = Evict(st, Busy \cup {n})
      BY <2>2 DEF StartRead
    <3> HIDE DEF st
    <3>3. QED
      BY <3>1, <3>2, EvictRemoves
  <2>3. ASSUME NEW q \in Runs, Cancel(q)
        PROVE  status'[r] = status[r]
    BY <2>1, <2>3 DEF Cancel
  <2>4. ASSUME NEW q \in Runs, NEW v \in Terminal, stage[q] \in Live,
               status' = Evict([status EXCEPT ![q] = v], Busy)
        PROVE  status'[r] = status[r]
    <3> DEFINE st == [status EXCEPT ![q] = v]
    <3>1. st \in [Known -> Statuses] /\ st[r] = status[r]
      BY <2>1, <2>4, SetRecord DEF IInv, Statuses
    <3> HIDE DEF st
    <3>2. status' = Evict(st, Busy)
      BY <2>4 DEF st
    <3>3. QED
      BY <3>1, <3>2, EvictRemoves
  <2>5. ASSUME NEW q \in Runs, RunFinished(q)
        PROVE  status'[r] = status[r]
    <3> DEFINE st == IF q \in Known /\ status[q] = "cancel_requested"
                     THEN [status EXCEPT ![q] = "canceled"] ELSE status
    <3>1. st \in [Known -> Statuses] /\ st[r] = status[r]
      BY <2>1, SetRecord DEF IInv, Statuses, Terminal
    <3>2. status' = Evict(st, Busy)
      BY <2>5 DEF RunFinished
    <3> HIDE DEF st
    <3>3. QED
      BY <3>1, <3>2, EvictRemoves
  <2>6. ASSUME NEW q \in Runs, TaskStep(q)
        PROVE  status'[r] = status[r]
    <3>1. raising[q] \in Terminal
      BY DEF IInv, TypeOK
    <3>2. CASE \/ NeverRan(q) \/ QueueAtGate(q) \/ Begun(q) \/ ReadDone(q)
               \/ ReadFails(q) \/ SwallowsCancel(q)
      BY <3>2 DEF NeverRan, QueueAtGate, Begun, ReadDone, ReadFails, SwallowsCancel
    <3>3. CASE Admitted(q)
      BY <2>1, <3>3 DEF Admitted, Live
    <3>4. CASE BeginFails(q) \/ EndDone(q) \/ EndFails(q)
      BY <2>4, <3>1, <3>4 DEF BeginFails, EndDone, EndFails, Finish, Terminal, Live
    <3>5. CASE MeetsCancel(q)
      BY <2>4, <3>5 DEF MeetsCancel, Finish, Terminal, Live
    <3>6. CASE RunFinished(q)
      BY <2>5, <3>6
    <3>7. QED
      BY <2>6, <3>2, <3>3, <3>4, <3>5, <3>6 DEF TaskStep
  <2>7. CASE UNCHANGED vars
    BY <2>7 DEF vars
  <2>8. QED
    BY <2>2, <2>3, <2>6, <2>7 DEF Next
<1>2. QED
  BY <1>1, Invariance, PTL DEF Spec, TerminalIsFinal

(* A set of numbers that is not empty has a least one. *)
LEMMA LeastNumber ==
    ASSUME NEW T, T \subseteq Nat, T # {}
    PROVE  \E x \in T : \A y \in T : ~(y < x)
<1> DEFINE R == {p \in Nat \X Nat : p[1] < p[2]}
<1>1. IsWellFoundedOn(R, Nat)
  BY NatLessThanWellFounded DEF OpToRel
<1> HIDE DEF R
<1>2. \E x \in T : \A y \in T : ~(<<y, x>> \in R)
  BY <1>1, WFMin
<1>3. ASSUME NEW x \in Nat, NEW y \in Nat, y < x
      PROVE  <<y, x>> \in R
  BY <1>3 DEF R
<1>4. QED
  BY <1>2, <1>3

(* Eviction keeps a record that it may remove only when it has come down to  *)
(* the limit: the least record that it keeps has as many removed ones below  *)
(* it as there were records too many.                                        *)
LEMMA EvictBounds ==
    ASSUME NEW st, NEW D, st \in [D -> Statuses], D \subseteq Nat, IsFiniteSet(D),
           NEW busy, Cardinality(DOMAIN Evict(st, busy)) > MaxCompleted
    PROVE  \A x \in DOMAIN Evict(st, busy) : ~(st[x] \in Terminal /\ x \notin busy)
<1>1. DOMAIN st = D /\ Cardinality(D) \in Nat /\ MaxCompleted \in Nat
  BY FS_CardinalityType, RunAssumption
<1>2. Cardinality(D) > MaxCompleted
  BY <1>1 DEF Evict
<1> DEFINE excess == Cardinality(D) - MaxCompleted
           evictable == {r \in D : st[r] \in Terminal /\ r \notin busy}
           Below(r) == {s \in evictable : s < r}
           gone == {r \in evictable : Cardinality(Below(r)) < excess}
<1>3. DOMAIN Evict(st, busy) = D \ gone
  BY <1>1, <1>2 DEF Evict
<1>4. gone \subseteq evictable /\ evictable \subseteq D
  OBVIOUS
<1>5. IsFiniteSet(gone) /\ Cardinality(gone) \in Nat
  <2>1. gone \in SUBSET D
    BY <1>4
  <2> HIDE DEF gone
  <2>2. QED
    BY <2>1, FS_Subset, FS_CardinalityType
<1>6. Cardinality(D \ gone) = Cardinality(D) - Cardinality(gone)
  <2> HIDE DEF gone, evictable
  <2>1. /\ D \ gone \in SUBSET D /\ (D \ gone) \cup gone = D
        /\ (D \ gone) \cap gone = {}
    BY <1>4
  <2>2. IsFiniteSet(D \ gone) /\ Cardinality(D \ gone) \in Nat
    BY <2>1, FS_Subset, FS_CardinalityType
  <2>3. Cardinality(D) = Cardinality(D \ gone) + Cardinality(gone) - Cardinality({})
    BY <1>5, <2>1, <2>2, FS_Union
  <2>4. QED
    BY <1>5, <2>2, <2>3, FS_EmptySet
<1>7. ASSUME evictable \ gone # {} PROVE FALSE
  <2>1. PICK r \in evictable \ gone : \A y \in evictable \ gone : ~(y < r)
    BY <1>4, <1>7, LeastNumber
  <2>2. ~(Cardinality(Below(r)) < excess)
    BY <2>1
  <2>3. Below(r) \in SUBSET gone
    BY <2>1
  <2> HIDE DEF gone, evictable, Below
  <2>4. Cardinality(Below(r)) \in Nat /\ Cardinality(Below(r)) <= Cardinality(gone)
    BY <1>5, <2>3, FS_Subset, FS_CardinalityType
  <2>5. Cardinality(D \ gone) <= MaxCompleted
    BY <1>1, <1>5, <1>6, <2>2, <2>4
  <2>6. QED
    BY <1>1, <1>3, <1>5, <1>6, <2>5
<1>8. QED
  BY <1>3, <1>7

(* Beyond the maximum the registry holds only reads that are not over, or    *)
(* whose done callback is due: the eviction runs wherever a record is added  *)
(* or a read ends, so none that may go is left.                              *)
THEOREM MemoryStaysBounded == Spec => []MemoryBounded
<1>1. Init => MemoryBounded
  BY DEF Init, MemoryBounded, Known
<1>2. ASSUME IInv, NEW st, NEW D, D \subseteq Runs, NEW busy,
             st \in [D -> Statuses], status' = Evict(st, busy),
             \A x \in Known' : stage'[x] = "finished"
                                  => st[x] \in Terminal /\ x \notin busy
      PROVE  MemoryBounded'
  <2>1. IsFiniteSet(D) /\ D \subseteq Nat
    <3>1. IsFiniteSet(Runs) /\ D \in SUBSET Runs /\ Runs \subseteq Nat
      BY <1>2, RunAssumption, FS_Interval DEF Runs
    <3>2. QED
      BY <3>1, FS_Subset
  <2>2. Cardinality(Known') > MaxCompleted
           => \A x \in Known' : ~(st[x] \in Terminal /\ x \notin busy)
    BY <1>2, <2>1, EvictBounds DEF Known
  <2>3. QED
    BY <1>2, <2>2 DEF MemoryBounded
<1>3. ASSUME IInv, MemoryBounded, Known' = Known,
             \A x \in Known : stage'[x] = "finished" => stage[x] = "finished"
      PROVE  MemoryBounded'
  BY <1>3 DEF MemoryBounded
<1>4. IInv /\ MemoryBounded /\ [Next]_vars => MemoryBounded'
  <2> SUFFICES ASSUME IInv, MemoryBounded, [Next]_vars PROVE MemoryBounded'
    OBVIOUS
  <2>1. /\ TypeOK /\ Known \subseteq Runs /\ status \in [Known -> Statuses]
        /\ stage \in [Runs -> Stages]
        /\ \A x \in Known : stage[x] = "finished"
                                => status[x] \in Terminal /\ x \notin Busy
    BY KnownAreRuns DEF IInv, TypeOK, RecordFollowsTask, Busy, Live
  <2>2. CASE StartRead
    <3> DEFINE r == counter + 1
               st == [x \in Known \cup {r} |-> IF x = r THEN "queued" ELSE status[x]]
    <3>1. /\ r \in Runs /\ status' = Evict(st, Busy \cup {r})
          /\ stage' = [stage EXCEPT ![r] = "created"]
      BY <2>1, <2>2, RunAssumption DEF TypeOK, StartRead, Runs
    <3>2. st \in [Known \cup {r} -> Statuses] /\ Known \cup {r} \subseteq Runs
      BY <2>1, <3>1 DEF Statuses
    <3>3. Known' \subseteq Known \cup {r}
      <4> HIDE DEF st
      <4>1. QED
        BY <3>1, <3>2, EvictRemoves DEF Known
    <3>4. \A x \in Known' : stage'[x] = "finished"
                              => st[x] \in Terminal /\ x \notin Busy \cup {r}
      BY <2>1, <3>1, <3>3
    <3> HIDE DEF st
    <3>5. QED
      BY <1>2, <3>1, <3>2, <3>4
  <2>3. ASSUME NEW q \in Runs, Cancel(q) PROVE MemoryBounded'
    <3>1. Known' = Known
      BY <2>1, <2>3 DEF Cancel, Known
    <3>2. QED
      BY <1>3, <2>3, <3>1 DEF Cancel
  <2>4. ASSUME NEW q \in Runs, NEW outcome \in Terminal, stage[q] \in Live,
               Finish(q, outcome)
        PROVE  MemoryBounded'
    <3> DEFINE st == [status EXCEPT ![q] = outcome]
    <3>1. status' = Evict(st, Busy) /\ stage' = [stage EXCEPT ![q] = "callback"]
      BY <2>4 DEF Finish
    <3>2. /\ st \in [Known -> Statuses]
          /\ \A x \in Known : st[x] = IF x = q THEN outcome ELSE status[x]
      BY <2>1, SetRecord DEF Statuses
    <3> HIDE DEF st
    <3>3. Known' \subseteq Known
      BY <3>1, <3>2, EvictRemoves DEF Known
    <3>4. \A x \in Known' : stage'[x] = "finished"
                              => st[x] \in Terminal /\ x \notin Busy
      BY <2>1, <3>1, <3>2, <3>3
    <3>5. QED
      BY <1>2, <2>1, <3>1, <3>2, <3>4
  <2>5. ASSUME NEW q \in Runs, RunFinished(q) PROVE MemoryBounded'
    <3> DEFINE st == IF q \in Known /\ status[q] = "cancel_requested"
                     THEN [status EXCEPT ![q] = "canceled"] ELSE status
    <3>1. /\ status' = Evict(st, Busy) /\ stage[q] = "callback"
          /\ stage' = [stage EXCEPT ![q] = "finished"]
      BY <2>5 DEF RunFinished
    <3>2. q \in Known => status[q] \in Terminal \cup {"cancel_requested"}
      BY <3>1 DEF IInv, RecordFollowsTask
    <3>3. /\ st \in [Known -> Statuses]
          /\ \A x \in Known \ {q} : st[x] = status[x]
          /\ q \in Known => st[q] \in Terminal
      <4>1. "canceled" \in Statuses /\ "canceled" \in Terminal
        BY DEF Statuses, Terminal
      <4>2. QED
        BY <2>1, <3>2, <4>1, SetRecord
    <3>4. q \notin Busy
      BY <3>1 DEF Busy, Live
    <3> HIDE DEF st
    <3>5. Known' \subseteq Known
      BY <3>1, <3>3, EvictRemoves DEF Known
    <3>6. \A x \in Known' : stage'[x] = "finished"
                              => st[x] \in Terminal /\ x \notin Busy
      BY <2>1, <3>1, <3>3, <3>4, <3>5
    <3>7. QED
      BY <1>2, <2>1, <3>1, <3>3, <3>6
  <2>6. ASSUME NEW q \in Runs, TaskStep(q) PROVE MemoryBounded'
    <3>1. raising[q] \in Terminal
      BY <2>1 DEF TypeOK
    <3>2. CASE \/ NeverRan(q) \/ QueueAtGate(q) \/ Begun(q) \/ ReadDone(q)
               \/ ReadFails(q) \/ SwallowsCancel(q)
      <4>1. Known' = Known
        BY <3>2 DEF Known, NeverRan, QueueAtGate, Begun, ReadDone, ReadFails,
                    SwallowsCancel
      <4>2. \A x \in Known : stage'[x] = "finished" => stage[x] = "finished"
        BY <2>1, <3>2 DEF NeverRan, QueueAtGate, Begun, ReadDone, ReadFails,
                          SwallowsCancel, ToEnd
      <4>3. QED
        BY <1>3, <4>1, <4>2
    <3>3. CASE Admitted(q)
      <4>1. Known' = Known
        BY <2>1, <3>3 DEF Admitted, Known
      <4>2. QED
        BY <1>3, <2>1, <3>3, <4>1 DEF Admitted
    <3>4. CASE BeginFails(q) \/ EndDone(q) \/ EndFails(q)
      BY <2>4, <3>1, <3>4 DEF BeginFails, EndDone, EndFails, Terminal, Live
    <3>5. CASE MeetsCancel(q) /\ stage[q] # "read"
      BY <2>4, <3>5 DEF MeetsCancel, Terminal, Live
    <3>6. CASE MeetsCancel(q) /\ stage[q] = "read"
      <4>1. Known' = Known /\ stage' = [stage EXCEPT ![q] = "end"]
        BY <3>6 DEF MeetsCancel, ToEnd, Known
      <4>2. QED
        BY <1>3, <2>1, <4>1
    <3>7. CASE RunFinished(q)
      BY <2>5, <3>7
    <3>8. QED
      BY <2>6, <3>2, <3>3, <3>4, <3>5, <3>6, <3>7 DEF TaskStep
  <2>7. CASE UNCHANGED vars
    BY <2>7 DEF vars, MemoryBounded, Known
  <2>8. QED
    BY <2>2, <2>3, <2>6, <2>7 DEF Next
<1>5. QED
  BY <1>1, <1>4, Invariance, PTL DEF Spec

-----------------------------------------------------------------------------
(* What becomes of a cancellation.  A task that waits, or reads and cannot   *)
(* lose a request, has not met it yet as long as its record says that it is  *)
(* cancelled; at the end it knows why it is there.                           *)
CancelPending ==
    \A r \in Known : status[r] = "cancel_requested" =>
        /\ stage[r] \in {"created", "queued"} => r \in asked
        /\ ~LossyCancel => /\ stage[r] \in {"begin", "read"} => r \in asked
                           /\ stage[r] = "end" /\ r \notin asked => raising[r] # "succeeded"

(* A run that has succeeded has its result, and none succeeds without one.   *)
ResultsKept ==
    /\ \A r \in Runs : stage[r] = "end" /\ raising[r] = "succeeded" => r \in result
    /\ \A r \in Known : status[r] = "succeeded" => r \in result

(* A request to cancel is never taken back: the run does not become running, *)
(* and it succeeds only if the request was swallowed; one that still waits   *)
(* to be admitted begins no command.                                         *)
CancelHolds(r) ==
    status[r] = "cancel_requested" =>
        /\ stage[r] \in {"created", "queued"} => stage'[r] \in {stage[r], "callback"}
        /\ r \in DOMAIN status' =>
              \/ status'[r] \in {"cancel_requested", "canceled", "failed"}
              \/ LossyCancel /\ status'[r] = "succeeded" /\ r \in result
CancelsHold == [][\A r \in Known : CancelHolds(r)]_vars

(* What a task has still to do, with the request that it has still to meet.  *)
TaskLeft(r) ==
    LET place == CASE stage[r] = "created" -> 6
                   [] stage[r] = "queued" -> 5
                   [] stage[r] = "begin" -> 4
                   [] stage[r] = "read" -> 3
                   [] stage[r] = "end" -> 2
                   [] stage[r] = "callback" -> 1
                   [] OTHER -> 0
    IN  2 * place + (IF r \in asked THEN 1 ELSE 0)

(* Every step of a task brings it nearer to its end.  Nobody else moves it:  *)
(* it is created once, and a request to cancel is one more thing to meet.    *)
TaskShortens(r) ==
    IF TaskStep(r) THEN TaskLeft(r)' < TaskLeft(r)
    ELSE \/ TaskLeft(r)' = TaskLeft(r) /\ stage'[r] = stage[r]
         \/ stage[r] = "none" /\ StartRead
         \/ stage[r] \in Live /\ Cancel(r) /\ TaskLeft(r)' = TaskLeft(r) + 1
TasksWindDown == [][\A r \in Runs : TaskShortens(r)]_vars

-----------------------------------------------------------------------------
(* What a step of a task, or a request to cancel it, does to its own run ... *)
Says(r, v) == r \in Known' => status'[r] = v
Kept(r) == raising'[r] = raising[r] /\ (r \in result' <=> r \in result)
Goes(r, from, to) == stage[r] \in from /\ stage'[r] = to

Moved(r) ==
    \/ Goes(r, {"created"}, "callback") /\ r \in asked /\ r \notin asked'
          /\ Says(r, status[r]) /\ Kept(r)
    \/ Goes(r, {"created"}, "queued") /\ r \notin asked /\ r \notin asked'
          /\ Says(r, status[r]) /\ Kept(r)
    \/ Goes(r, {"created", "queued"}, "begin") /\ r \notin asked /\ r \notin asked'
          /\ Says(r, "running") /\ Kept(r)
    \/ Goes(r, {"begin"}, "read") /\ r \notin asked /\ r \notin asked'
          /\ Says(r, status[r]) /\ Kept(r)
    \/ Goes(r, {"read"}, "end") /\ r \notin asked' /\ Says(r, status[r])
          /\ (r \in result => r \in result')
          /\ \/ r \notin asked /\ raising'[r] = "succeeded" /\ r \in result'
             \/ r \notin asked /\ raising'[r] = "failed"
             \/ r \in asked /\ raising'[r] = "canceled"
    \/ Goes(r, {"begin", "end"}, "callback") /\ r \notin asked /\ r \notin asked'
          /\ Says(r, "failed") /\ Kept(r)
    \/ Goes(r, {"end"}, "callback") /\ r \notin asked /\ r \notin asked'
          /\ Says(r, raising[r]) /\ Kept(r)
    \/ Goes(r, {"queued", "begin", "end"}, "callback") /\ r \in asked /\ r \notin asked'
          /\ Says(r, "canceled") /\ Kept(r)
    \/ stage[r] \in {"begin", "read", "end"} /\ stage'[r] = stage[r] /\ LossyCancel
          /\ r \in asked /\ r \notin asked' /\ Says(r, status[r]) /\ Kept(r)
    \/ Goes(r, {"callback"}, "finished") /\ (r \in asked' <=> r \in asked)
          /\ Says(r, IF r \in Known /\ status[r] = "cancel_requested"
                     THEN "canceled" ELSE status[r]) /\ Kept(r)

Asked(r) ==
    /\ stage[r] \in Live /\ stage'[r] = stage[r] /\ r \in asked'
    /\ Says(r, "cancel_requested") /\ Kept(r)

(* ... and to the others: nothing, but that their records may be evicted.    *)
OthersKept(r) ==
    /\ Known' \subseteq Known
    /\ \A x \in Runs \ {r} : /\ stage'[x] = stage[x] /\ (x \in asked' <=> x \in asked)
                             /\ Kept(x) /\ Says(x, status[x])

LEMMA EvictSays ==
    ASSUME IInv, NEW r \in Runs, NEW v \in Statuses, NEW busy,
           status' = Evict([status EXCEPT ![r] = v], busy)
    PROVE  Known' \subseteq Known /\ Says(r, v) /\ \A x \in Runs \ {r} : Says(x, status[x])
<1> DEFINE st == [status EXCEPT ![r] = v]
<1>1. /\ st \in [Known -> Statuses]
      /\ \A x \in Known : st[x] = IF x = r THEN v ELSE status[x]
  BY SetRecord DEF IInv
<1> HIDE DEF st
<1>2. status' = Evict(st, busy)
  BY DEF st
<1>3. /\ Known' \subseteq Known
      /\ \A x \in Known' : status'[x] = st[x]
  BY <1>1, <1>2, EvictRemoves DEF Known
<1>4. QED
  BY <1>1, <1>3 DEF Says

LEMMA FinishMoves ==
    ASSUME IInv, NEW r \in Runs, NEW v \in Terminal, Finish(r, v), UNCHANGED <<result, raising>>
    PROVE  /\ stage'[r] = "callback" /\ r \notin asked' /\ Says(r, v) /\ Kept(r)
           /\ OthersKept(r)
<1>1. /\ stage' = [stage EXCEPT ![r] = "callback"] /\ asked' = asked \ {r}
      /\ status' = Evict([status EXCEPT ![r] = v], Busy)
  BY DEF Finish
<1>2. stage'[r] = "callback" /\ \A x \in Runs \ {r} : stage'[x] = stage[x]
  BY <1>1 DEF IInv, TypeOK
<1>3. v \in Statuses
  BY DEF Statuses
<1>4. Known' \subseteq Known /\ Says(r, v) /\ \A x \in Runs \ {r} : Says(x, status[x])
  BY <1>1, <1>3, EvictSays
<1>5. QED
  BY <1>1, <1>2, <1>4 DEF OthersKept, Kept

(* Steps that leave the record as it is, or set it. *)
LEMMA PlainMoves ==
    ASSUME IInv, NEW r \in Runs, NEW s, stage' = [stage EXCEPT ![r] = s],
           \/ status' = status
           \/ \E v : status' = [status EXCEPT ![r] = v]
    PROVE  /\ stage'[r] = s /\ \A x \in Runs \ {r} : stage'[x] = stage[x]
           /\ Known' = Known /\ \A x \in Runs \ {r} : Says(x, status[x])
<1>1. stage'[r] = s /\ \A x \in Runs \ {r} : stage'[x] = stage[x]
  BY DEF IInv, TypeOK
<1>2. status \in [Known -> Statuses]
  BY DEF IInv, TypeOK
<1>3. Known' = Known /\ \A x \in Runs \ {r} : Says(x, status[x])
  BY <1>2 DEF Says, Known
<1>4. QED
  BY <1>1, <1>3

LEMMA CancelMoves ==
    ASSUME IInv, NEW r \in Runs, Cancel(r)
    PROVE  Asked(r) /\ OthersKept(r)
<1>1. /\ r \in Known /\ stage[r] \in Live /\ asked' = asked \cup {r}
      /\ status' = [status EXCEPT ![r] = "cancel_requested"]
      /\ UNCHANGED <<result, stage, raising>>
  BY DEF Cancel
<1>2. status \in [Known -> Statuses]
  BY DEF IInv, TypeOK
<1>3. Known' = Known /\ Says(r, "cancel_requested") /\ \A x \in Runs \ {r} : Says(x, status[x])
  BY <1>1, <1>2 DEF Says, Known
<1>4. QED
  BY <1>1, <1>3 DEF Asked, OthersKept, Kept

LEMMA TaskMoves ==
    ASSUME IInv, NEW r \in Runs, TaskStep(r)
    PROVE  Moved(r) /\ OthersKept(r)
<1>1. raising[r] \in Terminal /\ stage \in [Runs -> Stages] /\ status \in [Known -> Statuses]
      /\ raising \in [Runs -> Terminal]
  BY DEF IInv, TypeOK
<1>2. CASE NeverRan(r)
  <2>1. /\ stage[r] = "created" /\ r \in asked /\ asked' = asked \ {r}
        /\ stage' = [stage EXCEPT ![r] = "callback"] /\ UNCHANGED <<status, result, raising>>
    BY <1>2 DEF NeverRan
  <2>2. QED
    BY <2>1, PlainMoves DEF Moved, Goes, OthersKept, Kept, Says
<1>3. CASE QueueAtGate(r)
  <2>1. /\ stage[r] = "created" /\ r \notin asked
        /\ stage' = [stage EXCEPT ![r] = "queued"] /\ UNCHANGED <<status, result, raising, asked>>
    BY <1>3 DEF QueueAtGate
  <2>2. QED
    BY <2>1, PlainMoves DEF Moved, Goes, OthersKept, Kept, Says
<1>4. CASE Admitted(r)
  <2>1. /\ stage[r] \in {"created", "queued"} /\ r \notin asked
        /\ status' = [status EXCEPT ![r] = "running"]
        /\ stage' = [stage EXCEPT ![r] = "begin"] /\ UNCHANGED <<result, raising, asked>>
    BY <1>4 DEF Admitted
  <2>2. Says(r, "running")
    BY <1>1, <2>1 DEF Says, Known
  <2>3. QED
    BY <2>1, <2>2, PlainMoves DEF Moved, Goes, OthersKept, Kept
<1>5. CASE Begun(r)
  <2>1. /\ stage[r] = "begin" /\ r \notin asked
        /\ stage' = [stage EXCEPT ![r] = "read"] /\ UNCHANGED <<status, result, raising, asked>>
    BY <1>5 DEF Begun
  <2>2. QED
    BY <2>1, PlainMoves DEF Moved, Goes, OthersKept, Kept, Says
<1>6. CASE BeginFails(r) \/ EndFails(r)
  <2>1. /\ stage[r] \in {"begin", "end"} /\ r \notin asked /\ Finish(r, "failed")
        /\ UNCHANGED <<result, raising>> /\ "failed" \in Terminal
    BY <1>6 DEF BeginFails, EndFails, Terminal
  <2>2. QED
    BY <2>1, FinishMoves DEF Moved, Goes
<1>7. CASE EndDone(r)
  <2>1. /\ stage[r] = "end" /\ r \notin asked /\ Finish(r, raising[r])
        /\ UNCHANGED <<result, raising>>
    BY <1>7 DEF EndDone
  <2>2. QED
    BY <1>1, <2>1, FinishMoves DEF Moved, Goes
<1>8. CASE ReadDone(r) \/ ReadFails(r) \/ (MeetsCancel(r) /\ stage[r] = "read")
  <2>1. PICK v \in {"succeeded", "failed", "canceled"} :
           /\ stage[r] = "read" /\ stage' = [stage EXCEPT ![r] = "end"]
           /\ raising' = [raising EXCEPT ![r] = v] /\ status' = status
           /\ \/ r \notin asked /\ asked' = asked /\ v = "succeeded" /\ result' = result \cup {r}
              \/ r \notin asked /\ asked' = asked /\ v = "failed" /\ result' = result
              \/ r \in asked /\ asked' = asked \ {r} /\ v = "canceled" /\ result' = result
    BY <1>8 DEF ReadDone, ReadFails, MeetsCancel, ToEnd
  <2>2. raising'[r] = v /\ \A x \in Runs \ {r} : raising'[x] = raising[x]
    BY <1>1, <2>1
  <2>3. /\ stage'[r] = "end" /\ \A x \in Runs \ {r} : stage'[x] = stage[x]
        /\ Known' = Known /\ \A x \in Runs \ {r} : Says(x, status[x])
    BY <2>1, PlainMoves
  <2>4. OthersKept(r)
    BY <2>1, <2>2, <2>3 DEF OthersKept, Kept
  <2>5. Moved(r)
    BY <2>1, <2>2, <2>3 DEF Moved, Goes, Says
  <2>6. QED
    BY <2>4, <2>5
<1>9. CASE MeetsCancel(r) /\ stage[r] # "read"
  <2>1. /\ stage[r] \in {"queued", "begin", "end"} /\ r \in asked /\ Finish(r, "canceled")
        /\ UNCHANGED <<result, raising>> /\ "canceled" \in Terminal
    BY <1>9 DEF MeetsCancel, Terminal
  <2>2. QED
    BY <2>1, FinishMoves DEF Moved, Goes
<1>10. CASE SwallowsCancel(r)
  BY <1>10 DEF SwallowsCancel, Moved, OthersKept, Kept, Says, Known
<1>11. CASE RunFinished(r)
  <2> DEFINE v == IF r \in Known /\ status[r] = "cancel_requested" THEN "canceled" ELSE status[r]
             st == IF r \in Known /\ status[r] = "cancel_requested"
                   THEN [status EXCEPT ![r] = "canceled"] ELSE status
  <2>1. /\ stage[r] = "callback" /\ stage' = [stage EXCEPT ![r] = "finished"]
        /\ status' = Evict(st, Busy) /\ UNCHANGED <<result, raising, asked>>
    BY <1>11 DEF RunFinished
  <2>2. st \in [Known -> Statuses] /\ \A x \in Known : st[x] = IF x = r THEN v ELSE status[x]
    BY <1>1, SetRecord DEF IInv, Statuses, Terminal
  <2>3. stage'[r] = "finished" /\ \A x \in Runs \ {r} : stage'[x] = stage[x]
    BY <1>1, <2>1
  <2> HIDE DEF v, st
  <2>4. /\ Known' \subseteq Known
        /\ \A x \in Known' : status'[x] = st[x]
    BY <2>1, <2>2, EvictRemoves DEF Known
  <2>5. Says(r, v) /\ \A x \in Runs \ {r} : Says(x, status[x])
    BY <2>2, <2>4 DEF Says
  <2>6. QED
    BY <2>1, <2>3, <2>4, <2>5 DEF Moved, Goes, OthersKept, Kept, v
<1>12. QED
  BY <1>2, <1>3, <1>4, <1>5, <1>6, <1>7, <1>8, <1>9, <1>10, <1>11 DEF TaskStep

(* A new run has no task yet, is nobody's to cancel, and may cost others     *)
(* their records.                                                            *)
LEMMA StartMoves ==
    ASSUME IInv, StartRead
    PROVE  \E r \in Runs :
              /\ stage[r] = "none" /\ stage'[r] = "created" /\ r \notin Known
              /\ r \notin asked /\ r \notin asked' /\ Says(r, "queued") /\ Kept(r)
              /\ Known' \subseteq Known \cup {r}
              /\ \A x \in Runs \ {r} : /\ stage'[x] = stage[x] /\ (x \in asked' <=> x \in asked)
                                       /\ Kept(x) /\ Says(x, status[x])
<1> DEFINE r == counter + 1
           st == [x \in Known \cup {r} |-> IF x = r THEN "queued" ELSE status[x]]
<1>1. /\ counter \in 0..MaxRuns /\ r \in Runs
      /\ status' = Evict(st, Busy \cup {r})
      /\ stage' = [stage EXCEPT ![r] = "created"]
      /\ UNCHANGED <<result, asked, raising>>
  BY RunAssumption DEF IInv, TypeOK, StartRead, Runs
<1>2. st \in [Known \cup {r} -> Statuses]
  BY DEF IInv, TypeOK, Statuses
<1>3. stage'[r] = "created" /\ \A x \in Runs \ {r} : stage'[x] = stage[x]
  BY <1>1 DEF IInv, TypeOK
<1>4. \A x \in Known \cup {r} : st[x] = IF x = r THEN "queued" ELSE status[x]
  OBVIOUS
<1>5. r \in Nat /\ r > counter
  BY <1>1
<1>6. stage[r] = "none" /\ r \notin Known
  <2>1. stage[r] = "none"
    BY <1>1, <1>5 DEF IInv, RecordFollowsTask
  <2>2. QED
    BY <2>1 DEF IInv, RecordFollowsTask
<1>7. r \notin asked
  BY <1>6 DEF IInv, RecordFollowsTask, Live
<1> HIDE DEF st, r
<1>8. /\ Known' \subseteq Known \cup {r}
      /\ \A x \in Known' : status'[x] = st[x]
  BY <1>1, <1>2, EvictRemoves DEF Known
<1>9. Says(r, "queued") /\ \A x \in Runs \ {r} : Says(x, status[x])
  BY <1>4, <1>8 DEF Says
<1>10. QED
  BY <1>1, <1>3, <1>6, <1>7, <1>8, <1>9 DEF Kept

-----------------------------------------------------------------------------
CancelInv == IInv /\ CancelPending /\ ResultsKept

(* The parts of the invariant, run by run.                                   *)
PendingOf(r) ==
    (r \in Known /\ status[r] = "cancel_requested") =>
        /\ stage[r] \in {"created", "queued"} => r \in asked
        /\ ~LossyCancel => /\ stage[r] \in {"begin", "read"} => r \in asked
                           /\ stage[r] = "end" /\ r \notin asked => raising[r] # "succeeded"
ResultOf(r) ==
    /\ stage[r] = "end" /\ raising[r] = "succeeded" => r \in result
    /\ (r \in Known /\ status[r] = "succeeded") => r \in result

LEMMA RunByRun ==
    ASSUME TypeOK
    PROVE  CancelPending /\ ResultsKept <=> \A r \in Runs : PendingOf(r) /\ ResultOf(r)
BY KnownAreRuns DEF CancelPending, ResultsKept, PendingOf, ResultOf

LEMMA OthersPending ==
    ASSUME NEW x, PendingOf(x), ResultOf(x), x \in Known' => x \in Known,
           stage'[x] = stage[x], x \in asked' <=> x \in asked, Kept(x), Says(x, status[x])
    PROVE  PendingOf(x)' /\ ResultOf(x)'
BY DEF PendingOf, ResultOf, Kept, Says

LEMMA MovedPending ==
    ASSUME CancelInv, NEW r \in Runs, Moved(r) \/ Asked(r), Known' \subseteq Known
    PROVE  PendingOf(r)' /\ ResultOf(r)'
<1>1. PendingOf(r) /\ ResultOf(r)
  BY RunByRun DEF CancelInv, IInv
<1>2. r \in Known => (stage[r] \in Live => status[r] \notin Terminal)
  BY DEF CancelInv, IInv, RecordFollowsTask
<1>3. CASE Asked(r)
  BY <1>1, <1>3 DEF Asked, PendingOf, ResultOf, Says, Kept
<1>4. CASE Moved(r)
  <2>1. PendingOf(r)'
    BY <1>1, <1>4 DEF Moved, Goes, PendingOf, Says, Kept
  <2>2. ResultOf(r)'
    BY <1>1, <1>2, <1>4 DEF Moved, Goes, ResultOf, Says, Kept, Live
  <2>3. QED
    BY <2>1, <2>2
<1>5. QED
  BY <1>3, <1>4

LEMMA CancelInvKept == CancelInv /\ [Next]_vars => CancelInv'
<1> SUFFICES ASSUME CancelInv, [Next]_vars PROVE CancelInv'
  OBVIOUS
<1>1. IInv' /\ TypeOK'
  BY NextPreserves DEF CancelInv, IInv
<1>2. \A r \in Runs : PendingOf(r) /\ ResultOf(r)
  BY RunByRun DEF CancelInv, IInv
<1>3. (\A r \in Runs : PendingOf(r)' /\ ResultOf(r)') => CancelInv'
  <2>1. Known' \subseteq Runs
    <3>1. counter' \in 0..MaxRuns /\ Known' \subseteq 1..counter'
      BY <1>1 DEF TypeOK
    <3>2. QED
      BY <3>1, RunAssumption DEF Runs
  <2>2. QED
    BY <1>1, <2>1 DEF CancelInv, CancelPending, ResultsKept, PendingOf, ResultOf
<1>4. CASE StartRead
  <2>1. PICK r \in Runs :
              /\ stage[r] = "none" /\ stage'[r] = "created" /\ r \notin Known
              /\ r \notin asked /\ r \notin asked' /\ Says(r, "queued") /\ Kept(r)
              /\ Known' \subseteq Known \cup {r}
              /\ \A x \in Runs \ {r} : /\ stage'[x] = stage[x] /\ (x \in asked' <=> x \in asked)
                                       /\ Kept(x) /\ Says(x, status[x])
    BY <1>4, StartMoves DEF CancelInv
  <2>2. PendingOf(r)' /\ ResultOf(r)'
    BY <2>1 DEF PendingOf, ResultOf, Says
  <2>3. \A x \in Runs \ {r} : PendingOf(x)' /\ ResultOf(x)'
    BY <1>2, <2>1, OthersPending
  <2>4. QED
    BY <1>1, <1>3, <2>2, <2>3
<1>5. ASSUME NEW r \in Runs, Cancel(r) \/ TaskStep(r) PROVE CancelInv'
  <2>1. (Moved(r) \/ Asked(r)) /\ OthersKept(r)
    BY <1>5, CancelMoves, TaskMoves DEF CancelInv
  <2>2. PendingOf(r)' /\ ResultOf(r)'
    BY <2>1, MovedPending DEF OthersKept
  <2>3. \A x \in Runs \ {r} : PendingOf(x)' /\ ResultOf(x)'
    BY <1>2, <2>1, OthersPending DEF OthersKept
  <2>4. QED
    BY <1>1, <1>3, <2>2, <2>3
<1>6. CASE UNCHANGED vars
  BY <1>1, <1>6 DEF vars, CancelInv, CancelPending, ResultsKept, Known
<1>7. QED
  BY <1>4, <1>5, <1>6 DEF Next

LEMMA CancelInvariance == Spec => []CancelInv
<1>1. Init => CancelInv
  <2> SUFFICES ASSUME Init PROVE CancelInv
    OBVIOUS
  <2>1. Known = {}
    BY DEF Init, Known
  <2>2. QED
    BY <2>1, InitIInv DEF Init, CancelInv, CancelPending, ResultsKept
<1>2. QED
  BY <1>1, CancelInvKept, PTL DEF Spec

(* _read_in_scope: what the registry calls succeeded has the result of the   *)
(* read, whatever was cancelled or failed after it; and a run that says that *)
(* it is cancelled while it waits has not missed the request.                *)
THEOREM ResultsAreKept == Spec => [](ResultsKept /\ CancelPending)
<1>1. CancelInv => ResultsKept /\ CancelPending
  BY DEF CancelInv
<1>2. QED
  BY <1>1, CancelInvariance, PTL

(* cancel: a request is not taken back by anything that the task does        *)
(* afterwards; where asyncio loses none, a cancelled run does not succeed.   *)
THEOREM CancelsAreKept == Spec => CancelsHold
<1>1. CancelInv /\ [Next]_vars => [\A r \in Known : CancelHolds(r)]_vars
  <2> SUFFICES ASSUME CancelInv, [Next]_vars, NEW r \in Known, status[r] = "cancel_requested"
               PROVE  CancelHolds(r)
    BY DEF CancelHolds
  <2>1. r \in Runs /\ PendingOf(r) /\ ResultOf(r) /\ Known' = DOMAIN status'
    BY KnownAreRuns, RunByRun DEF CancelInv, IInv, Known
  <2>2. CASE stage'[r] = stage[r] /\ Says(r, status[r])
    BY <2>1, <2>2 DEF CancelHolds, Says
  <2>3. CASE Asked(r)
    BY <2>1, <2>3 DEF CancelHolds, Says, Asked
  <2>4. CASE Moved(r)
    <3>1. raising[r] \in {"succeeded", "failed", "canceled"}
      BY <2>1 DEF CancelInv, IInv, TypeOK, Terminal
    <3>2. QED
      BY <2>1, <2>4, <3>1 DEF CancelHolds, Says, Moved, Goes, PendingOf, ResultOf
  <2>5. CASE StartRead
    BY <2>1, <2>2, <2>5, StartMoves DEF CancelInv
  <2>6. ASSUME NEW q \in Runs, Cancel(q) \/ TaskStep(q) PROVE CancelHolds(r)
    <3>1. (Moved(q) \/ Asked(q)) /\ OthersKept(q)
      BY <2>6, CancelMoves, TaskMoves DEF CancelInv
    <3>2. QED
      BY <2>1, <2>2, <2>3, <2>4, <3>1 DEF OthersKept
  <2>7. CASE UNCHANGED vars
    BY <2>2, <2>7 DEF vars, Says
  <2>8. QED
    BY <2>5, <2>6, <2>7 DEF Next
<1>2. QED
  BY <1>1, CancelInvariance, PTL DEF Spec, CancelsHold

LEMMA TaskLeftAt ==
    ASSUME NEW r
    PROVE  LET asks == IF r \in asked THEN 1 ELSE 0
           IN  /\ stage[r] = "created" => TaskLeft(r) = 12 + asks
               /\ stage[r] = "queued" => TaskLeft(r) = 10 + asks
               /\ stage[r] = "begin" => TaskLeft(r) = 8 + asks
               /\ stage[r] = "read" => TaskLeft(r) = 6 + asks
               /\ stage[r] = "end" => TaskLeft(r) = 4 + asks
               /\ stage[r] = "callback" => TaskLeft(r) = 2 + asks
               /\ stage[r] = "finished" => TaskLeft(r) = asks
BY DEF TaskLeft

LEMMA TaskLeftNext ==
    ASSUME NEW r
    PROVE  LET asks == IF r \in asked' THEN 1 ELSE 0
           IN  /\ stage'[r] = "created" => TaskLeft(r)' = 12 + asks
               /\ stage'[r] = "queued" => TaskLeft(r)' = 10 + asks
               /\ stage'[r] = "begin" => TaskLeft(r)' = 8 + asks
               /\ stage'[r] = "read" => TaskLeft(r)' = 6 + asks
               /\ stage'[r] = "end" => TaskLeft(r)' = 4 + asks
               /\ stage'[r] = "callback" => TaskLeft(r)' = 2 + asks
               /\ stage'[r] = "finished" => TaskLeft(r)' = asks
BY DEF TaskLeft

(* The tasks of start_read come to an end: each step of a task brings it     *)
(* nearer to that, and nothing that other tasks, users or the eviction of    *)
(* records do sets it back.                                                  *)
THEOREM ReadsWindDown == Spec => TasksWindDown
<1>1. CancelInv /\ [Next]_vars => [\A r \in Runs : TaskShortens(r)]_vars
  <2> SUFFICES ASSUME CancelInv, [Next]_vars, NEW r \in Runs PROVE TaskShortens(r)
    OBVIOUS
  <2>1. CASE TaskStep(r)
    <3>1. Moved(r)
      BY <2>1, TaskMoves DEF CancelInv
    <3>2. TaskLeft(r)' < TaskLeft(r)
      BY <3>1, TaskLeftAt, TaskLeftNext DEF Moved, Goes
    <3>3. QED
      BY <2>1, <3>2 DEF TaskShortens
  <2>2. ASSUME ~TaskStep(r), stage'[r] = stage[r], r \in asked' <=> r \in asked
        PROVE  TaskShortens(r)
    BY <2>2 DEF TaskShortens, TaskLeft
  <2>3. ASSUME ~TaskStep(r), Cancel(r) PROVE TaskShortens(r)
    <3>1. stage[r] \in Live /\ stage'[r] = stage[r] /\ r \in asked'
      BY <2>3, CancelMoves DEF CancelInv, Asked
    <3>2. CASE r \in asked
      BY <2>2, <2>3, <3>1, <3>2
    <3>3. CASE r \notin asked
      <4>1. TaskLeft(r)' = TaskLeft(r) + 1
        BY <3>1, <3>3, TaskLeftAt, TaskLeftNext DEF Live
      <4>2. QED
        BY <2>3, <3>1, <4>1 DEF TaskShortens
    <3>4. QED
      BY <3>2, <3>3
  <2>4. ASSUME ~TaskStep(r), StartRead PROVE TaskShortens(r)
    <3>1. stage[r] = "none" \/ (stage'[r] = stage[r] /\ (r \in asked' <=> r \in asked))
      BY <2>4, StartMoves DEF CancelInv
    <3>2. QED
      BY <2>2, <2>4, <3>1 DEF TaskShortens
  <2>5. ASSUME ~TaskStep(r), NEW q \in Runs \ {r}, Cancel(q) \/ TaskStep(q)
        PROVE  TaskShortens(r)
    <3>1. OthersKept(q)
      BY <2>5, CancelMoves, TaskMoves DEF CancelInv
    <3>2. QED
      BY <2>2, <2>5, <3>1 DEF OthersKept
  <2>6. CASE UNCHANGED vars
    <3>1. stage' = stage /\ asked' = asked
      BY <2>6 DEF vars
    <3>2. QED
      BY <2>1, <2>2, <3>1
  <2>7. QED
    BY <2>1, <2>3, <2>4, <2>5, <2>6 DEF Next
<1>2. QED
  BY <1>1, CancelInvariance, PTL DEF Spec, TasksWindDown
=============================================================================
