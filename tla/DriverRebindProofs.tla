------------------------- MODULE DriverRebindProofs -------------------------
(* Proofs about DriverRebind, for any number of tasks and pages.             *)
(*                                                                           *)
(* None of the properties is inductive.  They rest on the lock: whoever is   *)
(* in it is in the queue, and whoever is past it is the head, so there is    *)
(* one snapshot at a time.  Then what is registered and not opened beside    *)
(* the snapshot is in it; and what the snapshot has and is still registered  *)
(* is reopened, or still to be.                                              *)
EXTENDS DriverRebind, FiniteSetTheorems, SequenceTheorems, TLAPS

InLock == {"queued", "locked", "replayed"} \cup Held
Inside == InLock \ {"queued"}
Snapped == Held \cup {"replayed"}

(* The lock: who is at it waits in the queue, who is past it is the head,    *)
(* and only a read that falls back goes on at "retry".                       *)
LockOf(j, a) ==
    /\ j.at \in InLock => j.target \in Backends /\ \E i \in DOMAIN queue : queue[i] = a
    /\ j.at \in Inside => queue[1] = a
    /\ j.at \in Replaying => driver = j.target
    /\ j.then = "retry" => j.at \in InLock

LockInv == \A a \in Actors : LockOf(job[a], a)

(* A page that is being opened is nobody else's yet. *)
Opening(a) == job[a].at = "body" /\ job[a].kind = "open"

OpeningInv ==
    \A a \in Actors : Opening(a) =>
        /\ job[a].page \in Pages \ tabs /\ job[a].on \in Backends
        /\ \A b \in Actors : /\ job[a].page \notin job[b].snap
                             /\ Opening(b) /\ job[a].page = job[b].page => a = b

(* The commands that have begun and not ended. *)
Counted(j) == j.at \in Begun \/ (j.at \in InLock /\ j.then = "retry")
Commands == {t \in Tasks : Counted(job[t])}
DepthInv == depth = Cardinality(Commands)

(* The pages, while a snapshot is being reopened and while none is.          *)
SnapInv ==
    \A a \in Actors :
        /\ job[a].at \in Snapped => tabs \ stray \subseteq job[a].snap
        /\ job[a].at \in Replaying
              => (job[a].snap \ job[a].todo) \cap tabs \subseteq live[driver] \cup lost
        /\ job[a].at \in {"replayed", "settling"} => job[a].todo = {}

RestInv ==
    (~spoilt /\ \A a \in Actors : job[a].at \notin Snapped) =>
        /\ driver # "none" => tabs \ stray \subseteq live[driver] \cup lost
        /\ driver = "none" => \A t \in Tasks : job[t].at \notin {"body", "retry"}

IInv == TypeOK /\ LockInv /\ OpeningInv /\ DepthInv /\ SnapInv /\ RestInv

-----------------------------------------------------------------------------
(* What a step of one actor does to the jobs.  The first command also sets   *)
(* the watcher going.                                                        *)
Others(a) ==
    \A b \in Actors \ {a} :
        job'[b] = job[b] \/ (job[b] = Unborn /\ job'[b] = Watching)

Moves(a) == job' \in [Actors -> JobType] /\ Others(a)

LEMMA Labels ==
    /\ InLock = {"queued", "locked", "replayed", "stopping", "starting", "replay", "settling"}
    /\ Inside = {"locked", "replayed", "stopping", "starting", "replay", "settling"}
    /\ Snapped = {"replayed", "stopping", "starting", "replay", "settling"}
    /\ Replaying = {"replay", "replayed", "settling"}
BY DEF InLock, Inside, Snapped, Replaying, Held

LEMMA JobFields ==
    ASSUME TypeOK, NEW a \in Actors
    PROVE  /\ job[a] \in JobType
           /\ job[a].at \in Straight \cup Awaits /\ job[a].kind \in AllKinds \cup {None}
           /\ job[a].page \in Pages \cup {None} /\ job[a].on \in Backends \cup {"none"}
           /\ job[a].target \in Backends \cup {"none"}
           /\ job[a].snap \subseteq Pages /\ job[a].todo \subseteq Pages
           /\ job[a].then \in {"idle", "watching", "retry", "rebuild", "preflight",
                               "apply", "enter"}
BY DEF TypeOK, JobType

LEMMA SetJob ==
    ASSUME TypeOK, NEW a \in Actors, NEW j \in JobType, job' = [job EXCEPT ![a] = j]
    PROVE  Moves(a) /\ job'[a] = j
BY DEF TypeOK, Moves, Others

LEMMA GoToMoves ==
    ASSUME TypeOK, NEW a \in Actors, NEW w \in Straight \cup Awaits, GoTo(a, w)
    PROVE  /\ Moves(a) /\ job'[a] = [job[a] EXCEPT !.at = w]
           /\ job'[a].at = w
           /\ job'[a].kind = job[a].kind /\ job'[a].page = job[a].page
           /\ job'[a].on = job[a].on /\ job'[a].target = job[a].target
           /\ job'[a].snap = job[a].snap /\ job'[a].todo = job[a].todo
           /\ job'[a].then = job[a].then
<1>1. job' = [job EXCEPT ![a] = [job[a] EXCEPT !.at = w]]
  BY DEF GoTo
<1>2. [job[a] EXCEPT !.at = w] \in JobType
  BY JobFields DEF JobType
<1>3. Moves(a) /\ job'[a] = [job[a] EXCEPT !.at = w]
  BY <1>1, <1>2, SetJob
<1>4. QED
  BY <1>3, JobFields DEF JobType

(* Where a caller goes on, and where its exception leaves it. *)
LEMMA LeavesLock ==
    ASSUME NEW j \in JobType
    PROVE  /\ Continued(j) \in JobType /\ Failed(j) \in JobType /\ Unwound(j) \in JobType
           /\ Continued(j).at \notin InLock /\ Failed(j).at \notin InLock
           /\ Unwound(j).at \notin InLock
           /\ Continued(j).then = "idle" /\ Failed(j).then = "idle" /\ Unwound(j).then = "idle"
           /\ Continued(j).snap = {} /\ Failed(j).snap = {} /\ Unwound(j).snap = {}
           /\ Continued(j).at # "body" /\ Failed(j).at \notin {"body", "retry"}
           /\ Unwound(j).at \notin {"body", "retry"}
           /\ Continued(j).at \in Begun <=> j.then = "retry"
           /\ Failed(j).at \in Begun <=> j.then = "retry"
           /\ Unwound(j).at \in Begun <=> (j.at \in {"body", "retry"} \/ j.then = "retry")
<1> USE DEF Straight, Awaits, Held, Begun
<1>1. /\ NoJob \in JobType
      /\ NoJob.at = "idle" /\ NoJob.then = "idle" /\ NoJob.snap = {}
  BY DEF JobType, NoJob, AllKinds, Backends
<1>2. ASSUME NEW r \in JobType, NEW k \in AllKinds \cup {None}
      PROVE  /\ [r EXCEPT !.kind = k] \in JobType
             /\ [r EXCEPT !.kind = k].at = r.at
             /\ [r EXCEPT !.kind = k].then = r.then
             /\ [r EXCEPT !.kind = k].snap = r.snap
  BY DEF JobType
<1>3. ASSUME NEW r \in JobType, NEW w \in Straight \cup Awaits
      PROVE  /\ [r EXCEPT !.at = w] \in JobType
             /\ [r EXCEPT !.at = w].at = w
             /\ [r EXCEPT !.at = w].then = r.then
             /\ [r EXCEPT !.at = w].snap = r.snap
  BY DEF JobType
<1> DEFINE At(w) == [Forgetting(j) EXCEPT !.at = w]
           Out(w) == [NoJob EXCEPT !.at = w, !.kind = j.kind]
<1>4. j.at \in Straight \cup Awaits /\ j.kind \in AllKinds \cup {None}
  BY DEF JobType
<1>5. \A w \in Straight \cup Awaits :
          /\ Out(w) \in JobType /\ Out(w).at = w /\ Out(w).then = "idle" /\ Out(w).snap = {}
  <2> SUFFICES ASSUME NEW w \in Straight \cup Awaits
               PROVE  /\ Out(w) \in JobType /\ Out(w).at = w
                      /\ Out(w).then = "idle" /\ Out(w).snap = {}
    OBVIOUS
  <2> DEFINE r == [NoJob EXCEPT !.at = w]
  <2>1. r \in JobType /\ r.at = w /\ r.then = "idle" /\ r.snap = {}
    BY <1>1, <1>3
  <2>2. Out(w) = [r EXCEPT !.kind = j.kind]
    OBVIOUS
  <2> HIDE DEF r, Out
  <2>3. QED
    BY <1>2, <1>4, <2>1, <2>2
<1>6. \A w \in Straight \cup Awaits :
          /\ At(w) \in JobType /\ At(w).at = w /\ At(w).then = "idle" /\ At(w).snap = {}
  <2>1. Forgetting(j) = Out(j.at)
    BY DEF Forgetting
  <2> HIDE DEF Out
  <2>2. /\ Forgetting(j) \in JobType
        /\ Forgetting(j).then = "idle" /\ Forgetting(j).snap = {}
    BY <1>4, <1>5, <2>1
  <2>3. QED
    BY <1>3, <2>2
<1>7. /\ Watching \in JobType
       /\ Watching.at = "watching" /\ Watching.then = "idle" /\ Watching.snap = {}
  BY <1>1, <1>3 DEF Watching
<1> HIDE DEF At, Out
<1>8. j.then \in {"idle", "watching", "retry", "rebuild", "preflight", "apply", "enter"}
  BY DEF JobType
<1>9. Continued(j) \in {NoJob, Watching}
         \/ \E w \in {"retry", "rebuild", "preflight", "apply", "enter"} :
                j.then = w /\ Continued(j) = At(w)
  BY <1>8 DEF Continued, At
<1>10. \/ Failed(j) \in {NoJob, Watching} /\ j.then # "retry"
       \/ j.then = "retry" /\ Failed(j) = At("end")
       \/ j.then # "retry" /\ Failed(j) = At("check")
  BY <1>8 DEF Failed, At
<1>11. \/ /\ j.at \in {"body", "retry"} \/ j.then = "retry"
          /\ Unwound(j) = Out("end")
       \/ ~(j.at \in {"body", "retry"} \/ j.then = "retry") /\ Unwound(j) = NoJob
  BY DEF Unwound, Out
<1>12. Continued(j) \in {NoJob, Watching} => j.then # "retry"
  <2>1. \A w \in {"retry", "rebuild", "preflight", "apply", "enter"} : At(w).at = w
    BY <1>6
  <2>2. ASSUME j.then = "retry" PROVE Continued(j) = At("retry")
    BY <2>2 DEF Continued, At
  <2>3. QED
    BY <1>1, <1>7, <2>1, <2>2
<1>13. /\ Continued(j) \in JobType /\ Continued(j).at \notin InLock
       /\ Continued(j).then = "idle" /\ Continued(j).snap = {} /\ Continued(j).at # "body"
       /\ Continued(j).at \in Begun <=> j.then = "retry"
  BY <1>1, <1>6, <1>7, <1>9, <1>12, Labels
<1>14. /\ Failed(j) \in JobType /\ Failed(j).at \notin InLock
       /\ Failed(j).then = "idle" /\ Failed(j).snap = {}
       /\ Failed(j).at \notin {"body", "retry"}
       /\ Failed(j).at \in Begun <=> j.then = "retry"
  BY <1>1, <1>6, <1>7, <1>10, Labels
<1>15. /\ Unwound(j) \in JobType /\ Unwound(j).at \notin InLock
       /\ Unwound(j).then = "idle" /\ Unwound(j).snap = {}
       /\ Unwound(j).at \notin {"body", "retry"}
       /\ Unwound(j).at \in Begun <=> (j.at \in {"body", "retry"} \/ j.then = "retry")
  BY <1>1, <1>5, <1>11, Labels
<1>16. QED
  BY <1>13, <1>14, <1>15

-----------------------------------------------------------------------------
(* The queue of the lock. *)
Waits(b) == \E i \in DOMAIN queue : queue[i] = b

(* A step of a leaves the others where they were, the head the head. *)
QueueStep(a) ==
    /\ queue' \in Seq(Actors)
    /\ \A b \in Actors \ {a} : Waits(b) => Waits(b)' /\ (queue[1] = b => queue'[1] = b)

LEMMA AppendStep ==
    ASSUME TypeOK, NEW a \in Actors, queue' = Append(queue, a)
    PROVE  /\ QueueStep(a) /\ Waits(a)'
           /\ queue = << >> => queue'[1] = a
<1>1. /\ queue \in Seq(Actors) /\ queue' \in Seq(Actors)
      /\ Len(queue) \in Nat /\ Len(queue') = Len(queue) + 1
      /\ DOMAIN queue = 1..Len(queue) /\ DOMAIN queue' = 1..(Len(queue) + 1)
      /\ queue'[Len(queue) + 1] = a
      /\ \A i \in 1..Len(queue) : queue'[i] = queue[i]
  BY DEF TypeOK
<1>2. QED
  BY <1>1 DEF QueueStep, Waits

LEMMA TailStep ==
    ASSUME TypeOK, NEW a \in Actors, Waits(a), queue[1] = a, queue' = Tail(queue)
    PROVE  QueueStep(a)
<1>1. queue \in Seq(Actors) /\ queue # << >> /\ Len(queue) \in Nat
      /\ DOMAIN queue = 1..Len(queue)
  BY DEF TypeOK, Waits
<1>2. /\ queue' \in Seq(Actors) /\ Len(queue') = Len(queue) - 1
      /\ DOMAIN queue' = 1..(Len(queue) - 1)
      /\ \A i \in 1..(Len(queue) - 1) : queue'[i] = queue[i + 1]
  BY <1>1
<1>3. ASSUME NEW b \in Actors \ {a}, Waits(b) PROVE Waits(b)' /\ queue[1] # b
  <2>1. PICK i \in 1..Len(queue) : queue[i] = b
    BY <1>1, <1>3 DEF Waits
  <2>2. i # 1 /\ i - 1 \in 1..(Len(queue) - 1)
    BY <1>1, <2>1
  <2>3. queue'[i - 1] = b
    BY <1>1, <1>2, <2>1, <2>2
  <2>4. QED
    BY <1>2, <2>2, <2>3 DEF Waits
<1>4. QED
  BY <1>2, <1>3 DEF QueueStep

(* How much is left after the k-th of n. *)
LEMMA AfterCut ==
    ASSUME NEW n \in Nat, NEW k \in 1..n
    PROVE  (IF k + 1 <= n THEN n - (k + 1) + 1 ELSE 0) = n - k
OBVIOUS

(* The queue loses its k-th. *)
Cut(k) ==
    /\ queue' \in Seq(Actors) /\ Len(queue') = Len(queue) - 1
    /\ DOMAIN queue' = 1..(Len(queue) - 1)
    /\ \A i \in 1..(Len(queue) - 1) : queue'[i] = IF i < k THEN queue[i] ELSE queue[i + 1]

LEMMA WithoutCuts ==
    ASSUME TypeOK, NEW a \in Actors, Waits(a), queue' = Without(a)
    PROVE  \E k \in 1..Len(queue) : queue[k] = a /\ Cut(k)
<1>1. queue \in Seq(Actors) /\ Len(queue) \in Nat /\ DOMAIN queue = 1..Len(queue)
  BY DEF TypeOK
<1>2. ~(\A i \in DOMAIN queue : queue[i] # a)
  BY DEF Waits
<1> DEFINE k == CHOOSE i \in DOMAIN queue : queue[i] = a
           left == SubSeq(queue, 1, k - 1)
           right == SubSeq(queue, k + 1, Len(queue))
<1>3. queue' = left \o right
  BY <1>2 DEF Without
<1>4. k \in 1..Len(queue) /\ queue[k] = a
  BY <1>1, <1>2
<1> HIDE DEF k
<1>5. k - 1 \in Nat /\ k + 1 \in Int /\ Len(queue) - k \in Nat
  BY <1>1, <1>4
<1>6. \A i \in 1..Len(queue) : queue[i] \in Actors
  BY <1>1
<1>7. /\ left \in Seq(Actors) /\ Len(left) = k - 1
      /\ \A i \in 1..(k - 1) : left[i] = queue[i]
  <2>1. \A i \in 1..(k - 1) : queue[i] \in Actors
    BY <1>1, <1>4, <1>6
  <2>2. /\ left \in Seq(Actors)
        /\ Len(left) = IF 1 <= k - 1 THEN (k - 1) - 1 + 1 ELSE 0
        /\ \A i \in 1..((k - 1) - 1 + 1) : left[i] = queue[1 + i - 1]
    BY <1>5, <2>1, SubSeqProperties
  <2> HIDE DEF left
  <2>3. QED
    BY <1>5, <2>2
<1>8. /\ right \in Seq(Actors) /\ Len(right) = Len(queue) - k
      /\ \A i \in 1..(Len(queue) - k) : right[i] = queue[k + i]
  <2>1. \A i \in (k + 1)..Len(queue) : queue[i] \in Actors
    BY <1>1, <1>4, <1>6
  <2>2. /\ right \in Seq(Actors)
        /\ Len(right) = IF k + 1 <= Len(queue) THEN Len(queue) - (k + 1) + 1 ELSE 0
        /\ \A i \in 1..(Len(queue) - (k + 1) + 1) : right[i] = queue[k + 1 + i - 1]
    BY <1>1, <1>5, <2>1, SubSeqProperties
  <2> HIDE DEF right
  <2>3. \A i \in 1..(Len(queue) - k) : i \in 1..(Len(queue) - (k + 1) + 1)
                                      /\ k + 1 + i - 1 = k + i
    BY <1>1, <1>5, <1>4
  <2>4. ASSUME NEW i \in 1..(Len(queue) - k) PROVE right[i] = queue[k + i]
    <3>1. i \in 1..(Len(queue) - (k + 1) + 1) /\ k + 1 + i - 1 = k + i
      BY <2>3
    <3>2. QED
      BY <2>2, <3>1
  <2>5. Len(right) = Len(queue) - k
    <3>1. (IF k + 1 <= Len(queue) THEN Len(queue) - (k + 1) + 1 ELSE 0) = Len(queue) - k
      BY <1>1, <1>4, AfterCut
    <3>2. QED
      BY <2>2, <3>1
  <2>6. QED
    BY <2>2, <2>4, <2>5
<1> HIDE DEF left, right
<1>9. /\ queue' \in Seq(Actors) /\ Len(queue') = Len(queue) - 1
      /\ DOMAIN queue' = 1..(Len(queue) - 1)
      /\ \A i \in 1..(Len(queue) - 1) : queue'[i] = IF i < k THEN queue[i] ELSE queue[i + 1]
  <2>1. /\ queue' \in Seq(Actors) /\ Len(queue') = Len(left) + Len(right)
        /\ \A i \in 1..(Len(left) + Len(right)) :
              queue'[i] = IF i <= Len(left) THEN left[i] ELSE right[i - Len(left)]
    BY <1>3, <1>7, <1>8, ConcatProperties
  <2>2. Len(left) + Len(right) = Len(queue) - 1
    BY <1>1, <1>4, <1>7, <1>8
  <2>3. ASSUME NEW i \in 1..(Len(queue) - 1)
        PROVE  queue'[i] = IF i < k THEN queue[i] ELSE queue[i + 1]
    <3>1. CASE i < k
      <4>1. i \in 1..(k - 1) /\ i <= k - 1 /\ i \in 1..(Len(left) + Len(right))
        BY <1>1, <1>4, <2>2, <3>1
      <4>2. queue'[i] = left[i]
        BY <1>7, <2>1, <4>1
      <4>3. left[i] = queue[i]
        BY <1>7, <4>1
      <4>4. QED
        BY <3>1, <4>2, <4>3
    <3>2. CASE ~(i < k)
      <4>1. i - (k - 1) \in 1..(Len(queue) - k) /\ k + (i - (k - 1)) = i + 1
        BY <1>1, <1>4, <3>2
      <4>2. queue'[i] = right[i - (k - 1)]
        BY <1>1, <1>4, <1>7, <2>1, <2>2, <3>2
      <4>3. QED
        BY <1>8, <3>2, <4>1, <4>2
    <3>3. QED
      BY <3>1, <3>2
  <2>4. QED
    BY <2>1, <2>2, <2>3
<1>10. QED
  BY <1>4, <1>9 DEF Cut

LEMMA WithoutStep ==
    ASSUME TypeOK, NEW a \in Actors, queue' = Without(a)
    PROVE  QueueStep(a)
<1>1. queue \in Seq(Actors) /\ Len(queue) \in Nat /\ DOMAIN queue = 1..Len(queue)
  BY DEF TypeOK
<1>2. CASE ~Waits(a)
  BY <1>1, <1>2 DEF Without, QueueStep, Waits
<1>3. CASE Waits(a)
  <2>1. PICK k \in 1..Len(queue) : queue[k] = a /\ Cut(k)
    BY <1>3, WithoutCuts
  <2>2. /\ queue' \in Seq(Actors) /\ Len(queue') = Len(queue) - 1
        /\ DOMAIN queue' = 1..(Len(queue) - 1)
        /\ \A i \in 1..(Len(queue) - 1) : queue'[i] = IF i < k THEN queue[i] ELSE queue[i + 1]
    BY <2>1 DEF Cut
  <2>3. ASSUME NEW b \in Actors \ {a}, Waits(b)
        PROVE  Waits(b)' /\ (queue[1] = b => queue'[1] = b)
    <3>1. PICK i \in 1..Len(queue) : queue[i] = b
      BY <1>1, <2>3 DEF Waits
    <3>2. i # k
      BY <2>1, <3>1
    <3>3. CASE i < k
      <4>1. i \in 1..(Len(queue) - 1) /\ 1 \in 1..(Len(queue) - 1) /\ 1 < k
        BY <1>1, <2>1, <3>1, <3>3
      <4>2. queue'[i] = b /\ queue'[1] = queue[1]
        BY <2>2, <3>1, <3>3, <4>1
      <4>3. QED
        BY <2>2, <4>1, <4>2 DEF Waits
    <3>4. CASE i > k
      <4>1. i - 1 \in 1..(Len(queue) - 1) /\ ~(i - 1 < k)
        BY <1>1, <2>1, <3>1, <3>4
      <4>2. queue'[i - 1] = b
        BY <1>1, <2>1, <2>2, <3>1, <4>1
      <4>3. Waits(b)'
        BY <2>2, <4>1, <4>2 DEF Waits
      <4>4. queue[1] = b => queue'[1] = b
        BY <1>1, <2>1, <2>2, <3>1, <3>4
      <4>5. QED
        BY <4>3, <4>4
    <3>5. QED
      BY <1>1, <2>1, <3>2, <3>3, <3>4
  <2>4. QED
    BY <2>2, <2>3 DEF QueueStep
<1>4. QED
  BY <1>2, <1>3

LEMMA KeepStep ==
    ASSUME TypeOK, NEW a \in Actors, queue' = queue
    PROVE  QueueStep(a)
BY DEF TypeOK, QueueStep, Waits

-----------------------------------------------------------------------------
(* The others, when a takes a step: what they carry stays, and the watcher   *)
(* that is born carries nothing.                                             *)
LEMMA OtherJobs ==
    ASSUME NEW a \in Actors, Others(a), NEW b \in Actors \ {a}
    PROVE  \/ job'[b] = job[b]
           \/ /\ job[b].at = "unborn" /\ job'[b].at = "watching"
              /\ job[b].then = "idle" /\ job'[b].then = "idle"
              /\ job[b].snap = {} /\ job'[b].snap = {}
<1>1. /\ Unborn.at = "unborn" /\ Watching.at = "watching"
      /\ Unborn.then = "idle" /\ Watching.then = "idle"
      /\ Unborn.snap = {} /\ Watching.snap = {}
  BY DEF Unborn, Watching, NoJob
<1>2. QED
  BY <1>1 DEF Others

(* Whoever is past the lock is alone there. *)
LEMMA AloneInside ==
    ASSUME LockInv, NEW a \in Actors, NEW b \in Actors, job[a].at \in Inside, b # a
    PROVE  job[b].at \notin Inside /\ job[b].at \notin Snapped
BY Labels DEF LockInv, LockOf

LEMMA LockStep ==
    ASSUME LockInv, NEW a \in Actors, Others(a), QueueStep(a),
           driver' = driver \/ job[a].at \in Inside,
           job'[a].at \in InLock => job'[a].target \in Backends /\ Waits(a)',
           job'[a].at \in Inside => queue'[1] = a,
           job'[a].at \in Replaying => driver' = job'[a].target,
           job'[a].then = "retry" => job'[a].at \in InLock
    PROVE  LockInv'
<1>1. LockOf(job[a], a)'
  BY DEF LockOf, Waits
<1>2. ASSUME NEW b \in Actors \ {a} PROVE LockOf(job[b], b)'
  <2>1. CASE job'[b] = job[b]
    <3>1. LockOf(job[b], b)
      BY DEF LockInv
    <3>2. job[b].at \in Replaying => driver' = driver
      BY AloneInside, Labels
    <3>3. /\ job[b].at \in InLock => Waits(b) /\ Waits(b)'
          /\ job[b].at \in Inside => queue'[1] = b
      BY <3>1, Labels DEF LockOf, QueueStep, Waits
    <3>4. QED
      BY <2>1, <3>1, <3>2, <3>3 DEF LockOf, Waits
  <2>2. CASE job'[b] # job[b]
    <3>1. job'[b].at = "watching" /\ job'[b].then = "idle"
      BY <2>2, OtherJobs
    <3>2. QED
      BY <3>1, Labels DEF LockOf
  <2>3. QED
    BY <2>1, <2>2
<1>3. QED
  BY <1>1, <1>2 DEF LockInv

LEMMA FreshIsFree ==
    ASSUME NEW p \in Fresh
    PROVE  /\ p \in Pages \ tabs
           /\ \A c \in Actors : p \notin job[c].snap /\ p # job[c].page
<1>1. p \in Pages /\ p \notin tabs
  BY DEF Fresh
<1>2. \A c \in Actors : p \notin job[c].snap \cup {job[c].page}
  BY DEF Fresh
<1>3. QED
  BY <1>1, <1>2

LEMMA OpeningStep ==
    ASSUME OpeningInv, NEW a \in Actors, Others(a),
           tabs' \subseteq tabs \cup (IF Opening(a) THEN {job[a].page} ELSE {}),
           job'[a].snap \subseteq job[a].snap \cup tabs,
           Opening(a)' => /\ job'[a].page \in Fresh /\ job'[a].on \in Backends
                          /\ tabs' = tabs
    PROVE  OpeningInv'
<1>1. \A b \in Actors \ {a} : job'[b].snap = job[b].snap
  BY OtherJobs
<1>2. ASSUME NEW b \in Actors \ {a}, Opening(b)'
      PROVE  job'[b] = job[b] /\ Opening(b)
  BY <1>2, OtherJobs DEF Opening
<1>3. ASSUME NEW b \in Actors \ {a}, Opening(b)'
      PROVE  /\ job'[b].page \in Pages \ tabs' /\ job'[b].on \in Backends
             /\ \A c \in Actors : job'[b].page \notin job'[c].snap
             /\ \A c \in Actors \ {a} : Opening(c)' /\ job'[b].page = job'[c].page => b = c
  <2>1. /\ job'[b] = job[b] /\ Opening(b)
        /\ job[b].page \in Pages \ tabs /\ job[b].on \in Backends
        /\ \A c \in Actors : job[b].page \notin job[c].snap
        /\ \A c \in Actors : Opening(c) /\ job[b].page = job[c].page => b = c
    BY <1>2, <1>3 DEF OpeningInv
  <2>2. job[b].page \notin tabs'
    BY <2>1
  <2>3. QED
    BY <1>1, <1>2, <2>1, <2>2
<1>4. ASSUME Opening(a)'
      PROVE  /\ job'[a].page \in Pages \ tabs' /\ job'[a].on \in Backends
             /\ \A c \in Actors : job'[a].page \notin job'[c].snap
             /\ \A c \in Actors \ {a} : Opening(c)' => job'[a].page # job'[c].page
  <2>1. job'[a].page \in Fresh /\ job'[a].on \in Backends /\ tabs' = tabs
    BY <1>4
  <2>2. /\ job'[a].page \in Pages \ tabs
        /\ \A c \in Actors : job'[a].page \notin job[c].snap /\ job'[a].page # job[c].page
    BY <2>1, FreshIsFree
  <2>3. QED
    BY <1>1, <1>2, <2>1, <2>2
<1>5. QED
  BY <1>3, <1>4 DEF OpeningInv

LEMMA CommandsFinite == IsFiniteSet(Commands) /\ Cardinality(Commands) \in Nat
BY RebindAssumption, FS_Subset, FS_CardinalityType DEF Commands

LEMMA DepthStep ==
    ASSUME DepthInv, NEW a \in Actors, Others(a),
           IF a \in Tasks
           THEN depth' = depth + (IF Counted(job'[a]) THEN 1 ELSE 0)
                               - (IF Counted(job[a]) THEN 1 ELSE 0)
           ELSE depth' = depth
    PROVE  DepthInv' /\ depth' \in Nat
<1>1. \A b \in Tasks \ {a} : Counted(job'[b]) <=> Counted(job[b])
  <2> SUFFICES ASSUME NEW b \in Tasks \ {a}, job'[b] # job[b]
               PROVE  Counted(job'[b]) <=> Counted(job[b])
    OBVIOUS
  <2>1. b \in Actors \ {a}
    BY DEF Actors
  <2>2. QED
    BY <2>1, OtherJobs DEF Counted, Begun
<1>2. Commands' = {t \in Tasks : Counted(job'[t])}
  BY DEF Commands, Counted
<1>3. IsFiniteSet(Commands) /\ Cardinality(Commands) \in Nat /\ depth = Cardinality(Commands)
  BY CommandsFinite DEF DepthInv
<1>4. CASE a \notin Tasks
  <2>1. Commands' = Commands
    BY <1>1, <1>2, <1>4 DEF Commands
  <2>2. QED
    BY <1>3, <1>4, <2>1 DEF DepthInv
<1>5. CASE a \in Tasks /\ Counted(job'[a])
  <2>1. Commands' = Commands \cup {a}
    BY <1>1, <1>2, <1>5 DEF Commands
  <2>2. a \in Commands <=> Counted(job[a])
    BY <1>5 DEF Commands
  <2>3. /\ IsFiniteSet(Commands \cup {a})
        /\ Cardinality(Commands \cup {a})
             = IF a \in Commands THEN Cardinality(Commands) ELSE Cardinality(Commands) + 1
    BY <1>3, FS_AddElement
  <2>4. QED
    BY <1>3, <1>5, <2>1, <2>2, <2>3 DEF DepthInv
<1>6. CASE a \in Tasks /\ ~Counted(job'[a])
  <2>1. Commands' = Commands \ {a}
    BY <1>1, <1>2, <1>6 DEF Commands
  <2>2. a \in Commands <=> Counted(job[a])
    BY <1>6 DEF Commands
  <2>3. /\ IsFiniteSet(Commands \ {a})
        /\ Cardinality(Commands \ {a})
             = IF a \in Commands THEN Cardinality(Commands) - 1 ELSE Cardinality(Commands)
    BY <1>3, FS_RemoveElement
  <2>4. Cardinality(Commands \ {a}) \in Nat
    BY <2>3, FS_CardinalityType
  <2>5. QED
    BY <1>3, <1>6, <2>1, <2>2, <2>3, <2>4 DEF DepthInv
<1>7. QED
  BY <1>4, <1>5, <1>6

(* A step beside the snapshot, of an actor that has none.                    *)
LEMMA BesideSnapshot ==
    ASSUME LockInv, OpeningInv, SnapInv, RestInv, NEW a \in Actors, Others(a),
           job[a].at \notin Snapped, job'[a].at \notin Snapped,
           driver' = driver, spoilt' = spoilt,
           tabs' \subseteq tabs \cup (IF Opening(a) THEN {job[a].page} ELSE {}),
           \A p \in tabs' \ stray' :
              \/ p \in tabs \ stray
              \/ p \in live'[driver] /\ \A b \in Actors : job[b].at \notin Snapped,
           driver # "none"
              => \A p \in tabs \cap tabs' : p \in live[driver] \cup lost
                                     => p \in live'[driver] \cup lost',
           driver = "none" => job'[a].at \notin {"body", "retry"}
    PROVE  SnapInv' /\ RestInv'
<1>1. ASSUME NEW b \in Actors \ {a}
      PROVE  /\ job'[b].at \in Snapped <=> job[b].at \in Snapped
             /\ job'[b].at \in Snapped => job'[b] = job[b]
             /\ job'[b].at \in {"body", "retry"} => job[b].at \in {"body", "retry"}
  BY OtherJobs, Labels
<1>2. ASSUME NEW b \in Actors, job'[b].at \in Snapped
      PROVE  /\ tabs' \ stray' \subseteq job'[b].snap
             /\ job'[b].at \in Replaying
                   => (job'[b].snap \ job'[b].todo) \cap tabs' \subseteq live'[driver'] \cup lost'
             /\ job'[b].at \in {"replayed", "settling"} => job'[b].todo = {}
  <2>1. b \in Actors \ {a} /\ job'[b] = job[b] /\ job[b].at \in Snapped
    BY <1>1, <1>2
  <2>2. tabs' \ stray' \subseteq job[b].snap
    BY <2>1 DEF SnapInv
  <2>3. \A p \in job[b].snap : p \in tabs' => p \in tabs
    BY DEF OpeningInv
  <2>4. job[b].at \in Replaying
           => (job[b].snap \ job[b].todo) \cap tabs' \subseteq live'[driver'] \cup lost'
    <3>1. job[b].at \in Replaying => driver # "none"
      BY <2>1, Labels DEF LockInv, LockOf, Backends
    <3>2. QED
      BY <2>1, <2>3, <3>1 DEF SnapInv
  <2>5. QED
    BY <2>1, <2>2, <2>4 DEF SnapInv
<1>3. SnapInv'
  BY <1>2, Labels DEF SnapInv
<1>4. ASSUME ~spoilt', \A b \in Actors : job'[b].at \notin Snapped
      PROVE  /\ driver' # "none" => tabs' \ stray' \subseteq live'[driver'] \cup lost'
             /\ driver' = "none" => \A t \in Tasks : job'[t].at \notin {"body", "retry"}
  <2>1. ~spoilt /\ \A b \in Actors : job[b].at \notin Snapped
    BY <1>1, <1>4
  <2>2. driver # "none" => tabs' \ stray' \subseteq live'[driver] \cup lost'
    BY <2>1 DEF RestInv
  <2>3. driver = "none" => \A t \in Tasks : job'[t].at \notin {"body", "retry"}
    BY <1>1, <2>1 DEF RestInv, Actors
  <2>4. QED
    BY <2>2, <2>3
<1>5. QED
  BY <1>3, <1>4 DEF RestInv

(* A step of the actor that has the snapshot, takes it or gives it up.       *)
LEMMA WithSnapshot ==
    ASSUME LockInv, NEW a \in Actors, Others(a), job[a].at \in Inside,
           job'[a].at \in Snapped => tabs' \ stray' \subseteq job'[a].snap,
           job'[a].at \in Replaying
              => (job'[a].snap \ job'[a].todo) \cap tabs' \subseteq live'[driver'] \cup lost',
           job'[a].at \in {"replayed", "settling"} => job'[a].todo = {},
           job'[a].at \notin Snapped
              => spoilt' \/ (driver' # "none" /\ tabs' \ stray' \subseteq live'[driver'] \cup lost')
    PROVE  SnapInv' /\ RestInv'
<1>1. ASSUME NEW b \in Actors \ {a} PROVE job'[b].at \notin Snapped
  BY AloneInside, OtherJobs, Labels
<1>2. SnapInv'
  BY <1>1, Labels DEF SnapInv
<1>3. RestInv'
  BY DEF RestInv
<1>4. QED
  BY <1>2, <1>3

-----------------------------------------------------------------------------
(* The steps that touch neither the pages nor the backend. *)
LEMMA QuietStep ==
    ASSUME IInv, NEW a \in Actors, Moves(a), QueueStep(a),
           UNCHANGED <<driver, tabs, live, stray, lost, spoilt>>,
           pending' \in BOOLEAN, session' \in BOOLEAN, changed' \in BOOLEAN,
           job[a].at \notin Snapped, job'[a].at \notin Snapped,
           job'[a].snap \in {job[a].snap, {}},
           job'[a].at \in InLock => job'[a].target \in Backends /\ Waits(a)',
           job'[a].at \in Inside => queue'[1] = a,
           job'[a].then = "retry" => job'[a].at \in InLock,
           Opening(a)' => job'[a].page \in Fresh /\ job'[a].on \in Backends,
           driver = "none" => job'[a].at \notin {"body", "retry"},
           IF a \in Tasks
           THEN depth' = depth + (IF Counted(job'[a]) THEN 1 ELSE 0)
                               - (IF Counted(job[a]) THEN 1 ELSE 0)
           ELSE depth' = depth
    PROVE  IInv'
<1>1. Others(a) /\ DepthInv /\ LockInv /\ OpeningInv /\ SnapInv /\ RestInv /\ TypeOK
  BY DEF Moves, IInv
<1>2. DepthInv' /\ depth' \in Nat
  BY <1>1, DepthStep
<1>3. LockInv'
  <2>1. job'[a].at \notin Replaying
    BY Labels
  <2>2. QED
    BY <1>1, <2>1, LockStep
<1>4. OpeningInv'
  <2>1. tabs' \subseteq tabs \cup (IF Opening(a) THEN {job[a].page} ELSE {})
    OBVIOUS
  <2>2. job'[a].snap \subseteq job[a].snap \cup tabs
    OBVIOUS
  <2>3. QED
    BY <1>1, <2>1, <2>2, OpeningStep
<1>5. SnapInv' /\ RestInv'
  <2>1. /\ tabs' \subseteq tabs \cup (IF Opening(a) THEN {job[a].page} ELSE {})
        /\ \A p \in tabs' \ stray' : p \in tabs \ stray
        /\ \A p \in tabs \cap tabs' : p \in live[driver] \cup lost => p \in live'[driver] \cup lost'
    OBVIOUS
  <2>2. QED
    BY <1>1, <2>1, BesideSnapshot
<1>6. TypeOK'
  BY <1>1, <1>2 DEF Moves, QueueStep, TypeOK
<1>7. QED
  BY <1>2, <1>3, <1>4, <1>5, <1>6 DEF IInv

(* ... nor the lock nor the depth: between two places where nothing is held. *)
LEMMA PlainStep ==
    ASSUME IInv, NEW a \in Actors, Moves(a),
           UNCHANGED <<driver, tabs, live, stray, lost, spoilt, queue, depth>>,
           pending' \in BOOLEAN, session' \in BOOLEAN, changed' \in BOOLEAN,
           job[a].at \notin InLock \cup Begun, job'[a].at \notin InLock \cup Begun,
           job'[a].snap \in {job[a].snap, {}},
           job'[a].then # "retry"
    PROVE  IInv'
<1>1. ~Counted(job[a]) /\ ~Counted(job'[a])
  BY DEF Counted
<1>2. /\ job[a].at \notin Snapped /\ job'[a].at \notin Snapped
      /\ job'[a].at \notin Inside /\ job'[a].at \notin {"body", "retry"}
  BY Labels DEF Begun
<1>3. ~Opening(a)'
  BY <1>2 DEF Opening
<1>4. depth \in Nat /\ QueueStep(a)
  BY KeepStep DEF IInv, TypeOK
<1>5. IF a \in Tasks
      THEN depth' = depth + (IF Counted(job'[a]) THEN 1 ELSE 0)
                          - (IF Counted(job[a]) THEN 1 ELSE 0)
      ELSE depth' = depth
  BY <1>1, <1>4
<1>6. QED
  BY <1>2, <1>3, <1>4, <1>5, QuietStep

(* _activate_driver is called. *)
LEMMA ActivateMoves ==
    ASSUME TypeOK, NEW a \in Actors, NEW target \in Backends,
           NEW then \in {"idle", "watching", "retry", "rebuild", "preflight", "apply", "enter"},
           Activate(a, target, then)
    PROVE  /\ Moves(a) /\ QueueStep(a) /\ Waits(a)'
           /\ job'[a].at \in {"locked", "queued"}
           /\ job'[a].at = "locked" => queue'[1] = a
           /\ job'[a].target = target /\ job'[a].then = then
           /\ job'[a].snap = job[a].snap
<1> DEFINE w == IF queue = << >> THEN "locked" ELSE "queued"
<1>1. w \in Straight \cup Awaits /\ w \in {"locked", "queued"}
  BY DEF Straight, Awaits
<1>2. QueueStep(a) /\ Waits(a)' /\ (w = "locked" => queue'[1] = a)
  BY AppendStep DEF Activate
<1>3. job' = [job EXCEPT ![a].at = w, ![a].target = target, ![a].then = then]
  BY DEF Activate
<1> HIDE DEF w
<1> DEFINE j1 == [job[a] EXCEPT !.at = w]
           j2 == [j1 EXCEPT !.target = target]
           j3 == [j2 EXCEPT !.then = then]
<1>4. job' = [job EXCEPT ![a] = j3]
  BY <1>3
<1>5. j1 \in JobType /\ j1.at = w /\ j1.snap = job[a].snap
  BY <1>1, JobFields DEF JobType
<1> HIDE DEF j1
<1>6. j2 \in JobType /\ j2.at = w /\ j2.snap = job[a].snap /\ j2.target = target
  BY <1>5 DEF JobType
<1> HIDE DEF j2
<1>7. /\ j3 \in JobType /\ j3.at = w /\ j3.snap = job[a].snap /\ j3.target = target
      /\ j3.then = then
  BY <1>6 DEF JobType
<1> HIDE DEF j3
<1>8. Moves(a) /\ job'[a] = j3
  BY <1>4, <1>7, SetJob
<1>9. QED
  BY <1>1, <1>2, <1>7, <1>8

LEMMA ActivateStep ==
    ASSUME IInv, NEW a \in Actors, NEW target \in Backends,
           NEW then \in {"idle", "watching", "retry", "rebuild", "preflight", "apply", "enter"},
           Activate(a, target, then), job[a].at \notin InLock,
           UNCHANGED <<driver, tabs, live, stray, lost, spoilt>>,
           pending' \in BOOLEAN, session' \in BOOLEAN, changed' \in BOOLEAN,
           IF a \in Tasks
           THEN depth' = depth + (IF then = "retry" THEN 1 ELSE 0)
                               - (IF job[a].at \in Begun THEN 1 ELSE 0)
           ELSE depth' = depth
    PROVE  IInv'
<1>1. /\ Moves(a) /\ QueueStep(a) /\ Waits(a)'
      /\ job'[a].at \in {"locked", "queued"}
      /\ job'[a].at = "locked" => queue'[1] = a
      /\ job'[a].target = target /\ job'[a].then = then
      /\ job'[a].snap = job[a].snap
  BY ActivateMoves DEF IInv
<1> HIDE DEF Activate
<1>2. /\ job'[a].at \in InLock /\ job'[a].at \notin Begun
      /\ job[a].at \notin Snapped /\ job'[a].at \notin Snapped
      /\ job'[a].at \in Inside => queue'[1] = a
      /\ job'[a].at \notin {"body", "retry"}
  BY <1>1, Labels DEF Begun
<1>3. /\ Counted(job'[a]) <=> then = "retry"
      /\ Counted(job[a]) <=> job[a].at \in Begun
  BY <1>1, <1>2 DEF Counted
<1>4. ~Opening(a)'
  BY <1>2 DEF Opening
<1>5. QED
  BY <1>1, <1>2, <1>3, <1>4, QuietStep

LEMMA EmptyJobs ==
    /\ NoJob \in JobType /\ NoJob.at = "idle" /\ NoJob.then = "idle" /\ NoJob.snap = {}
    /\ Watching \in JobType /\ Watching.at = "watching"
    /\ Watching.then = "idle" /\ Watching.snap = {}
<1>1. NoJob \in JobType /\ NoJob.at = "idle" /\ NoJob.then = "idle" /\ NoJob.snap = {}
  BY DEF JobType, NoJob, Straight, Awaits, AllKinds, Backends
<1>2. ASSUME NEW r \in JobType
      PROVE  /\ [r EXCEPT !.at = "watching"] \in JobType
             /\ [r EXCEPT !.at = "watching"].at = "watching"
             /\ [r EXCEPT !.at = "watching"].then = r.then
             /\ [r EXCEPT !.at = "watching"].snap = r.snap
  BY DEF JobType, Straight, Awaits
<1>3. QED
  BY <1>1, <1>2 DEF Watching

(* A place outside the lock, that the actor leaves for another one.          *)
LEMMA WalkStep ==
    ASSUME IInv, NEW a \in Actors, NEW w \in Straight \cup Awaits, GoTo(a, w),
           UNCHANGED <<driver, depth, pending, session, changed, queue, tabs, live, stray,
                       lost, spoilt>>,
           job[a].at \notin InLock \cup Begun, w \notin InLock \cup Begun
    PROVE  IInv'
<1>1. /\ Moves(a) /\ job'[a].at = w /\ job'[a].snap = job[a].snap
      /\ job'[a].then = job[a].then
  BY GoToMoves DEF IInv
<1>2. job[a].then # "retry"
  BY DEF IInv, LockInv, LockOf
<1>3. pending' \in BOOLEAN /\ session' \in BOOLEAN /\ changed' \in BOOLEAN
  BY DEF IInv, TypeOK
<1>4. QED
  BY <1>1, <1>2, <1>3, PlainStep

LEMMA FinishStep ==
    ASSUME IInv, NEW a \in Actors, Finish(a),
           UNCHANGED <<driver, depth, queue, tabs, live, stray, lost, spoilt>>,
           pending' \in BOOLEAN, session' \in BOOLEAN, changed' \in BOOLEAN,
           job[a].at \notin InLock \cup Begun
    PROVE  IInv'
<1>1. Moves(a) /\ job'[a] = NoJob
  BY EmptyJobs, SetJob DEF IInv, Finish
<1>2. "idle" \notin InLock \cup Begun
  BY Labels DEF Begun
<1>3. QED
  BY <1>1, <1>2, EmptyJobs, PlainStep

LEMMA ArriveStep == ASSUME IInv, NEW t \in Tasks, Arrive(t) PROVE IInv'
<1>1. t \in Actors /\ TypeOK
  BY DEF Actors, IInv
<1>2. PICK k \in Kinds :
         job' = [job EXCEPT ![t].kind = k, ![t].at = IF k = "close" THEN "enter" ELSE "start"]
  BY DEF Arrive
<1> DEFINE w == IF k = "close" THEN "enter" ELSE "start"
           j1 == [job[t] EXCEPT !.kind = k]
           j2 == [j1 EXCEPT !.at = w]
<1>3. k \in AllKinds \cup {None} /\ w \in {"enter", "start"} /\ w \in Straight \cup Awaits
  BY RebindAssumption DEF Straight
<1>4. job' = [job EXCEPT ![t] = j2]
  BY <1>2
<1> HIDE DEF w
<1>5. j1 \in JobType /\ j1.snap = job[t].snap /\ j1.then = job[t].then
  BY <1>1, <1>3, JobFields DEF JobType
<1> HIDE DEF j1
<1>6. j2 \in JobType /\ j2.snap = job[t].snap /\ j2.then = job[t].then /\ j2.at = w
  BY <1>3, <1>5 DEF JobType
<1> HIDE DEF j2
<1>7. Moves(t) /\ job'[t] = j2
  BY <1>1, <1>4, <1>6, SetJob
<1>8. job[t].at \notin InLock \cup Begun /\ job'[t].at \notin InLock \cup Begun
  BY <1>3, <1>6, <1>7, Labels DEF Arrive, Resumes, Begun
<1>9. job'[t].then # "retry"
  BY <1>1, <1>6, <1>7, <1>8 DEF IInv, LockInv, LockOf
<1>10. pending' \in BOOLEAN /\ session' \in BOOLEAN /\ changed' \in BOOLEAN
  BY <1>1 DEF TypeOK, Arrive, hub
<1>11. QED
  BY <1>1, <1>6, <1>7, <1>8, <1>9, <1>10, PlainStep DEF Arrive, hub, pages

LEMMA EnsureStartedStep == ASSUME IInv, NEW t \in Tasks, EnsureStarted(t) PROVE IInv'
<1>1. t \in Actors /\ Watcher \in Actors /\ t # Watcher /\ TypeOK
  BY RebindAssumption DEF Actors, IInv
<1> DEFINE w == IF driver = "none" THEN "session" ELSE AfterStart(t)
           next == IF driver = "none" THEN AfterStart(t) ELSE "idle"
           W == IF job[Watcher] = Unborn THEN Watching ELSE job[Watcher]
           j1 == [job[t] EXCEPT !.at = w]
           j2 == [j1 EXCEPT !.then = next]
<1>2. job' = [job EXCEPT ![Watcher] = W, ![t] = j2]
  BY <1>1 DEF EnsureStarted
<1>3. /\ w \in {"session", "rebuild", "preflight"} /\ w \in Straight \cup Awaits
      /\ next \in {"rebuild", "preflight", "idle"}
  BY DEF AfterStart, Straight, Awaits
<1>4. W \in JobType /\ (W = job[Watcher] \/ (job[Watcher] = Unborn /\ W = Watching))
  BY <1>1, JobFields, EmptyJobs
<1> HIDE DEF w, next, W
<1>5. j1 \in JobType /\ j1.snap = job[t].snap /\ j1.at = w
  BY <1>1, <1>3, JobFields DEF JobType
<1> HIDE DEF j1
<1>6. j2 \in JobType /\ j2.snap = job[t].snap /\ j2.then = next /\ j2.at = w
  BY <1>3, <1>5 DEF JobType
<1> HIDE DEF j2
<1>7. Moves(t) /\ job'[t] = j2
  BY <1>1, <1>2, <1>4, <1>6 DEF TypeOK, Moves, Others
<1>8. job[t].at \notin InLock \cup Begun /\ job'[t].at \notin InLock \cup Begun
  <2>1. job[t].at = "start"
    BY DEF EnsureStarted, Runs
  <2>2. QED
    BY <1>3, <1>6, <1>7, <2>1, Labels DEF Begun
<1>9. job'[t].then # "retry"
  BY <1>3, <1>6, <1>7
<1>10. pending' \in BOOLEAN /\ session' \in BOOLEAN /\ changed' \in BOOLEAN
  BY <1>1 DEF TypeOK, EnsureStarted, hub
<1>11. QED
  BY <1>1, <1>6, <1>7, <1>8, <1>9, <1>10, PlainStep DEF EnsureStarted, hub, pages

LEMMA FirstBackendStep == ASSUME IInv, NEW t \in Tasks, FirstBackend(t) PROVE IInv'
<1>1. t \in Actors /\ TypeOK /\ job[t].at = "session"
  BY DEF Actors, IInv, FirstBackend, Resumes
<1>2. /\ job[t].at \notin InLock /\ job[t].at \notin Begun /\ job[t].then # "retry"
      /\ job[t].then \in {"idle", "watching", "retry", "rebuild", "preflight",
                          "apply", "enter"}
  BY <1>1, Labels, JobFields DEF Begun, IInv, LockInv, LockOf
<1> DEFINE b == IF session THEN "extension" ELSE "playwright"
<1>3. b \in Backends /\ Activate(t, b, job[t].then)
  BY DEF FirstBackend, Backends
<1>4. /\ UNCHANGED <<driver, tabs, live, stray, lost, spoilt>>
      /\ pending' \in BOOLEAN /\ session' \in BOOLEAN /\ changed' \in BOOLEAN
      /\ depth' = depth /\ depth \in Nat
  BY <1>1 DEF FirstBackend, pages, hub, TypeOK
<1> HIDE DEF b
<1>5. QED
  BY <1>1, <1>2, <1>3, <1>4, ActivateStep

LEMMA WalkingStep ==
    ASSUME IInv, NEW t \in Tasks,
           Preflight(t) \/ BindingStatus(t)
    PROVE  IInv'
<1>1. t \in Actors
  BY DEF Actors
<1>2. CASE Preflight(t)
  <2>1. \E w \in {"status", "check"} : GoTo(t, w)
    BY <1>2 DEF Preflight
  <2>2. job[t].at = "preflight"
    BY <1>2 DEF Preflight, Runs
  <2>3. QED
    BY <1>1, <1>2, <2>1, <2>2, Labels, WalkStep
       DEF Preflight, Straight, Awaits, Begun, pages, hub
<1>3. CASE BindingStatus(t)
  <2>1. \E w \in {"rebuild", "check"} : GoTo(t, w)
    BY <1>3 DEF BindingStatus
  <2>2. job[t].at = "status"
    BY <1>3 DEF BindingStatus, Resumes
  <2>3. QED
    BY <1>1, <1>3, <2>1, <2>2, Labels, WalkStep
       DEF BindingStatus, Straight, Awaits, Begun, pages, hub
<1>4. QED
  BY <1>2, <1>3

LEMMA RebuildStep == ASSUME IInv, NEW t \in Tasks, Rebuild(t) PROVE IInv'
<1>1. /\ t \in Actors /\ TypeOK /\ job[t].at = "rebuild"
      /\ job[t].at \notin InLock \cup Begun
      /\ UNCHANGED <<driver, depth, pending, session, changed, queue, tabs, live, stray,
                     lost, spoilt>>
      /\ pending' \in BOOLEAN /\ session' \in BOOLEAN /\ changed' \in BOOLEAN
  BY Labels DEF Actors, IInv, TypeOK, Rebuild, Runs, Begun, pages, hub
<1>2. CASE driver = "none"
  <2> DEFINE j1 == [job[t] EXCEPT !.at = "session"]
             j2 == [j1 EXCEPT !.then = "rebuild"]
  <2>1. job' = [job EXCEPT ![t] = j2]
    BY <1>2 DEF Rebuild
  <2>2. j1 \in JobType /\ j1.snap = job[t].snap /\ j1.at = "session"
    BY <1>1, JobFields DEF JobType, Awaits
  <2> HIDE DEF j1
  <2>3. j2 \in JobType /\ j2.snap = job[t].snap /\ j2.then = "rebuild" /\ j2.at = "session"
    BY <2>2 DEF JobType
  <2> HIDE DEF j2
  <2>4. Moves(t) /\ job'[t] = j2
    BY <1>1, <2>1, <2>3, SetJob
  <2>5. job'[t].at \notin InLock \cup Begun /\ job'[t].then # "retry"
    BY <2>3, <2>4, Labels DEF Begun
  <2>6. QED
    BY <1>1, <2>3, <2>4, <2>5, PlainStep
<1>3. CASE driver # "none" /\ driver = "extension" /\ session
  <2>1. GoTo(t, "rebuilding")
    BY <1>3 DEF Rebuild
  <2>2. QED
    BY <1>1, <2>1, Labels, WalkStep DEF Awaits, Begun
<1>4. CASE driver # "none" /\ ~(driver = "extension" /\ session)
  <2>1. Finish(t) \/ GoTo(t, "check")
    BY <1>4 DEF Rebuild, AfterRebuild
  <2>2. QED
    BY <1>1, <2>1, Labels, WalkStep, FinishStep DEF Straight, Begun
<1>5. QED
  BY <1>2, <1>3, <1>4

LEMMA CheckSessionStep == ASSUME IInv, NEW t \in Tasks, CheckSession(t) PROVE IInv'
<1>1. /\ t \in Actors /\ TypeOK /\ job[t].at = "check"
      /\ job[t].at \notin InLock /\ job[t].at \notin Begun
      /\ UNCHANGED <<driver, depth, pending, session, changed, tabs, live, stray, lost, spoilt>>
      /\ pending' \in BOOLEAN /\ session' \in BOOLEAN /\ changed' \in BOOLEAN
      /\ depth \in Nat
  BY Labels DEF Actors, IInv, TypeOK, CheckSession, Runs, Begun, pages, hub
<1>2. CASE driver = "extension" /\ ~session
  <2>1. Activate(t, "playwright", "apply") /\ "playwright" \in Backends
    BY <1>2 DEF CheckSession, Backends
  <2>2. IF t \in Tasks THEN depth' = depth + (IF "apply" = "retry" THEN 1 ELSE 0)
                                        - (IF job[t].at \in Begun THEN 1 ELSE 0)
                       ELSE depth' = depth
    BY <1>1
  <2>3. "apply" \in {"idle", "watching", "retry", "rebuild", "preflight", "apply", "enter"}
    OBVIOUS
  <2> HIDE DEF Activate
  <2>4. QED
    BY <1>1, <2>1, <2>2, <2>3, ActivateStep
<1>3. CASE ~(driver = "extension" /\ ~session)
  <2>1. GoTo(t, "apply") /\ queue' = queue
    BY <1>3 DEF CheckSession
  <2>2. QED
    BY <1>1, <2>1, Labels, WalkStep DEF Straight, Begun
<1>4. QED
  BY <1>2, <1>3

LEMMA ApplyStep == ASSUME IInv, NEW t \in Tasks, Apply(t) PROVE IInv'
<1>1. /\ t \in Actors /\ TypeOK /\ job[t].at = "apply"
      /\ job[t].at \notin InLock /\ job[t].at \notin Begun
      /\ UNCHANGED <<driver, depth, session, changed, tabs, live, stray, lost, spoilt>>
      /\ pending \in BOOLEAN /\ session' \in BOOLEAN /\ changed' \in BOOLEAN
      /\ depth \in Nat
  BY Labels DEF Actors, IInv, TypeOK, Apply, Runs, Begun, pages, hub
<1>2. CASE depth = 0 /\ pending
  <2>1. Activate(t, "extension", "enter") /\ "extension" \in Backends /\ pending' = FALSE
    BY <1>2 DEF Apply, ApplyPending, Backends
  <2>2. IF t \in Tasks THEN depth' = depth + (IF "enter" = "retry" THEN 1 ELSE 0)
                                        - (IF job[t].at \in Begun THEN 1 ELSE 0)
                       ELSE depth' = depth
    BY <1>1
  <2>3. "enter" \in {"idle", "watching", "retry", "rebuild", "preflight", "apply", "enter"}
    OBVIOUS
  <2> HIDE DEF Activate
  <2>4. QED
    BY <1>1, <2>1, <2>2, <2>3, ActivateStep
<1>3. CASE ~(depth = 0 /\ pending)
  <2>1. GoTo(t, "enter") /\ queue' = queue /\ pending' = pending
    BY <1>3 DEF Apply, ApplyPending
  <2>2. QED
    BY <1>1, <2>1, Labels, WalkStep DEF Straight, Begun
<1>4. QED
  BY <1>2, <1>3

LEMMA EnterStep == ASSUME IInv, NEW t \in Tasks, Enter(t) PROVE IInv'
<1>1. /\ t \in Actors /\ TypeOK /\ job[t].at = "enter" /\ job[t].then # "retry"
      /\ job[t].at \notin InLock \cup Begun
      /\ UNCHANGED <<driver, pending, session, changed, queue, tabs, live, stray, lost, spoilt>>
      /\ pending' \in BOOLEAN /\ session' \in BOOLEAN /\ changed' \in BOOLEAN
      /\ depth \in Nat /\ depth' = depth + 1
  BY Labels DEF Actors, IInv, TypeOK, Enter, Runs, Begun, pages, hub, LockInv, LockOf
<1>2. QueueStep(t) /\ ~Counted(job[t]) /\ job[t].at \notin Snapped
  BY <1>1, KeepStep, Labels DEF Counted
<1>3. CASE \E p \in PageFor(job[t].kind) :
              /\ driver # "none"
              /\ job' = [job EXCEPT ![t].at = "body", ![t].page = p, ![t].on = driver]
  <2>1. PICK p \in PageFor(job[t].kind) :
              /\ driver # "none"
              /\ job' = [job EXCEPT ![t].at = "body", ![t].page = p, ![t].on = driver]
    BY <1>3
  <2>2. p \in Pages \cup {None} /\ (job[t].kind = "open" => p \in Fresh)
    <3>1. tabs \subseteq Pages /\ (p \in Fresh => p \in Pages)
      BY <1>1, FreshIsFree DEF TypeOK
    <3>2. QED
      BY <2>1, <3>1 DEF PageFor
  <2> DEFINE j1 == [job[t] EXCEPT !.at = "body"]
             j2 == [j1 EXCEPT !.page = p]
             j3 == [j2 EXCEPT !.on = driver]
  <2>3. job' = [job EXCEPT ![t] = j3]
    BY <2>1
  <2>4. /\ j1 \in JobType /\ j1.snap = job[t].snap /\ j1.at = "body"
        /\ j1.then = job[t].then /\ j1.kind = job[t].kind
    BY <1>1, JobFields DEF JobType, Awaits
  <2> HIDE DEF j1
  <2>5. /\ j2 \in JobType /\ j2.snap = job[t].snap /\ j2.at = "body" /\ j2.page = p
        /\ j2.then = job[t].then /\ j2.kind = job[t].kind
    BY <2>2, <2>4 DEF JobType
  <2> HIDE DEF j2
  <2>6. /\ j3 \in JobType /\ j3.snap = job[t].snap /\ j3.at = "body" /\ j3.page = p
        /\ j3.then = job[t].then /\ j3.kind = job[t].kind /\ j3.on = driver
    BY <1>1, <2>5 DEF JobType, TypeOK
  <2> HIDE DEF j3
  <2>7. Moves(t) /\ job'[t] = j3
    BY <1>1, <2>3, <2>6, SetJob
  <2>8. /\ job'[t].at \notin InLock /\ job'[t].at \notin Snapped
        /\ job'[t].at \notin Inside /\ Counted(job'[t])
    BY <2>6, <2>7, Labels DEF Counted, Begun
  <2>9. Opening(t)' => job'[t].page \in Fresh /\ job'[t].on \in Backends
    BY <1>1, <2>1, <2>2, <2>6, <2>7 DEF Opening, TypeOK
  <2>10. IF t \in Tasks
         THEN depth' = depth + (IF Counted(job'[t]) THEN 1 ELSE 0)
                             - (IF Counted(job[t]) THEN 1 ELSE 0)
         ELSE depth' = depth
    BY <1>1, <1>2, <2>8
  <2>11. /\ job'[t].snap \in {job[t].snap, {}} /\ job'[t].then # "retry"
         /\ driver # "none"
    BY <1>1, <2>1, <2>6, <2>7
  <2>12. QED
    BY <1>1, <1>2, <2>7, <2>8, <2>9, <2>10, <2>11, QuietStep
<1>4. CASE GoTo(t, "end")
  <2>1. /\ Moves(t) /\ job'[t].at = "end" /\ job'[t].snap = job[t].snap
        /\ job'[t].then = job[t].then
    BY <1>1, <1>4, GoToMoves DEF Straight
  <2>2. /\ job'[t].at \notin InLock /\ job'[t].at \notin Snapped
        /\ job'[t].at \notin Inside /\ Counted(job'[t]) /\ ~Opening(t)'
    BY <2>1, Labels DEF Counted, Begun, Opening
  <2>3. QED
    BY <1>1, <1>2, <2>1, <2>2, QuietStep
<1>5. QED
  BY <1>3, <1>4 DEF Enter

LEMMA EndStep == ASSUME IInv, NEW t \in Tasks, End(t) PROVE IInv'
<1>1. /\ t \in Actors /\ TypeOK /\ job[t].at = "end"
      /\ job[t].at \notin InLock /\ job[t].at \notin Snapped /\ job[t].at \in Begun
      /\ UNCHANGED <<driver, session, changed, tabs, live, stray, lost, spoilt>>
      /\ pending \in BOOLEAN /\ session' \in BOOLEAN /\ changed' \in BOOLEAN
  BY Labels DEF Actors, IInv, TypeOK, End, Runs, Begun, pages, hub
<1>2. depth \in Nat /\ depth # 0 /\ depth' = depth - 1
  <2>1. t \in Commands
    BY <1>1 DEF Commands, Counted
  <2>2. depth = Cardinality(Commands) /\ depth \in Nat /\ depth # 0
    BY <2>1, CommandsFinite, FS_EmptySet DEF IInv, DepthInv
  <2>3. QED
    BY <2>2 DEF End
<1>3. CASE Activate(t, "extension", "idle") /\ pending' = FALSE
  <2>1. IF t \in Tasks THEN depth' = depth + (IF "idle" = "retry" THEN 1 ELSE 0)
                                        - (IF job[t].at \in Begun THEN 1 ELSE 0)
                       ELSE depth' = depth
    BY <1>1, <1>2
  <2>2. /\ "idle" \in {"idle", "watching", "retry", "rebuild", "preflight", "apply", "enter"}
        /\ "extension" \in Backends
    BY DEF Backends
  <2>3. QED
    BY <1>1, <1>3, <2>1, <2>2, ActivateStep
<1>4. CASE Finish(t) /\ UNCHANGED <<pending, queue>>
  <2>1. Moves(t) /\ job'[t] = NoJob
    BY <1>1, <1>4, EmptyJobs, SetJob DEF Finish
  <2>2. "idle" \notin InLock /\ "idle" \notin Snapped /\ "idle" \notin Begun
        /\ "idle" \notin Inside
    BY Labels DEF Begun
  <2>3. /\ ~Counted(job'[t]) /\ Counted(job[t]) /\ ~Opening(t)' /\ QueueStep(t)
        /\ job'[t].then # "retry" /\ job'[t].at \notin {"body", "retry"}
    BY <1>1, <1>4, <2>1, <2>2, EmptyJobs, KeepStep DEF Counted, Opening
  <2>4. QED
    BY <1>1, <1>2, <1>4, <2>1, <2>2, <2>3, EmptyJobs, QuietStep
<1>5. QED
  BY <1>3, <1>4 DEF End, ApplyPending

-----------------------------------------------------------------------------
(* A command or a repair that changes the tables of pages.                   *)
LEMMA PagesStep ==
    ASSUME IInv, NEW a \in Actors, Moves(a),
           UNCHANGED <<driver, spoilt, pending, session, changed, depth>>, QueueStep(a),
           job[a].at \notin InLock, job'[a].at \notin InLock \cup {"body", "retry"},
           Counted(job'[a]) <=> Counted(job[a]),
           job'[a].snap \in {job[a].snap, {}}, job'[a].then # "retry",
           tabs' \subseteq Pages, stray' \subseteq Pages, live' \in [Backends -> SUBSET Pages],
           lost' \subseteq Pages,
           tabs' \subseteq tabs \cup (IF Opening(a) THEN {job[a].page} ELSE {}),
           \A p \in tabs' \ stray' :
              \/ p \in tabs \ stray
              \/ p \in live'[driver] /\ \A b \in Actors : job[b].at \notin Snapped,
           driver # "none"
              => \A p \in tabs \cap tabs' : p \in live[driver] \cup lost
                                     => p \in live'[driver] \cup lost'
    PROVE  IInv'
<1>1. /\ Others(a) /\ DepthInv /\ LockInv /\ OpeningInv /\ SnapInv /\ RestInv /\ TypeOK
      /\ job[a].at \notin Snapped /\ job'[a].at \notin Snapped /\ job'[a].at \notin Inside
      /\ job'[a].at \notin Replaying /\ ~Opening(a)'
  BY Labels DEF Moves, IInv, Opening
<1>2. depth \in Nat
  BY <1>1 DEF TypeOK
<1>3. DepthInv'
  BY <1>1, <1>2, DepthStep
<1>4. LockInv'
  BY <1>1, <1>2, LockStep
<1>5. OpeningInv'
  <2>1. job'[a].snap \subseteq job[a].snap \cup tabs
    OBVIOUS
  <2>2. QED
    BY <1>1, <2>1, OpeningStep
<1>6. SnapInv' /\ RestInv'
  BY <1>1, BesideSnapshot
<1>7. TypeOK'
  BY <1>1 DEF TypeOK, Moves, QueueStep
<1>8. QED
  BY <1>3, <1>4, <1>5, <1>6, <1>7 DEF IInv

LEMMA AnsweredMoves ==
    ASSUME IInv, NEW t \in Tasks, Answered(t), job[t].at \in {"body", "retry"}
    PROVE  /\ t \in Actors /\ Moves(t) /\ QueueStep(t)
           /\ UNCHANGED <<driver, spoilt, pending, session, changed, queue, depth>>
           /\ job[t].at \notin InLock /\ job'[t].at \notin InLock \cup {"body", "retry"}
           /\ Counted(job'[t]) <=> Counted(job[t])
           /\ job'[t].snap = {} /\ job'[t].then = "idle"
<1>1. /\ t \in Actors /\ TypeOK /\ job[t] \in JobType
      /\ UNCHANGED <<driver, spoilt, pending, session, changed, queue, depth>>
  BY JobFields DEF Actors, IInv, Answered, hub
<1>2. job' = [job EXCEPT ![t] = Unwound(job[t])]
  BY DEF Answered, Unwound
<1>3. Unwound(job[t]) \in JobType
  BY <1>1, LeavesLock
<1>4. Moves(t) /\ job'[t] = Unwound(job[t])
  BY <1>1, <1>2, <1>3, SetJob
<1>5. /\ job[t].at \notin InLock /\ job[t].at \in Begun
      /\ job'[t].at \notin InLock /\ job'[t].at \notin {"body", "retry"}
      /\ job'[t].at \in Begun /\ job'[t].snap = {} /\ job'[t].then = "idle"
  BY <1>1, <1>4, LeavesLock, Labels DEF Begun
<1>6. QueueStep(t)
  BY <1>1, KeepStep
<1>7. QED
  BY <1>1, <1>4, <1>5, <1>6 DEF Counted

(* A close that fails or is cancelled with the page destroyed. *)
LEMMA UnnoticedPages ==
    ASSUME IInv, NEW t \in Tasks, CloseGoesUnnoticed(t) \/ UNCHANGED pages
    PROVE  /\ UNCHANGED <<tabs, stray>>
           /\ live' \in [Backends -> SUBSET Pages] /\ lost' \subseteq Pages
           /\ driver # "none"
                 => \A q \in tabs : q \in live[driver] \cup lost
                                       => q \in live'[driver] \cup lost'
<1>1. /\ live \in [Backends -> SUBSET Pages] /\ lost \subseteq Pages /\ tabs \subseteq Pages
      /\ driver \in Backends \cup {"none"}
  BY DEF IInv, TypeOK
<1>2. CASE UNCHANGED pages
  BY <1>1, <1>2 DEF pages
<1>3. CASE CloseGoesUnnoticed(t)
  <2> DEFINE p == job[t].page
             b == job[t].on
  <2>1. /\ live' = [live EXCEPT ![b] = @ \ {p}] /\ lost' = lost \cup ({p} \cap tabs)
        /\ UNCHANGED <<tabs, stray>>
    BY <1>3 DEF CloseGoesUnnoticed
  <2> HIDE DEF p, b
  <2>2. /\ live' \in [Backends -> SUBSET Pages] /\ lost' \subseteq Pages
        /\ \A c \in Backends : \A q \in live[c] : q # p => q \in live'[c]
    BY <1>1, <2>1
  <2>3. QED
    BY <1>1, <2>1, <2>2
<1>4. QED
  BY <1>2, <1>3

LEMMA AnswerStep ==
    ASSUME IInv, NEW t \in Tasks, CallFails(t) \/ PageDone(t) \/ ReadDone(t)
    PROVE  IInv'
<1>1. /\ Answered(t) /\ job[t].at \in {"body", "retry"}
      /\ CloseGoesUnnoticed(t) \/ UNCHANGED pages
  BY DEF CallFails, PageDone, ReadDone, Doing, Resumes
<1>2. /\ UNCHANGED <<tabs, stray>>
      /\ live' \in [Backends -> SUBSET Pages] /\ lost' \subseteq Pages
      /\ driver # "none"
            => \A q \in tabs : q \in live[driver] \cup lost => q \in live'[driver] \cup lost'
  BY <1>1, UnnoticedPages
<1>3. tabs \subseteq Pages /\ stray \subseteq Pages
  BY DEF IInv, TypeOK
<1>4. QED
  BY <1>1, <1>2, <1>3, AnsweredMoves, PagesStep

LEMMA OpenedStep == ASSUME IInv, NEW t \in Tasks, Opened(t) PROVE IInv'
<1> DEFINE p == job[t].page
           b == job[t].on
<1>1. /\ Answered(t) /\ job[t].at = "body" /\ job[t].kind = "open"
      /\ \A c \in Actors : job[c].at \in Awaits
      /\ live' = [live EXCEPT ![b] = @ \cup {p}] /\ tabs' = tabs \cup {p}
      /\ stray' = IF SnapshotTaken \/ b # driver THEN stray \cup {p} ELSE stray
      /\ UNCHANGED lost
  BY DEF Opened, Doing, Resumes
<1>2. /\ t \in Actors /\ Moves(t) /\ QueueStep(t)
      /\ UNCHANGED <<driver, spoilt, pending, session, changed, queue, depth>>
      /\ job[t].at \notin InLock /\ job'[t].at \notin InLock \cup {"body", "retry"}
      /\ Counted(job'[t]) <=> Counted(job[t])
      /\ job'[t].snap = {} /\ job'[t].then = "idle"
  BY <1>1, AnsweredMoves
<1>3. Opening(t) /\ p \in Pages /\ b \in Backends
  BY <1>1, <1>2 DEF Opening, IInv, OpeningInv
<1>4. /\ tabs \subseteq Pages /\ stray \subseteq Pages /\ live \in [Backends -> SUBSET Pages]
      /\ lost \subseteq Pages
      /\ driver \in Backends \cup {"none"} /\ "none" \notin Backends
  BY DEF IInv, TypeOK, Backends
<1>5. ~SnapshotTaken => \A c \in Actors : job[c].at \notin Snapped
  BY <1>1 DEF SnapshotTaken, Snapped, Awaits, Held
<1> HIDE DEF p, b
<1>6. /\ tabs' \subseteq Pages /\ stray' \subseteq Pages /\ live' \in [Backends -> SUBSET Pages]
      /\ lost' \subseteq Pages
      /\ \A c \in Backends : live[c] \subseteq live'[c] /\ p \in live'[b]
  BY <1>1, <1>3, <1>4
<1>7. tabs' \subseteq tabs \cup (IF Opening(t) THEN {job[t].page} ELSE {})
  BY <1>1, <1>3 DEF p
<1>8. \A q \in tabs' \ stray' :
         \/ q \in tabs \ stray
         \/ q \in live'[driver] /\ \A c \in Actors : job[c].at \notin Snapped
  BY <1>1, <1>5, <1>6
<1>9. driver # "none"
         => \A q \in tabs \cap tabs' : q \in live[driver] \cup lost
                                 => q \in live'[driver] \cup lost'
  BY <1>1, <1>4, <1>6
<1>10. QED
  BY <1>2, <1>6, <1>7, <1>8, <1>9, PagesStep

LEMMA ClosedStep == ASSUME IInv, NEW t \in Tasks, Closed(t) PROVE IInv'
<1> DEFINE p == job[t].page
           b == job[t].on
<1>1. /\ Answered(t) /\ job[t].at = "body"
      /\ live' = [live EXCEPT ![b] = @ \ {p}] /\ tabs' = tabs \ {p}
      /\ stray' = stray \ {p} /\ lost' = lost \ {p}
  BY DEF Closed, Doing, Resumes
<1>2. /\ t \in Actors /\ Moves(t) /\ QueueStep(t)
      /\ UNCHANGED <<driver, spoilt, pending, session, changed, queue, depth>>
      /\ job[t].at \notin InLock /\ job'[t].at \notin InLock \cup {"body", "retry"}
      /\ Counted(job'[t]) <=> Counted(job[t])
      /\ job'[t].snap = {} /\ job'[t].then = "idle"
  BY <1>1, AnsweredMoves
<1>3. /\ tabs \subseteq Pages /\ stray \subseteq Pages /\ live \in [Backends -> SUBSET Pages]
      /\ lost \subseteq Pages
      /\ driver \in Backends \cup {"none"}
  BY DEF IInv, TypeOK
<1> HIDE DEF p, b
<1>4. /\ tabs' \subseteq Pages /\ stray' \subseteq Pages /\ live' \in [Backends -> SUBSET Pages]
      /\ lost' \subseteq Pages
      /\ \A c \in Backends : \A q \in live[c] : q # p => q \in live'[c]
  BY <1>1, <1>3
<1>5. /\ tabs' \subseteq tabs \cup (IF Opening(t) THEN {job[t].page} ELSE {})
      /\ \A q \in tabs' \ stray' : q \in tabs \ stray
      /\ driver # "none"
            => \A q \in tabs \cap tabs' : q \in live[driver] \cup lost
                                    => q \in live'[driver] \cup lost'
  BY <1>1, <1>3, <1>4
<1>6. QED
  BY <1>2, <1>4, <1>5, PagesStep

LEMMA RebuiltStep == ASSUME IInv, NEW t \in Tasks, Rebuilt(t) PROVE IInv'
<1>1. /\ t \in Actors /\ TypeOK /\ job[t].at = "rebuilding"
      /\ Finish(t) \/ GoTo(t, "check")
      /\ UNCHANGED <<driver, depth, pending, session, changed, queue, stray, spoilt>>
      /\ \/ /\ tabs' = {} /\ lost' = {}
            /\ live' = [live EXCEPT !["extension"] = {}]
         \/ UNCHANGED <<tabs, lost, live>>
  BY DEF Actors, IInv, Rebuilt, AfterRebuild, Resumes, hub
<1>2. job[t].at \notin InLock /\ job[t].at \notin Begun /\ job[t].then # "retry"
  BY <1>1, Labels DEF Begun, IInv, LockInv, LockOf
<1>3. /\ Moves(t) /\ job'[t].at \in {"idle", "check"}
      /\ job'[t].snap \in {job[t].snap, {}} /\ job'[t].then # "retry"
  <2>1. CASE Finish(t)
    BY <1>1, <2>1, EmptyJobs, SetJob DEF Finish
  <2>2. CASE GoTo(t, "check")
    BY <1>1, <1>2, <2>2, GoToMoves DEF Straight
  <2>3. QED
    BY <1>1, <2>1, <2>2
<1>4. /\ job'[t].at \notin InLock \cup {"body", "retry"}
      /\ Counted(job'[t]) <=> Counted(job[t])
  BY <1>2, <1>3, Labels DEF Counted, Begun
<1>5. /\ tabs \subseteq Pages /\ stray \subseteq Pages /\ live \in [Backends -> SUBSET Pages]
      /\ lost \subseteq Pages
  BY <1>1 DEF TypeOK
<1>6. /\ tabs' \subseteq Pages /\ stray' \subseteq Pages /\ live' \in [Backends -> SUBSET Pages]
      /\ lost' \subseteq Pages
      /\ tabs' \subseteq tabs \cup (IF Opening(t) THEN {job[t].page} ELSE {})
      /\ \A q \in tabs' \ stray' : q \in tabs \ stray
      /\ \A q \in tabs \cap tabs' : q \in live[driver] \cup lost => q \in live'[driver] \cup lost'
  BY <1>1, <1>5
<1>7. QueueStep(t)
  BY <1>1, KeepStep
<1>8. QED
  BY <1>1, <1>2, <1>3, <1>4, <1>6, <1>7, PagesStep

LEMMA FallBackStep == ASSUME IInv, NEW t \in Tasks, ReadFallsBack(t) PROVE IInv'
<1>1. /\ t \in Actors /\ TypeOK /\ job[t].at = "body" /\ Activate(t, "playwright", "retry")
      /\ UNCHANGED <<driver, depth, pending, session, changed, tabs, live, stray, lost, spoilt>>
      /\ job[t].at \notin InLock /\ job[t].at \in Begun /\ "playwright" \in Backends
  BY Labels DEF Actors, IInv, ReadFallsBack, Doing, Resumes, pages, hub, Begun, Backends
<1>2. /\ pending' \in BOOLEAN /\ session' \in BOOLEAN /\ changed' \in BOOLEAN
      /\ IF t \in Tasks THEN depth' = depth + (IF "retry" = "retry" THEN 1 ELSE 0)
                                          - (IF job[t].at \in Begun THEN 1 ELSE 0)
                        ELSE depth' = depth
      /\ "retry" \in {"idle", "watching", "retry", "rebuild", "preflight", "apply", "enter"}
  BY <1>1 DEF TypeOK
<1>3. QED
  BY <1>1, <1>2, ActivateStep

-----------------------------------------------------------------------------
(* Under the lock: the steps of the one actor that has it. *)
LEMMA SnapshotStep ==
    ASSUME IInv, NEW a \in Actors, Moves(a), QueueStep(a), job[a].at \in Inside,
           UNCHANGED <<session, changed, tabs, depth>>,
           pending' \in BOOLEAN, spoilt' \in BOOLEAN,
           driver' \in Backends \cup {"none"}, live' \in [Backends -> SUBSET Pages],
           lost' \subseteq Pages,
           stray' \subseteq Pages,
           job'[a].at \in InLock => job'[a].target \in Backends /\ Waits(a)',
           job'[a].at \in Inside => queue'[1] = a,
           job'[a].at \in Replaying => driver' = job'[a].target,
           job'[a].then = "retry" => job'[a].at \in InLock,
           job'[a].snap \subseteq job[a].snap \cup tabs, job'[a].at # "body",
           Counted(job'[a]) <=> Counted(job[a]),
           job'[a].at \in Snapped => tabs \ stray' \subseteq job'[a].snap,
           job'[a].at \in Replaying
              => (job'[a].snap \ job'[a].todo) \cap tabs \subseteq live'[driver'] \cup lost',
           job'[a].at \in {"replayed", "settling"} => job'[a].todo = {},
           job'[a].at \notin Snapped
              => spoilt' \/ (driver' # "none" /\ tabs \ stray' \subseteq live'[driver'] \cup lost')
    PROVE  IInv'
<1>1. /\ Others(a) /\ DepthInv /\ LockInv /\ OpeningInv /\ SnapInv /\ RestInv /\ TypeOK
      /\ depth \in Nat /\ ~Opening(a)'
  BY DEF Moves, IInv, Opening, TypeOK
<1>2. DepthInv'
  BY <1>1, DepthStep
<1>3. LockInv'
  BY <1>1, LockStep
<1>4. OpeningInv'
  BY <1>1, OpeningStep
<1>5. SnapInv' /\ RestInv'
  BY <1>1, WithSnapshot
<1>6. TypeOK'
  BY <1>1 DEF TypeOK, Moves, QueueStep
<1>7. QED
  BY <1>2, <1>3, <1>4, <1>5, <1>6 DEF IInv

(* It stays there, ... *)
LEMMA StaysStep ==
    ASSUME IInv, NEW a \in Actors, job[a].at \in Inside,
           NEW j \in JobType, job' = [job EXCEPT ![a] = j],
           j.at \in Snapped, j.target = job[a].target, j.then = job[a].then,
           UNCHANGED <<session, changed, tabs, depth, queue, pending, spoilt, stray>>,
           driver' \in Backends \cup {"none"}, live' \in [Backends -> SUBSET Pages],
           lost' \subseteq Pages,
           j.snap \subseteq job[a].snap \cup tabs, tabs \ stray \subseteq j.snap,
           j.at \in Replaying => driver' = j.target,
           j.at \in Replaying => (j.snap \ j.todo) \cap tabs \subseteq live'[driver'] \cup lost',
           j.at \in {"replayed", "settling"} => j.todo = {}
    PROVE  IInv'
<1>1. TypeOK /\ LockOf(job[a], a)
  BY DEF IInv, LockInv
<1>2. Moves(a) /\ job'[a] = j /\ QueueStep(a)
  BY <1>1, SetJob, KeepStep
<1>3. /\ j.at \in InLock /\ j.at \in Inside /\ j.at # "body" /\ j.at \notin Begun
      /\ job[a].at \in InLock /\ job[a].at \notin Begun
  BY Labels DEF Begun
<1>4. /\ job[a].target \in Backends /\ Waits(a) /\ Waits(a)' /\ queue'[1] = a
  BY <1>1, <1>3 DEF LockOf, Waits
<1>5. Counted(j) <=> Counted(job[a])
  BY <1>3 DEF Counted
<1>6. /\ pending' \in BOOLEAN /\ spoilt' \in BOOLEAN /\ stray' \subseteq Pages
  BY <1>1 DEF TypeOK
<1>7. QED
  BY <1>2, <1>3, <1>4, <1>5, <1>6, SnapshotStep

(* ... or it leaves the lock. *)
LEMMA LeavesStep ==
    ASSUME IInv, NEW a \in Actors, job[a].at \in Inside,
           NEW j \in JobType, job' = [job EXCEPT ![a] = j], QueueStep(a),
           j.at \notin InLock, j.at # "body", j.snap = {}, j.then = "idle",
           j.at \in Begun <=> job[a].then = "retry",
           UNCHANGED <<session, changed, tabs, depth>>,
           pending' \in BOOLEAN, spoilt' \in BOOLEAN, stray' \subseteq Pages,
           driver' \in Backends \cup {"none"}, live' \in [Backends -> SUBSET Pages],
           lost' \subseteq Pages,
           spoilt' \/ (driver' # "none" /\ tabs \ stray' \subseteq live'[driver'] \cup lost')
    PROVE  IInv'
<1>1. Moves(a) /\ job'[a] = j
  BY SetJob DEF IInv
<1>2. /\ j.at \notin Inside /\ j.at \notin Snapped /\ j.at \notin Replaying
      /\ j.at \notin {"replayed", "settling"}
      /\ job[a].at \in InLock /\ job[a].at \notin Begun
  BY Labels DEF Begun
<1>3. Counted(j) <=> Counted(job[a])
  BY <1>2 DEF Counted
<1>4. QED
  BY <1>1, <1>2, <1>3, SnapshotStep

(* The lock is left at its head. *)
LEMMA TailLeaves ==
    ASSUME IInv, NEW a \in Actors, job[a].at \in Inside, queue' = Tail(queue)
    PROVE  QueueStep(a)
<1>1. TypeOK /\ LockOf(job[a], a) /\ job[a].at \in InLock
  BY Labels DEF IInv, LockInv
<1>2. QED
  BY <1>1, TailStep DEF LockOf, Waits

LEMMA BreakOffStep ==
    ASSUME IInv, NEW a \in Actors, job[a].at \in Inside, BreakOff(a),
           UNCHANGED <<session, changed, tabs, depth, stray>>,
           driver' \in Backends \cup {"none"}, live' \in [Backends -> SUBSET Pages],
           lost' \subseteq Pages
    PROVE  IInv'
<1> DEFINE j == Failed(job[a])
<1>1. job[a] \in JobType /\ TypeOK
  BY JobFields DEF IInv
<1>2. /\ j \in JobType /\ j.at \notin InLock /\ j.at # "body" /\ j.snap = {}
      /\ j.then = "idle" /\ (j.at \in Begun <=> job[a].then = "retry")
  BY <1>1, LeavesLock
<1>3. job' = [job EXCEPT ![a] = j]
  BY DEF BreakOff
<1>4. /\ QueueStep(a) /\ spoilt' = TRUE /\ pending' \in BOOLEAN /\ stray' \subseteq Pages
  BY <1>1, TailLeaves DEF BreakOff, TypeOK
<1> HIDE DEF j
<1>5. QED
  BY <1>2, <1>3, <1>4, LeavesStep

LEMMA InPlaceStep ==
    ASSUME IInv, NEW a \in Actors, job[a].at \in Inside, NEW snap \in SUBSET Pages,
           InPlace(a, snap),
           UNCHANGED <<session, changed, tabs, depth, stray>>,
           live' \in [Backends -> SUBSET Pages],
           lost' \subseteq Pages,
           snap \subseteq job[a].snap \cup tabs, tabs \ stray \subseteq snap
    PROVE  IInv'
<1> DEFINE w == IF snap = {} THEN "replayed" ELSE "replay"
           j1 == [job[a] EXCEPT !.at = w]
           j2 == [j1 EXCEPT !.snap = snap]
           j3 == [j2 EXCEPT !.todo = snap]
<1>1. TypeOK /\ job[a].target \in Backends
  BY Labels DEF IInv, LockInv, LockOf
<1>2. /\ w \in Straight \cup Awaits /\ w \in {"replayed", "replay"}
      /\ w = "replayed" => snap = {}
  BY DEF Straight, Awaits, Held
<1>3. /\ job' = [job EXCEPT ![a] = j3] /\ driver' = job[a].target
      /\ UNCHANGED <<queue, pending, spoilt>>
  BY DEF InPlace
<1> HIDE DEF w
<1>4. /\ j1 \in JobType /\ j1.at = w /\ j1.target = job[a].target /\ j1.then = job[a].then
  BY <1>1, <1>2, JobFields DEF JobType
<1> HIDE DEF j1
<1>5. /\ j2 \in JobType /\ j2.at = w /\ j2.target = job[a].target /\ j2.then = job[a].then
      /\ j2.snap = snap
  BY <1>4 DEF JobType
<1> HIDE DEF j2
<1>6. /\ j3 \in JobType /\ j3.at = w /\ j3.target = job[a].target /\ j3.then = job[a].then
      /\ j3.snap = snap /\ j3.todo = snap
  BY <1>5 DEF JobType
<1> HIDE DEF j3
<1>7. /\ j3.at \in Snapped /\ (j3.snap \ j3.todo) \cap tabs = {}
      /\ j3.at \in {"replayed", "settling"} => j3.todo = {}
  BY <1>2, <1>6, Labels
<1>8. QED
  BY <1>1, <1>3, <1>6, <1>7, StaysStep

(* The steps from which the replay has not begun. *)
LEMMA WaitingStep ==
    ASSUME IInv, NEW a \in Actors, job[a].at \in Inside, NEW snap \in SUBSET Pages,
           NEW w \in {"stopping", "starting"},
           job' = [job EXCEPT ![a].at = w, ![a].snap = snap],
           UNCHANGED <<session, changed, tabs, depth, stray, queue, pending, spoilt>>,
           driver' \in Backends \cup {"none"}, live' \in [Backends -> SUBSET Pages],
           lost' \subseteq Pages,
           snap \subseteq job[a].snap \cup tabs, tabs \ stray \subseteq snap
    PROVE  IInv'
<1> DEFINE j1 == [job[a] EXCEPT !.at = w]
           j2 == [j1 EXCEPT !.snap = snap]
<1>1. TypeOK /\ w \in Straight \cup Awaits
  BY DEF IInv, Awaits, Held
<1>2. job' = [job EXCEPT ![a] = j2]
  OBVIOUS
<1>3. /\ j1 \in JobType /\ j1.at = w /\ j1.target = job[a].target /\ j1.then = job[a].then
  BY <1>1, JobFields DEF JobType
<1> HIDE DEF j1
<1>4. /\ j2 \in JobType /\ j2.at = w /\ j2.target = job[a].target /\ j2.then = job[a].then
      /\ j2.snap = snap
  BY <1>3 DEF JobType
<1> HIDE DEF j2
<1>5. j2.at \in Snapped /\ j2.at \notin Replaying /\ j2.at \notin {"replayed", "settling"}
  BY <1>4, Labels
<1>6. QED
  BY <1>2, <1>4, <1>5, StaysStep

LEMMA StartTargetStep ==
    ASSUME IInv, NEW a \in Actors, job[a].at \in Inside, NEW snap \in SUBSET Pages,
           StartTarget(a, snap),
           UNCHANGED <<session, changed, tabs, depth, stray>>,
           live' \in [Backends -> SUBSET Pages],
           lost' \subseteq Pages,
           snap \subseteq job[a].snap \cup tabs, tabs \ stray \subseteq snap
    PROVE  IInv'
<1>1. CASE InPlace(a, snap)
  BY <1>1, InPlaceStep
<1>2. CASE driver' = "none" /\ BreakOff(a)
  BY <1>2, BreakOffStep
<1>3. CASE /\ driver' = "none"
           /\ job' = [job EXCEPT ![a].at = "starting", ![a].snap = snap]
           /\ UNCHANGED <<queue, pending, spoilt>>
  BY <1>3, WaitingStep
<1>4. QED
  BY <1>1, <1>2, <1>3 DEF StartTarget

LEMMA DoneStep ==
    ASSUME IInv, NEW a \in Actors, job[a].at \in {"replayed", "settling"}, Done(a),
           UNCHANGED <<driver, session, changed, tabs, live, lost, depth, pending>>
    PROVE  IInv'
<1> DEFINE j == Continued(job[a])
<1>1. /\ job[a] \in JobType /\ TypeOK /\ job[a].at \in Inside /\ job[a].at \in Snapped
      /\ job[a].at \in Replaying /\ job[a].at \in InLock
  BY JobFields, Labels DEF IInv
<1>2. /\ j \in JobType /\ j.at \notin InLock /\ j.at # "body" /\ j.snap = {}
      /\ j.then = "idle" /\ (j.at \in Begun <=> job[a].then = "retry")
  BY <1>1, LeavesLock
<1>3. /\ job' = [job EXCEPT ![a] = j] /\ queue' = Tail(queue)
      /\ stray' = stray \ job[a].snap /\ spoilt' = FALSE
  BY DEF Done
<1>4. QueueStep(a)
  BY <1>1, <1>3, TailLeaves
<1>5. driver # "none" /\ tabs \ stray' \subseteq live[driver] \cup lost
  <2>1. driver \in Backends
    BY <1>1 DEF IInv, LockInv, LockOf
  <2>2. tabs \ stray \subseteq job[a].snap /\ job[a].snap \cap tabs \subseteq live[driver] \cup lost
    BY <1>1 DEF IInv, SnapInv
  <2>3. QED
    BY <1>3, <2>1, <2>2 DEF Backends
<1>6. /\ pending' \in BOOLEAN /\ spoilt' \in BOOLEAN /\ stray' \subseteq Pages
      /\ driver' \in Backends \cup {"none"} /\ live' \in [Backends -> SUBSET Pages]
      /\ lost' \subseteq Pages
  BY <1>1, <1>3 DEF TypeOK
<1> HIDE DEF j
<1>7. QED
  BY <1>1, <1>2, <1>3, <1>4, <1>5, <1>6, LeavesStep

LEMMA GetLockStep == ASSUME IInv, NEW a \in Actors, GetLock(a) PROVE IInv'
<1>1. /\ TypeOK /\ LockOf(job[a], a) /\ job[a].at = "queued" /\ GoTo(a, "locked")
      /\ Head(queue) = a
      /\ UNCHANGED <<driver, depth, pending, session, changed, queue, tabs, live, stray,
                     lost, spoilt>>
  BY DEF IInv, LockInv, GetLock, Resumes, hub, pages
<1>2. /\ Moves(a) /\ job'[a].at = "locked" /\ job'[a].target = job[a].target
      /\ job'[a].then = job[a].then /\ job'[a].snap = job[a].snap
  BY <1>1, GoToMoves DEF Straight
<1>3. /\ job[a].at \in InLock /\ job'[a].at \in InLock /\ job[a].at \notin Snapped
      /\ job'[a].at \notin Snapped /\ job'[a].at \notin {"body", "retry"}
      /\ job[a].at \notin Begun /\ job'[a].at \notin Begun /\ ~Opening(a)'
  BY <1>1, <1>2, Labels DEF Begun, Opening
<1>4. job[a].target \in Backends /\ Waits(a) /\ Waits(a)' /\ queue[1] = a /\ QueueStep(a)
  BY <1>1, <1>3, KeepStep DEF LockOf, Waits, TypeOK
<1>5. (Counted(job'[a]) <=> Counted(job[a])) /\ depth \in Nat
  BY <1>1, <1>2, <1>3 DEF Counted, TypeOK
<1>6. /\ pending' \in BOOLEAN /\ session' \in BOOLEAN /\ changed' \in BOOLEAN
      /\ IF a \in Tasks
         THEN depth' = depth + (IF Counted(job'[a]) THEN 1 ELSE 0)
                             - (IF Counted(job[a]) THEN 1 ELSE 0)
         ELSE depth' = depth
  BY <1>1, <1>5 DEF TypeOK
<1>7. QED
  BY <1>1, <1>2, <1>3, <1>4, <1>6, QuietStep

LEMMA AlreadyThereStep == ASSUME IInv, NEW a \in Actors, AlreadyThere(a) PROVE IInv'
<1> DEFINE j == Continued(job[a])
<1>1. /\ TypeOK /\ job[a] \in JobType /\ LockOf(job[a], a)
      /\ job[a].at = "locked" /\ driver = job[a].target
      /\ queue' = Tail(queue) /\ job' = [job EXCEPT ![a] = j]
      /\ UNCHANGED <<driver, depth, pending, session, changed, tabs, live, stray, lost, spoilt>>
  BY JobFields DEF IInv, LockInv, AlreadyThere, Runs, hub, pages
<1>2. job[a].at \in Inside /\ job[a].at \in InLock /\ job[a].at \notin Snapped
  BY <1>1, Labels
<1>3. QueueStep(a)
  BY <1>1, <1>2, TailLeaves
<1>4. driver \in Backends /\ driver # "none"
  BY <1>1, <1>2 DEF LockOf, Backends
<1>5. spoilt \/ tabs \ stray \subseteq live[driver] \cup lost
  <2>1. \A b \in Actors : job[b].at \notin Snapped
    BY <1>2, AloneInside DEF IInv
  <2>2. QED
    BY <1>4, <2>1 DEF IInv, RestInv
<1>6. /\ j \in JobType /\ j.at \notin InLock /\ j.at # "body" /\ j.snap = {}
      /\ j.then = "idle" /\ (j.at \in Begun <=> job[a].then = "retry")
  BY <1>1, LeavesLock
<1>7. /\ pending' \in BOOLEAN /\ spoilt' \in BOOLEAN /\ stray' \subseteq Pages
      /\ driver' \in Backends \cup {"none"} /\ live' \in [Backends -> SUBSET Pages]
      /\ lost' \subseteq Pages
  BY <1>1 DEF TypeOK
<1> HIDE DEF j
<1>8. QED
  BY <1>1, <1>2, <1>3, <1>4, <1>5, <1>6, <1>7, LeavesStep

LEMMA TakeSnapshotStep == ASSUME IInv, NEW a \in Actors, TakeSnapshot(a) PROVE IInv'
<1>1. /\ TypeOK /\ job[a].at = "locked" /\ job[a].at \in Inside
      /\ UNCHANGED <<session, changed, tabs, depth, stray>>
      /\ tabs \in SUBSET Pages /\ live \in [Backends -> SUBSET Pages] /\ lost \subseteq Pages
      /\ driver \in Backends \cup {"none"}
  BY Labels DEF IInv, TypeOK, TakeSnapshot, Runs, hub
<1>2. CASE StartTarget(a, tabs) /\ live' \in [Backends -> SUBSET Pages] /\ lost' \subseteq Pages
  BY <1>1, <1>2, StartTargetStep
<1>3. CASE /\ job' = [job EXCEPT ![a].at = "stopping", ![a].snap = tabs]
           /\ UNCHANGED <<driver, queue, pending, spoilt, live, lost>>
  BY <1>1, <1>3, WaitingStep
<1>4. QED
  BY <1>1, <1>2, <1>3 DEF TakeSnapshot, NothingLeft, Backends

LEMMA OldStoppedStep == ASSUME IInv, NEW a \in Actors, OldStopped(a) PROVE IInv'
<1>1. /\ TypeOK /\ job[a].at = "stopping" /\ job[a].at \in Inside /\ job[a].at \in Snapped
      /\ StartTarget(a, job[a].snap) /\ live' = [live EXCEPT ![driver] = {}] /\ lost' = {}
      /\ UNCHANGED <<session, changed, tabs, depth, stray>>
  BY Labels DEF IInv, OldStopped, NothingLeft, Resumes, hub
<1>2. job[a].snap \in SUBSET Pages /\ tabs \ stray \subseteq job[a].snap
  BY <1>1, JobFields DEF IInv, SnapInv
<1>3. live' \in [Backends -> SUBSET Pages] /\ lost' \subseteq Pages
  BY <1>1 DEF TypeOK
<1>4. QED
  BY <1>1, <1>2, <1>3, StartTargetStep

LEMMA PlaywrightStartsStep == ASSUME IInv, NEW a \in Actors, PlaywrightStarts(a) PROVE IInv'
<1>1. /\ TypeOK /\ job[a].at = "starting" /\ job[a].at \in Inside /\ job[a].at \in Snapped
      /\ UNCHANGED <<session, changed, tabs, depth, stray, live, lost>>
      /\ live \in [Backends -> SUBSET Pages]
      /\ lost \subseteq Pages /\ driver \in Backends \cup {"none"}
  BY Labels DEF IInv, TypeOK, PlaywrightStarts, Resumes, hub, pages
<1>2. job[a].snap \in SUBSET Pages /\ tabs \ stray \subseteq job[a].snap
  BY <1>1, JobFields DEF IInv, SnapInv
<1>3. CASE InPlace(a, job[a].snap)
  BY <1>1, <1>2, <1>3, InPlaceStep
<1>4. CASE BreakOff(a) /\ UNCHANGED driver
  BY <1>1, <1>4, BreakOffStep
<1>5. QED
  BY <1>3, <1>4 DEF PlaywrightStarts

LEMMA ReopenStep == ASSUME IInv, NEW a \in Actors, Reopen(a) PROVE IInv'
<1>1. /\ TypeOK /\ job[a].at = "replay" /\ job[a].at \in Inside /\ job[a].at \in Snapped
      /\ job[a].at \in Replaying /\ job[a].at \in InLock
      /\ UNCHANGED <<driver, session, changed, tabs, depth, queue, pending, spoilt, stray>>
      /\ live \in [Backends -> SUBSET Pages]
      /\ lost \subseteq Pages /\ driver \in Backends \cup {"none"}
  BY Labels DEF IInv, TypeOK, Reopen, Resumes, hub
<1>2. PICK p \in job[a].todo :
        /\ live' = [live EXCEPT ![driver] = @ \cup {p}] /\ lost' = lost \ {p}
        /\ job' = [job EXCEPT ![a].todo = @ \ {p},
                              ![a].at = IF job[a].todo = {p} THEN "replayed" ELSE "replay"]
  BY DEF Reopen
<1>3. /\ driver = job[a].target /\ driver \in Backends
      /\ tabs \ stray \subseteq job[a].snap
      /\ (job[a].snap \ job[a].todo) \cap tabs \subseteq live[driver] \cup lost
      /\ job[a].snap \in SUBSET Pages /\ job[a].todo \in SUBSET Pages
  BY <1>1, JobFields DEF IInv, LockInv, LockOf, SnapInv
<1> DEFINE w == IF job[a].todo = {p} THEN "replayed" ELSE "replay"
           rest == job[a].todo \ {p}
           j1 == [job[a] EXCEPT !.todo = rest]
           j2 == [j1 EXCEPT !.at = w]
<1>4. /\ w \in Straight \cup Awaits /\ w \in {"replayed", "replay"}
      /\ w = "replayed" => rest = {}
  BY DEF Straight, Awaits, Held
<1>5. job' = [job EXCEPT ![a] = j2]
  BY <1>2
<1>6. /\ rest \subseteq Pages
      /\ (job[a].snap \ rest) \cap tabs \subseteq live[driver] \cup lost \cup {p}
  BY <1>3
<1> HIDE DEF w, rest
<1>7. /\ j1 \in JobType /\ j1.target = job[a].target /\ j1.then = job[a].then
      /\ j1.snap = job[a].snap /\ j1.todo = rest
  BY <1>1, <1>6, JobFields DEF JobType
<1> HIDE DEF j1
<1>8. /\ j2 \in JobType /\ j2.target = job[a].target /\ j2.then = job[a].then
      /\ j2.snap = job[a].snap /\ j2.todo = rest /\ j2.at = w
  BY <1>4, <1>7 DEF JobType
<1> HIDE DEF j2
<1>9. /\ live' \in [Backends -> SUBSET Pages] /\ lost' \subseteq Pages
      /\ (j2.snap \ j2.todo) \cap tabs \subseteq live'[driver'] \cup lost'
  BY <1>1, <1>2, <1>3, <1>6, <1>8
<1>10. j2.at \in Snapped /\ (j2.at \in {"replayed", "settling"} => j2.todo = {})
  BY <1>4, <1>8, Labels
<1>11. QED
  BY <1>1, <1>3, <1>5, <1>8, <1>9, <1>10, StaysStep

LEMMA ReopenFailsStep == ASSUME IInv, NEW a \in Actors, ReopenFails(a) PROVE IInv'
<1>1. /\ TypeOK /\ job[a].at = "replay" /\ job[a].at \in Inside /\ BreakOff(a)
      /\ UNCHANGED <<driver, session, changed, tabs, depth, stray, lost>>
      /\ live \in [Backends -> SUBSET Pages]
      /\ lost \subseteq Pages /\ driver \in Backends \cup {"none"}
  BY Labels DEF IInv, TypeOK, ReopenFails, Resumes, hub
<1>2. PICK p \in job[a].todo, known \in BOOLEAN :
        live' = [live EXCEPT ![driver] = IF known THEN @ \cup {p} ELSE @]
  BY DEF ReopenFails
<1>3. p \in Pages
  BY <1>1, JobFields
<1>4. live' \in [Backends -> SUBSET Pages] /\ lost' \subseteq Pages
  BY <1>1, <1>2, <1>3
<1>5. QED
  BY <1>1, <1>4, BreakOffStep

LEMMA ReplayedStep == ASSUME IInv, NEW a \in Actors, Replayed(a) PROVE IInv'
<1>1. /\ TypeOK /\ job[a].at = "replayed" /\ job[a].at \in Inside /\ job[a].at \in Snapped
      /\ job[a].at \in Replaying /\ job[a].at \in InLock
      /\ UNCHANGED <<driver, session, changed, tabs, depth, live, lost>>
      /\ live \in [Backends -> SUBSET Pages]
      /\ lost \subseteq Pages /\ driver \in Backends \cup {"none"}
  BY Labels DEF IInv, TypeOK, Replayed, Runs, hub
<1>2. CASE Done(a) /\ UNCHANGED pending
  BY <1>1, <1>2, DoneStep
<1>3. CASE GoTo(a, "settling") /\ UNCHANGED <<queue, pending, stray, spoilt>>
  <2> DEFINE j == [job[a] EXCEPT !.at = "settling"]
  <2>1. job' = [job EXCEPT ![a] = j]
    BY <1>3 DEF GoTo
  <2>2. /\ j \in JobType /\ j.target = job[a].target /\ j.then = job[a].then
        /\ j.snap = job[a].snap /\ j.todo = job[a].todo /\ j.at = "settling"
    BY <1>1, JobFields DEF JobType, Awaits, Held
  <2>3. /\ driver = job[a].target /\ tabs \ stray \subseteq job[a].snap
        /\ (job[a].snap \ job[a].todo) \cap tabs \subseteq live[driver] \cup lost
        /\ job[a].todo = {}
    BY <1>1 DEF IInv, LockInv, LockOf, SnapInv
  <2> HIDE DEF j
  <2>4. j.at \in Snapped
    BY <2>2, Labels
  <2>5. QED
    BY <1>1, <1>3, <2>1, <2>2, <2>3, <2>4, StaysStep
<1>4. CASE BreakOff(a) /\ UNCHANGED stray
  BY <1>1, <1>4, BreakOffStep
<1>5. QED
  BY <1>2, <1>3, <1>4 DEF Replayed

LEMMA SettleStep == ASSUME IInv, NEW a \in Actors, Settle(a) PROVE IInv'
<1>1. /\ job[a].at = "settling" /\ Done(a)
      /\ UNCHANGED <<driver, session, changed, tabs, live, lost, depth, pending>>
  BY DEF Settle, Resumes, hub
<1>2. QED
  BY <1>1, DoneStep

LEMMA RebindingStep == ASSUME IInv, NEW a \in Actors, Rebinding(a) PROVE IInv'
BY GetLockStep, AlreadyThereStep, TakeSnapshotStep, OldStoppedStep, PlaywrightStartsStep,
   ReopenStep, ReopenFailsStep, ReplayedStep, SettleStep DEF Rebinding

-----------------------------------------------------------------------------
(* A task is cancelled.  Where it had begun to replace the backend, the      *)
(* activation is broken off; where it was settling, every page is there.     *)
LEMMA CancelStep == ASSUME IInv, NEW t \in Tasks, Cancel(t) PROVE IInv'
<1> DEFINE j == Unwound(job[t])
<1>1. /\ t \in Actors /\ TypeOK /\ job[t] \in JobType /\ LockOf(job[t], t)
      /\ job[t].at \in Awaits
      /\ UNCHANGED <<driver, session, changed, depth, pending>>
      /\ job' = [job EXCEPT ![t] = j] /\ queue' = Without(t)
      /\ spoilt' = (spoilt \/ job[t].at \in Held \ {"settling"})
  BY JobFields DEF Actors, IInv, LockInv, Cancel, Resumes, hub
<1>. UNCHANGED <<tabs, stray>>
  BY DEF Cancel, CloseGoesUnnoticed, pages
<1>2. /\ Moves(t) /\ job'[t] = j /\ QueueStep(t)
      /\ j \in JobType /\ j.at \notin InLock /\ j.at \notin {"body", "retry"} /\ j.snap = {}
      /\ j.then = "idle"
      /\ (j.at \in Begun <=> (job[t].at \in {"body", "retry"} \/ job[t].then = "retry"))
  BY <1>1, LeavesLock, SetJob, WithoutStep
<1>3. live' \in [Backends -> SUBSET Pages] /\ lost' \subseteq Pages /\ spoilt' \in BOOLEAN
  <2>1. spoilt' \in BOOLEAN /\ live \in [Backends -> SUBSET Pages] /\ lost \subseteq Pages
    BY <1>1 DEF TypeOK
  <2>2. CASE CloseGoesUnnoticed(t) \/ UNCHANGED pages
    BY <2>1, <2>2, UnnoticedPages
  <2>3. CASE /\ \E left \in SUBSET live[driver] : live' = [live EXCEPT ![driver] = left]
             /\ UNCHANGED lost
    <3>1. PICK left \in SUBSET live[driver] : live' = [live EXCEPT ![driver] = left]
      BY <2>3
    <3>2. CASE driver \in Backends
      BY <2>1, <2>3, <3>1, <3>2
    <3>3. CASE driver \notin Backends
      BY <2>1, <2>3, <3>1, <3>3
    <3>4. QED
      BY <3>2, <3>3
  <2>4. QED
    BY <2>1, <2>2, <2>3 DEF Cancel
<1>4. pending' \in BOOLEAN /\ session' \in BOOLEAN /\ changed' \in BOOLEAN
      /\ driver' \in Backends \cup {"none"} /\ stray' \subseteq Pages /\ depth \in Nat
  BY <1>1 DEF TypeOK
<1> HIDE DEF j
<1>5. CASE job[t].at \in Held
  <2>1. /\ job[t].at \in Inside /\ job[t].at \in InLock /\ job[t].at \notin {"body", "retry"}
    BY <1>5, Labels DEF Held
  <2>2. spoilt' \/ (driver' # "none" /\ tabs \ stray' \subseteq live'[driver'] \cup lost')
    <3>1. CASE job[t].at # "settling"
      BY <1>1, <1>5, <3>1
    <3>2. CASE job[t].at = "settling"
      <4>1. UNCHANGED <<live, lost>>
        BY <3>2 DEF Cancel, CloseGoesUnnoticed, Doing, Resumes, pages
      <4>2. job[t].at \in Replaying /\ job[t].at \in Snapped
        BY <3>2, Labels
      <4>3. driver \in Backends
        BY <1>1, <2>1, <4>2 DEF LockOf
      <4>4. /\ tabs \ stray \subseteq job[t].snap /\ job[t].todo = {}
            /\ (job[t].snap \ job[t].todo) \cap tabs \subseteq live[driver] \cup lost
        BY <1>1, <3>2, <4>2 DEF IInv, SnapInv
      <4>5. QED
        BY <1>1, <4>1, <4>3, <4>4 DEF Backends
    <3>3. QED
      BY <3>1, <3>2
  <2>3. QED
    BY <1>1, <1>2, <1>3, <1>4, <2>1, <2>2, LeavesStep
<1>6. CASE job[t].at \notin Held
  <2>1. /\ job[t].at \notin Snapped /\ j.at \notin Snapped /\ j.at \notin Inside
        /\ job[t].at \notin {"end"}
    BY <1>1, <1>2, <1>6, Labels DEF Awaits, Held, Snapped
  <2>2. UNCHANGED spoilt /\ (CloseGoesUnnoticed(t) \/ UNCHANGED pages)
    <3>1. job[t].at # "stopping" /\ spoilt \in BOOLEAN
      BY <1>1, <1>6 DEF Held, TypeOK
    <3>2. QED
      BY <1>1, <1>6, <3>1 DEF Cancel
  <2>3. Counted(j) <=> Counted(job[t])
    <3>1. job[t].then = "retry" => job[t].at \in InLock
      BY <1>1 DEF LockOf
    <3>2. QED
      BY <1>2, <2>1, <3>1, Labels DEF Counted, Begun
  <2>4. IF t \in Tasks
        THEN depth' = depth + (IF Counted(job'[t]) THEN 1 ELSE 0)
                            - (IF Counted(job[t]) THEN 1 ELSE 0)
        ELSE depth' = depth
    BY <1>1, <1>2, <1>4, <2>3
  <2>5. ~Opening(t)'
    BY <1>2 DEF Opening
  <2>6. CASE UNCHANGED pages
    <3>1. UNCHANGED <<driver, tabs, live, stray, lost, spoilt>>
      BY <1>1, <2>2, <2>6 DEF pages
    <3>2. QED
      BY <1>1, <1>2, <1>4, <2>1, <3>1, <2>4, <2>5, QuietStep
  <2>7. CASE CloseGoesUnnoticed(t)
    <3>1. /\ job[t].at \notin InLock /\ j.at \notin InLock \cup {"body", "retry"}
          /\ j.then # "retry" /\ j.snap \in {job[t].snap, {}}
      BY <1>2, <2>7, Labels DEF CloseGoesUnnoticed, Doing, Resumes
    <3>2. /\ UNCHANGED <<tabs, stray>>
          /\ live' \in [Backends -> SUBSET Pages] /\ lost' \subseteq Pages
          /\ driver # "none"
                => \A q \in tabs : q \in live[driver] \cup lost
                                      => q \in live'[driver] \cup lost'
      BY <2>7, UnnoticedPages
    <3>3. tabs \subseteq Pages /\ stray \subseteq Pages
      BY <1>1 DEF TypeOK
    <3>4. QED
      BY <1>1, <1>2, <2>2, <2>3, <3>1, <3>2, <3>3, PagesStep
  <2>8. QED
    BY <2>2, <2>6, <2>7
<1>7. QED
  BY <1>5, <1>6

(* Nobody's job changes. *)
LEMMA NoJobStep ==
    ASSUME IInv, UNCHANGED <<driver, depth, queue, tabs, live, stray, lost, job, spoilt>>,
           pending' \in BOOLEAN, session' \in BOOLEAN, changed' \in BOOLEAN
    PROVE  IInv'
<1> USE DEF IInv
<1>1. TypeOK'
  BY DEF TypeOK
<1>2. LockInv'
  BY DEF LockInv, LockOf
<1>3. OpeningInv'
  BY DEF OpeningInv, Opening
<1>4. DepthInv'
  BY DEF DepthInv, Commands, Counted
<1>5. SnapInv' /\ RestInv'
  BY DEF SnapInv, RestInv
<1>6. QED
  BY <1>1, <1>2, <1>3, <1>4, <1>5

LEMMA WatchStep == ASSUME IInv, Watch PROVE IInv'
<1>1. /\ TypeOK /\ Watcher \in Actors /\ Watcher \notin Tasks
      /\ job[Watcher].at = "watching" /\ job[Watcher].at \notin InLock
      /\ UNCHANGED <<driver, depth, session, tabs, live, stray, lost, spoilt>>
      /\ changed' = FALSE /\ session' \in BOOLEAN
  BY Labels, RebindAssumption DEF IInv, TypeOK, Actors, Watch, Resumes, pages
<1>2. CASE Activate(Watcher, "extension", "watching") /\ UNCHANGED pending
  <2>1. /\ "extension" \in Backends /\ pending' \in BOOLEAN
        /\ "watching" \in {"idle", "watching", "retry", "rebuild", "preflight", "apply",
                           "enter"}
    BY <1>1, <1>2 DEF Backends, TypeOK
  <2>2. IF Watcher \in Tasks
        THEN depth' = depth + (IF "watching" = "retry" THEN 1 ELSE 0)
                            - (IF job[Watcher].at \in Begun THEN 1 ELSE 0)
        ELSE depth' = depth
    BY <1>1
  <2>3. QED
    BY <1>1, <1>2, <2>1, <2>2, ActivateStep
<1>3. CASE UNCHANGED <<queue, job>> /\ pending' \in BOOLEAN
  BY <1>1, <1>3, NoJobStep
<1>4. QED
  BY <1>1, <1>2, <1>3 DEF Watch, TypeOK

LEMMA InitIInv == Init => IInv
<1> SUFFICES ASSUME Init PROVE IInv
  OBVIOUS
<1>1. /\ Unborn \in JobType /\ Unborn.at = "unborn" /\ Unborn.then = "idle"
      /\ Unborn.snap = {}
  <2>1. ASSUME NEW r \in JobType
        PROVE  /\ [r EXCEPT !.at = "unborn"] \in JobType
               /\ [r EXCEPT !.at = "unborn"].at = "unborn"
               /\ [r EXCEPT !.at = "unborn"].then = r.then
               /\ [r EXCEPT !.at = "unborn"].snap = r.snap
    BY DEF JobType, Awaits
  <2>2. QED
    BY <2>1, EmptyJobs DEF Unborn
<1>2. /\ job \in [Actors -> JobType]
      /\ \A a \in Actors : /\ job[a].at \in {"idle", "unborn"}
                           /\ job[a].then = "idle" /\ job[a].snap = {}
  BY <1>1, EmptyJobs DEF Init
<1>3. TypeOK
  <2>1. driver \in Backends \cup {"none"} /\ depth \in Nat /\ queue \in Seq(Actors)
    <3>1. driver = "none" /\ depth = 0 /\ queue = << >>
      BY DEF Init
    <3>2. QED
      BY <3>1
  <2>2. pending \in BOOLEAN /\ session \in BOOLEAN /\ changed \in BOOLEAN
    BY Zenon DEF Init
  <2>3. /\ tabs \subseteq Pages /\ stray \subseteq Pages /\ spoilt \in BOOLEAN
        /\ live \in [Backends -> SUBSET Pages] /\ lost \subseteq Pages
    BY DEF Init
  <2>4. QED
    BY <1>2, <2>1, <2>2, <2>3 DEF TypeOK
<1>4. /\ "idle" \notin InLock \cup Begun /\ "unborn" \notin InLock \cup Begun
      /\ "idle" \notin Snapped /\ "unborn" \notin Snapped
  BY Labels DEF Begun
<1>5. LockInv
  BY <1>2, <1>4, Labels DEF LockInv, LockOf
<1>6. OpeningInv
  BY <1>2 DEF OpeningInv, Opening
<1>7. DepthInv
  <2>1. Commands = {}
    BY <1>2, <1>4 DEF Commands, Counted, Actors
  <2>2. QED
    BY <2>1, FS_EmptySet DEF Init, DepthInv
<1>8. SnapInv
  BY <1>2, <1>4, Labels DEF SnapInv
<1>9. RestInv
  BY <1>2 DEF Init, RestInv, Actors
<1>10. QED
  BY <1>3, <1>5, <1>6, <1>7, <1>8, <1>9 DEF IInv

LEMMA NextPreserves == IInv /\ [Next]_vars => IInv'
<1> SUFFICES ASSUME IInv, [Next]_vars PROVE IInv'
  OBVIOUS
<1>1. ASSUME NEW t \in Tasks, Arrive(t) PROVE IInv'
  BY <1>1, ArriveStep
<1>2. ASSUME NEW t \in Tasks, Command(t) PROVE IInv'
  BY <1>2, EnsureStartedStep, FirstBackendStep, WalkingStep, RebuildStep, RebuiltStep,
     CheckSessionStep, ApplyStep, EnterStep, AnswerStep, OpenedStep, ClosedStep,
     FallBackStep, EndStep DEF Command
<1>3. ASSUME NEW t \in Tasks, Cancel(t) PROVE IInv'
  BY <1>3, CancelStep
<1>4. ASSUME NEW a \in Actors, Rebinding(a) PROVE IInv'
  BY <1>4, RebindingStep
<1>5. CASE Watch
  BY <1>5, WatchStep
<1>6. CASE SessionChanges
  <2>1. /\ UNCHANGED <<driver, depth, queue, tabs, live, stray, lost, job, spoilt>>
        /\ pending' \in BOOLEAN /\ session' \in BOOLEAN /\ changed' \in BOOLEAN
    BY <1>6 DEF SessionChanges, pages, IInv, TypeOK
  <2>2. QED
    BY <2>1, NoJobStep
<1>7. CASE UNCHANGED vars
  <2>1. /\ UNCHANGED <<driver, depth, queue, tabs, live, stray, lost, job, spoilt>>
        /\ pending' \in BOOLEAN /\ session' \in BOOLEAN /\ changed' \in BOOLEAN
    BY <1>7 DEF vars, IInv, TypeOK
  <2>2. QED
    BY <2>1, NoJobStep
<1>8. QED
  BY <1>1, <1>2, <1>3, <1>4, <1>5, <1>6, <1>7 DEF Next

THEOREM Invariance == Spec => []IInv
<1>1. Init => IInv
  BY InitIInv
<1>2. IInv /\ [Next]_vars => IInv'
  BY NextPreserves
<1>3. QED
  BY <1>1, <1>2, PTL DEF Spec

-----------------------------------------------------------------------------
(* Every variable keeps its type. *)
THEOREM TypeCorrect == Spec => []TypeOK
<1>1. IInv => TypeOK
  BY DEF IInv
<1>2. QED
  BY <1>1, Invariance, PTL

(* The command depth is exact: _command_depth counts the commands that have  *)
(* begun and not ended, for any number of tasks, whichever of them are       *)
(* cancelled and wherever a rebind raises.                                   *)
THEOREM DepthIsExact == Spec => []DepthCounts
<1>1. IInv => DepthCounts
  <2> SUFFICES ASSUME IInv PROVE DepthCounts
    OBVIOUS
  <2>1. \A t \in Tasks : Counted(job[t]) <=> (job[t].at \in Begun \/ Reading(t))
    <3>1. InLock = {"queued", "locked", "replayed"} \cup Held
      BY DEF InLock
    <3>2. QED
      BY <3>1 DEF Counted, Reading
  <2>2. Commands = {t \in Tasks : job[t].at \in Begun \/ Reading(t)}
    BY <2>1 DEF Commands
  <2>3. QED
    BY <2>2 DEF IInv, DepthInv, DepthCounts
<1>2. QED
  BY <1>1, Invariance, PTL

(* Rebinds do not interleave, for any number of tasks and pages: pages are   *)
(* reopened on the backend put in place by the holder of _rebind_lock, and   *)
(* where none is under way and none was broken off, every registered page is *)
(* on the backend in place, but for those opened beside a snapshot, and for  *)
(* those that a close destroyed there before it failed or was cancelled.     *)
THEOREM PagesStayReachable == Spec => []RegisteredPagesReachable
<1>1. IInv => RegisteredPagesReachable
  <2> SUFFICES ASSUME IInv PROVE RegisteredPagesReachable
    OBVIOUS
  <2>1. ASSUME NEW a \in Actors, job[a].at \in Replaying
        PROVE  driver = job[a].target /\ Head(queue) = a
    <3>1. job[a].at \in InLock /\ job[a].at \in Inside /\ LockOf(job[a], a)
      BY <2>1, Labels DEF IInv, LockInv
    <3>2. queue[1] = a /\ queue # << >> /\ queue \in Seq(Actors) /\ driver = job[a].target
      BY <2>1, <3>1 DEF LockOf, IInv, TypeOK
    <3>3. QED
      BY <3>2
  <2>2. ASSUME Quiet, driver # "none" PROVE tabs \ stray \subseteq live[driver] \cup lost
    <3>1. \A a \in Actors : job[a].at \notin Snapped
      BY <2>2, Labels DEF Quiet, IInv, LockInv, LockOf
    <3>2. QED
      BY <2>2, <3>1 DEF Quiet, IInv, RestInv
  <2>3. QED
    BY <2>1, <2>2 DEF RegisteredPagesReachable
<1>2. QED
  BY <1>1, Invariance, PTL

(* A command that runs has a backend, unless a rebind is under way or was    *)
(* broken off: nobody but the holder of _rebind_lock takes _driver away.     *)
THEOREM CommandsHaveABackend == Spec => []BegunHasBackend
<1>1. IInv => BegunHasBackend
  <2> SUFFICES ASSUME IInv, Quiet, NEW t \in Tasks, job[t].at \in {"body", "retry"}
               PROVE  driver # "none"
    BY DEF BegunHasBackend
  <2>1. \A a \in Actors : job[a].at \notin Snapped
    BY Labels DEF Quiet, IInv, LockInv, LockOf
  <2>2. QED
    BY <2>1 DEF Quiet, IInv, RestInv
<1>2. QED
  BY <1>1, Invariance, PTL
-----------------------------------------------------------------------------
(* That a rebind ends has two halves: that the tasks go on, which is the     *)
(* fairness of FairSpec, and two facts about the steps that they take.  The  *)
(* queue of the lock is nobody but those who wait for it or hold it, each    *)
(* once: no exception, no cancellation and no early return leaves the lock   *)
(* taken by somebody who has gone.                                           *)
QueueIsExact ==
    /\ \A i \in 1..Len(queue) : job[queue[i]].at \in InLock
    /\ \A i, k \in 1..Len(queue) : queue[i] = queue[k] => i = k

(* What is left of a rebind: a wait, the stop of the old backend, the start  *)
(* of the new one, and the pages that are still to be reopened.              *)
RebindLeft(j) ==
    LET all == Cardinality(Pages) IN
    CASE j.at = "queued" -> all + 6
      [] j.at = "locked" -> all + 5
      [] j.at = "stopping" -> all + 4
      [] j.at = "starting" -> all + 3
      [] j.at = "replay" -> 2 + Cardinality(j.todo)
      [] j.at = "replayed" -> 2
      [] j.at = "settling" -> 1
      [] OTHER -> 0

(* Those who are in the queue before a. *)
Ahead(a) == {queue[i] : i \in {i \in 1..Len(queue) : \A k \in 1..i : queue[k] # a}}

(* Every step of one who is at the lock brings its rebind nearer to its end, *)
(* no step of another one does anything to it, and nobody gets ahead of one  *)
(* who waits, whoever is cancelled or fails.                                 *)
LockMovesOn ==
    \A a \in Actors : job[a].at \in InLock =>
        \/ job'[a] = job[a] /\ Ahead(a)' \subseteq Ahead(a)
        \/ RebindLeft(job'[a]) < RebindLeft(job[a])
RebindsShorten == [][LockMovesOn]_vars
(* What a step of a does to the queue: it is not at the lock, it comes, it   *)
(* goes on inside, or it leaves.                                             *)
Turn(a) ==
    /\ Others(a)
    /\ \/ queue' = queue /\ job[a].at \notin InLock /\ job'[a].at \notin InLock
       \/ queue' = Append(queue, a) /\ job[a].at \notin InLock /\ job'[a].at \in InLock
       \/ /\ queue' = queue /\ job[a].at \in InLock /\ job'[a].at \in InLock
          /\ RebindLeft(job'[a]) < RebindLeft(job[a])
       \/ job'[a].at \notin InLock /\ \E k \in 1..Len(queue) : queue[k] = a /\ Cut(k)

LEMMA LeftValues ==
    ASSUME NEW j
    PROVE  /\ j.at = "queued" => RebindLeft(j) = Cardinality(Pages) + 6
           /\ j.at = "locked" => RebindLeft(j) = Cardinality(Pages) + 5
           /\ j.at = "stopping" => RebindLeft(j) = Cardinality(Pages) + 4
           /\ j.at = "starting" => RebindLeft(j) = Cardinality(Pages) + 3
           /\ j.at = "replay" => RebindLeft(j) = 2 + Cardinality(j.todo)
           /\ j.at = "replayed" => RebindLeft(j) = 2
           /\ j.at = "settling" => RebindLeft(j) = 1
           /\ j.at \notin InLock => RebindLeft(j) = 0
<1>1. /\ j.at = "queued" => RebindLeft(j) = Cardinality(Pages) + 6
      /\ j.at = "locked" => RebindLeft(j) = Cardinality(Pages) + 5
      /\ j.at = "stopping" => RebindLeft(j) = Cardinality(Pages) + 4
      /\ j.at = "starting" => RebindLeft(j) = Cardinality(Pages) + 3
  BY DEF RebindLeft
<1>2. /\ j.at = "replay" => RebindLeft(j) = 2 + Cardinality(j.todo)
      /\ j.at = "replayed" => RebindLeft(j) = 2
      /\ j.at = "settling" => RebindLeft(j) = 1
  BY DEF RebindLeft
<1>3. ASSUME j.at \notin InLock PROVE RebindLeft(j) = 0
  <2>1. j.at \notin {"queued", "locked", "replayed", "stopping", "starting", "replay", "settling"}
    BY <1>3, Labels
  <2>2. QED
    BY <2>1 DEF RebindLeft
<1>4. QED
  BY <1>1, <1>2, <1>3

LEMMA SomePages ==
    /\ Cardinality(Pages) \in Nat
    /\ \A S \in SUBSET Pages : Cardinality(S) \in 0..Cardinality(Pages)
<1>1. IsFiniteSet(Pages)
  BY RebindAssumption
<1>2. QED
  BY <1>1, FS_CardinalityType, FS_Subset

LEMMA LeftIsPositive ==
    ASSUME NEW j \in JobType, j.at \in InLock
    PROVE  RebindLeft(j) \in Nat \ {0}
<1>1. Cardinality(j.todo) \in Nat
  BY SomePages DEF JobType
<1>2. QED
  BY <1>1, LeftValues, SomePages, Labels

LEMMA SetAny ==
    ASSUME TypeOK, NEW a \in Actors, NEW j, job' = [job EXCEPT ![a] = j]
    PROVE  Others(a) /\ job'[a] = j
BY DEF TypeOK, Others

LEMMA HeadCuts ==
    ASSUME IInv, NEW a \in Actors, job[a].at \in Inside, queue' = Tail(queue)
    PROVE  \E k \in 1..Len(queue) : queue[k] = a /\ Cut(k)
<1>1. /\ TypeOK /\ LockOf(job[a], a) /\ job[a].at \in InLock
      /\ queue \in Seq(Actors) /\ Len(queue) \in Nat /\ DOMAIN queue = 1..Len(queue)
  BY Labels DEF IInv, LockInv, TypeOK
<1>2. 1 \in 1..Len(queue) /\ queue # << >> /\ queue[1] = a
  BY <1>1 DEF LockOf
<1>3. /\ queue' \in Seq(Actors) /\ Len(queue') = Len(queue) - 1
      /\ DOMAIN queue' = 1..(Len(queue) - 1)
      /\ \A i \in 1..(Len(queue) - 1) : queue'[i] = queue[i + 1]
  BY <1>1, <1>2
<1>4. Cut(1)
  BY <1>1, <1>3 DEF Cut
<1>5. QED
  BY <1>2, <1>4

LEMMA LeavesTurn ==
    ASSUME IInv, NEW a \in Actors, job[a].at \in Inside, queue' = Tail(queue),
           NEW j, job' = [job EXCEPT ![a] = j], j.at \notin InLock
    PROVE  Turn(a)
<1>1. Others(a) /\ job'[a] = j
  BY SetAny DEF IInv
<1>2. QED
  BY <1>1, HeadCuts DEF Turn

LEMMA BreakOffTurn ==
    ASSUME IInv, NEW a \in Actors, job[a].at \in Inside, BreakOff(a)
    PROVE  Turn(a)
<1>1. job[a] \in JobType
  BY JobFields DEF IInv
<1>2. Failed(job[a]).at \notin InLock
  BY <1>1, LeavesLock
<1>3. queue' = Tail(queue) /\ job' = [job EXCEPT ![a] = Failed(job[a])]
  BY DEF BreakOff
<1>4. QED
  BY <1>2, <1>3, LeavesTurn

LEMMA ContinuedTurn ==
    ASSUME IInv, NEW a \in Actors, job[a].at \in Inside, queue' = Tail(queue),
           job' = [job EXCEPT ![a] = Continued(@)]
    PROVE  Turn(a)
<1>1. job[a] \in JobType
  BY JobFields DEF IInv
<1>2. Continued(job[a]).at \notin InLock
  BY <1>1, LeavesLock
<1>3. job' = [job EXCEPT ![a] = Continued(job[a])]
  OBVIOUS
<1>4. QED
  BY <1>2, <1>3, LeavesTurn

(* A step inside the lock. *)
LEMMA InsideTurn ==
    ASSUME IInv, NEW a \in Actors, job[a].at \in InLock, queue' = queue,
           NEW j, job' = [job EXCEPT ![a] = j], j.at \in InLock,
           RebindLeft(j) < RebindLeft(job[a])
    PROVE  Turn(a)
<1>1. Others(a) /\ job'[a] = j
  BY SetAny DEF IInv
<1>2. QED
  BY <1>1 DEF Turn

LEMMA InPlaceTurn ==
    ASSUME IInv, NEW a \in Actors, job[a].at \in {"locked", "stopping", "starting"},
           NEW snap \in SUBSET Pages, InPlace(a, snap)
    PROVE  Turn(a)
<1> DEFINE w == IF snap = {} THEN "replayed" ELSE "replay"
           j1 == [job[a] EXCEPT !.at = w]
           j2 == [j1 EXCEPT !.snap = snap]
           j3 == [j2 EXCEPT !.todo = snap]
<1>1. job' = [job EXCEPT ![a] = j3] /\ queue' = queue /\ w \in {"replayed", "replay"}
  BY DEF InPlace
<1>2. job[a] \in JobType /\ job[a].at \in InLock
  BY JobFields, Labels DEF IInv
<1> HIDE DEF w
<1>3. j3.at = w /\ j3.todo = snap
  BY <1>2 DEF JobType
<1> HIDE DEF j3
<1>4. RebindLeft(j3) \in 2..(2 + Cardinality(Pages)) /\ j3.at \in InLock
  BY <1>1, <1>3, LeftValues, SomePages, Labels
<1>5. RebindLeft(job[a]) \in {Cardinality(Pages) + 3, Cardinality(Pages) + 4, Cardinality(Pages) + 5}
  BY LeftValues
<1>6. RebindLeft(j3) < RebindLeft(job[a])
  BY <1>4, <1>5, SomePages
<1>7. QED
  BY <1>1, <1>2, <1>4, <1>6, InsideTurn

LEMMA WaitingTurn ==
    ASSUME IInv, NEW a \in Actors, NEW w \in {"stopping", "starting"}, queue' = queue,
           job[a].at = "locked" \/ (job[a].at = "stopping" /\ w = "starting"),
           NEW snap, job' = [job EXCEPT ![a].at = w, ![a].snap = snap]
    PROVE  Turn(a)
<1> DEFINE j1 == [job[a] EXCEPT !.at = w]
           j2 == [j1 EXCEPT !.snap = snap]
<1>1. job' = [job EXCEPT ![a] = j2]
  OBVIOUS
<1>2. job[a] \in JobType /\ job[a].at \in InLock
  BY JobFields, Labels DEF IInv
<1>3. j2.at = w
  BY <1>2 DEF JobType
<1> HIDE DEF j2
<1>4. RebindLeft(j2) < RebindLeft(job[a]) /\ j2.at \in InLock
  BY <1>3, LeftValues, SomePages, Labels
<1>5. QED
  BY <1>1, <1>2, <1>4, InsideTurn

LEMMA StartTargetTurn ==
    ASSUME IInv, NEW a \in Actors, job[a].at \in {"locked", "stopping"},
           NEW snap \in SUBSET Pages, StartTarget(a, snap)
    PROVE  Turn(a)
<1>1. job[a].at \in Inside
  BY Labels
<1>2. CASE InPlace(a, snap)
  BY <1>2, InPlaceTurn
<1>3. CASE BreakOff(a)
  BY <1>1, <1>3, BreakOffTurn
<1>4. CASE job' = [job EXCEPT ![a].at = "starting", ![a].snap = snap] /\ queue' = queue
  BY <1>4, WaitingTurn
<1>5. QED
  BY <1>2, <1>3, <1>4 DEF StartTarget

LEMMA ReopenTurn == ASSUME IInv, NEW a \in Actors, Reopen(a) PROVE Turn(a)
<1>1. /\ job[a] \in JobType /\ job[a].at = "replay" /\ job[a].at \in InLock /\ queue' = queue
      /\ job[a].todo \in SUBSET Pages
  BY Labels, JobFields DEF IInv, Reopen, Resumes
<1>2. PICK p \in job[a].todo :
        job' = [job EXCEPT ![a].todo = @ \ {p},
                           ![a].at = IF job[a].todo = {p} THEN "replayed" ELSE "replay"]
  BY DEF Reopen
<1> DEFINE w == IF job[a].todo = {p} THEN "replayed" ELSE "replay"
           rest == job[a].todo \ {p}
           j1 == [job[a] EXCEPT !.todo = rest]
           j2 == [j1 EXCEPT !.at = w]
<1>3. job' = [job EXCEPT ![a] = j2] /\ w \in {"replayed", "replay"}
  BY <1>2
<1>4. /\ Cardinality(rest) = Cardinality(job[a].todo) - 1
      /\ Cardinality(job[a].todo) \in Nat /\ Cardinality(job[a].todo) > 0
  <2>1. IsFiniteSet(job[a].todo)
    BY <1>1, FS_Subset, RebindAssumption
  <2>2. QED
    BY <1>2, <2>1, FS_RemoveElement, FS_CardinalityType, FS_EmptySet
<1> HIDE DEF w, rest
<1>5. j2.at = w /\ j2.todo = rest
  BY <1>1 DEF JobType
<1> HIDE DEF j2
<1>6. RebindLeft(j2) < RebindLeft(job[a]) /\ j2.at \in InLock
  BY <1>1, <1>3, <1>4, <1>5, LeftValues, Labels
<1>7. QED
  BY <1>1, <1>3, <1>6, InsideTurn

LEMMA RebindingTurn == ASSUME IInv, NEW a \in Actors, Rebinding(a) PROVE Turn(a)
<1>1. TypeOK /\ tabs \in SUBSET Pages /\ job[a] \in JobType /\ job[a].snap \in SUBSET Pages
  BY JobFields DEF IInv, TypeOK
<1>2. CASE GetLock(a)
  <2> DEFINE j == [job[a] EXCEPT !.at = "locked"]
  <2>1. job[a].at = "queued" /\ job' = [job EXCEPT ![a] = j] /\ queue' = queue
    BY <1>2 DEF GetLock, Resumes, GoTo
  <2>2. j.at = "locked"
    BY <1>1 DEF JobType
  <2> HIDE DEF j
  <2>3. RebindLeft(j) < RebindLeft(job[a]) /\ j.at \in InLock /\ job[a].at \in InLock
    BY <2>1, <2>2, LeftValues, SomePages, Labels
  <2>4. QED
    BY <2>1, <2>3, InsideTurn
<1>3. CASE AlreadyThere(a)
  <2>1. job[a].at \in Inside
    BY <1>3, Labels DEF AlreadyThere, Runs
  <2>2. QED
    BY <1>3, <2>1, ContinuedTurn DEF AlreadyThere
<1>4. CASE TakeSnapshot(a)
  <2>1. job[a].at = "locked"
    BY <1>4 DEF TakeSnapshot, Runs
  <2>2. \/ StartTarget(a, tabs)
        \/ job' = [job EXCEPT ![a].at = "stopping", ![a].snap = tabs] /\ queue' = queue
    BY <1>4 DEF TakeSnapshot
  <2>3. QED
    BY <1>1, <2>1, <2>2, StartTargetTurn, WaitingTurn
<1>5. CASE OldStopped(a)
  <2>1. job[a].at = "stopping" /\ StartTarget(a, job[a].snap)
    BY <1>5 DEF OldStopped, Resumes
  <2>2. QED
    BY <1>1, <2>1, StartTargetTurn
<1>6. CASE PlaywrightStarts(a)
  <2>1. job[a].at = "starting" /\ (InPlace(a, job[a].snap) \/ BreakOff(a))
    BY <1>6 DEF PlaywrightStarts, Resumes
  <2>2. QED
    BY <1>1, <2>1, InPlaceTurn, BreakOffTurn, Labels
<1>7. CASE Reopen(a)
  BY <1>7, ReopenTurn
<1>8. CASE ReopenFails(a)
  <2>1. job[a].at \in Inside /\ BreakOff(a)
    BY <1>8, Labels DEF ReopenFails, Resumes
  <2>2. QED
    BY <2>1, BreakOffTurn
<1>9. CASE Replayed(a)
  <2>1. job[a].at = "replayed" /\ job[a].at \in Inside /\ job[a].at \in InLock
    BY <1>9, Labels DEF Replayed, Runs
  <2>2. CASE Done(a) \/ BreakOff(a)
    BY <2>1, <2>2, ContinuedTurn, BreakOffTurn DEF Done
  <2>3. CASE GoTo(a, "settling") /\ queue' = queue
    <3> DEFINE j == [job[a] EXCEPT !.at = "settling"]
    <3>1. job' = [job EXCEPT ![a] = j]
      BY <2>3 DEF GoTo
    <3>2. j.at = "settling"
      BY <1>1 DEF JobType
    <3> HIDE DEF j
    <3>3. RebindLeft(j) < RebindLeft(job[a]) /\ j.at \in InLock
      BY <2>1, <3>2, LeftValues, Labels
    <3>4. QED
      BY <2>1, <2>3, <3>1, <3>3, InsideTurn
  <2>4. QED
    BY <1>9, <2>2, <2>3 DEF Replayed
<1>10. CASE Settle(a)
  <2>1. job[a].at \in Inside
    BY <1>10, Labels DEF Settle, Resumes
  <2>2. QED
    BY <1>10, <2>1, ContinuedTurn DEF Settle, Done
<1>11. QED
  BY <1>2, <1>3, <1>4, <1>5, <1>6, <1>7, <1>8, <1>9, <1>10 DEF Rebinding

(* The steps of a command outside the lock, and those that call for it.      *)
LEMMA OutsideTurn ==
    ASSUME TypeOK, NEW a \in Actors, job[a].at \notin InLock, queue' = queue,
           NEW j, job' = [job EXCEPT ![a] = j], j.at \notin InLock
    PROVE  Turn(a)
<1>1. Others(a) /\ job'[a] = j
  BY SetAny
<1>2. QED
  BY <1>1 DEF Turn

LEMMA GoToTurn ==
    ASSUME TypeOK, NEW a \in Actors, job[a].at \notin InLock, queue' = queue,
           NEW w, GoTo(a, w), w \notin InLock
    PROVE  Turn(a)
<1> DEFINE j == [job[a] EXCEPT !.at = w]
<1>1. job' = [job EXCEPT ![a] = j]
  BY DEF GoTo
<1>2. j.at = w
  BY JobFields DEF JobType
<1> HIDE DEF j
<1>3. QED
  BY <1>1, <1>2, OutsideTurn

LEMMA FinishTurn ==
    ASSUME TypeOK, NEW a \in Actors, job[a].at \notin InLock, queue' = queue, Finish(a)
    PROVE  Turn(a)
<1>1. "idle" \notin InLock
  BY Labels
<1>2. QED
  BY <1>1, EmptyJobs, OutsideTurn DEF Finish

LEMMA ActivateTurn ==
    ASSUME TypeOK, NEW a \in Actors, job[a].at \notin InLock, NEW target \in Backends,
           NEW then \in {"idle", "watching", "retry", "rebuild", "preflight", "apply", "enter"},
           Activate(a, target, then)
    PROVE  Turn(a)
<1>1. Moves(a) /\ job'[a].at \in {"locked", "queued"}
  BY ActivateMoves
<1>2. queue' = Append(queue, a)
  BY DEF Activate
<1>3. job'[a].at \in InLock
  BY <1>1, Labels
<1>4. QED
  BY <1>1, <1>2, <1>3 DEF Turn, Moves

LEMMA EntersTurn ==
    ASSUME IInv, NEW t \in Tasks, Arrive(t) \/ EnsureStarted(t) \/ Rebuild(t) \/ Enter(t)
    PROVE  Turn(t)
<1>1. t \in Actors /\ TypeOK /\ job[t] \in JobType /\ queue' = queue
  BY JobFields DEF Actors, IInv, Arrive, EnsureStarted, Rebuild, Enter
<1>2. job[t].at \in {"idle", "start", "rebuild", "enter"} /\ job[t].at \notin InLock
  BY Labels DEF Arrive, EnsureStarted, Rebuild, Enter, Runs, Resumes
<1>3. CASE Arrive(t)
  <2>1. PICK k \in Kinds :
           job' = [job EXCEPT ![t].kind = k, ![t].at = IF k = "close" THEN "enter" ELSE "start"]
    BY <1>3 DEF Arrive
  <2> DEFINE w == IF k = "close" THEN "enter" ELSE "start"
             j1 == [job[t] EXCEPT !.kind = k]
             j2 == [j1 EXCEPT !.at = w]
  <2>2. job' = [job EXCEPT ![t] = j2] /\ w \notin InLock
    BY <2>1, Labels
  <2> HIDE DEF w
  <2>3. j2.at = w
    BY <1>1 DEF JobType
  <2> HIDE DEF j2
  <2>4. QED
    BY <1>1, <1>2, <2>2, <2>3, OutsideTurn
<1>4. CASE EnsureStarted(t)
  <2>1. Watcher \in Actors /\ t # Watcher
    BY RebindAssumption DEF Actors
  <2> DEFINE w == IF driver = "none" THEN "session" ELSE AfterStart(t)
             next == IF driver = "none" THEN AfterStart(t) ELSE "idle"
             W == IF job[Watcher] = Unborn THEN Watching ELSE job[Watcher]
             j1 == [job[t] EXCEPT !.at = w]
             j2 == [j1 EXCEPT !.then = next]
  <2>2. job' = [job EXCEPT ![Watcher] = W, ![t] = j2] /\ w \notin InLock
    BY <1>4, <2>1, Labels DEF EnsureStarted, AfterStart
  <2>3. W = job[Watcher] \/ (job[Watcher] = Unborn /\ W = Watching)
    OBVIOUS
  <2> HIDE DEF w, next, W
  <2>4. j2.at = w
    BY <1>1 DEF JobType
  <2> HIDE DEF j2
  <2>5. Others(t) /\ job'[t] = j2
    BY <1>1, <2>1, <2>2, <2>3 DEF TypeOK, Others
  <2>6. QED
    BY <1>1, <1>2, <2>2, <2>4, <2>5 DEF Turn
<1>5. CASE Rebuild(t)
  <2>1. CASE job' = [job EXCEPT ![t].at = "session", ![t].then = "rebuild"]
    <3> DEFINE j1 == [job[t] EXCEPT !.at = "session"]
               j2 == [j1 EXCEPT !.then = "rebuild"]
    <3>1. job' = [job EXCEPT ![t] = j2]
      BY <2>1
    <3>2. j2.at = "session"
      BY <1>1 DEF JobType
    <3> HIDE DEF j2
    <3>3. QED
      BY <1>1, <1>2, <3>1, <3>2, OutsideTurn, Labels
  <2>2. CASE Finish(t) \/ \E w \in {"rebuilding", "check"} : GoTo(t, w)
    BY <1>1, <1>2, <2>2, FinishTurn, GoToTurn, Labels
  <2>3. QED
    BY <1>5, <2>1, <2>2 DEF Rebuild, AfterRebuild
<1>6. CASE Enter(t)
  <2>1. CASE GoTo(t, "end")
    BY <1>1, <1>2, <2>1, GoToTurn, Labels
  <2>2. CASE \E p \in PageFor(job[t].kind) :
                job' = [job EXCEPT ![t].at = "body", ![t].page = p, ![t].on = driver]
    <3>1. PICK p \in PageFor(job[t].kind) :
                job' = [job EXCEPT ![t].at = "body", ![t].page = p, ![t].on = driver]
      BY <2>2
    <3> DEFINE j1 == [job[t] EXCEPT !.at = "body"]
               j2 == [j1 EXCEPT !.page = p]
               j3 == [j2 EXCEPT !.on = driver]
    <3>2. job' = [job EXCEPT ![t] = j3]
      BY <3>1
    <3>3. j3.at = "body"
      BY <1>1 DEF JobType
    <3> HIDE DEF j3
    <3>4. QED
      BY <1>1, <1>2, <3>2, <3>3, OutsideTurn, Labels
  <2>3. QED
    BY <1>6, <2>1, <2>2 DEF Enter
<1>7. QED
  BY <1>3, <1>4, <1>5, <1>6

LEMMA CommandTurn ==
    ASSUME IInv, NEW t \in Tasks, Command(t)
    PROVE  Turn(t)
<1>1. t \in Actors /\ TypeOK /\ job[t] \in JobType /\ LockOf(job[t], t)
      /\ job[t].then \in {"idle", "watching", "retry", "rebuild", "preflight", "apply", "enter"}
  BY JobFields DEF Actors, IInv, LockInv
<1> DEFINE Idle == job[t].at \notin InLock /\ queue' = queue
<1>2. ASSUME Idle, \/ Finish(t)
                   \/ \E w \in {"status", "check", "rebuild", "apply", "enter"} : GoTo(t, w)
      PROVE  Turn(t)
  BY <1>1, <1>2, FinishTurn, GoToTurn, Labels
<1>3. ASSUME job[t].at \notin InLock,
             \E b \in Backends, then \in {"idle", "retry", "apply", "enter", job[t].then} :
                Activate(t, b, then)
      PROVE  Turn(t)
  BY <1>1, <1>3, ActivateTurn
<1>4. ASSUME Idle, Answered(t) PROVE Turn(t)
  <2> DEFINE j == [NoJob EXCEPT !.at = "end", !.kind = job[t].kind]
  <2>1. job' = [job EXCEPT ![t] = j]
    BY <1>4 DEF Answered
  <2>2. j.at = "end"
    BY DEF NoJob
  <2> HIDE DEF j
  <2>3. QED
    BY <1>1, <1>4, <2>1, <2>2, OutsideTurn, Labels
<1>5. CASE FirstBackend(t)
  <2>1. \E b \in Backends : Activate(t, b, job[t].then)
    BY <1>5 DEF FirstBackend, Backends
  <2>2. job[t].at \notin InLock
    BY <1>5, Labels DEF FirstBackend, Resumes
  <2>3. QED
    BY <1>3, <2>1, <2>2
<1>6. CASE Preflight(t) \/ BindingStatus(t)
  <2>1. Idle
    BY <1>6, Labels DEF Preflight, BindingStatus, Runs, Resumes
  <2>2. \E w \in {"status", "check", "rebuild"} : GoTo(t, w)
    BY <1>6 DEF Preflight, BindingStatus
  <2>3. QED
    BY <1>2, <2>1, <2>2
<1>7. CASE Rebuilt(t)
  <2>1. Idle
    BY <1>7, Labels DEF Rebuilt, Resumes
  <2>2. Finish(t) \/ GoTo(t, "check")
    BY <1>7 DEF Rebuilt, AfterRebuild
  <2>3. QED
    BY <1>2, <2>1, <2>2
<1>8. CASE CheckSession(t)
  <2>1. job[t].at \notin InLock
    BY <1>8, Labels DEF CheckSession, Runs
  <2>2. \/ Activate(t, "playwright", "apply") /\ "playwright" \in Backends
        \/ GoTo(t, "apply") /\ queue' = queue
    BY <1>8 DEF CheckSession, Backends
  <2>3. QED
    BY <1>2, <1>3, <2>1, <2>2
<1>9. ASSUME job[t].at \notin InLock, NEW w, NEW then \in {"enter", "idle"},
             ApplyPending(t, w, then)
      PROVE  Turn(t)
  <2>1. \/ Activate(t, "extension", then) /\ "extension" \in Backends
        \/ /\ queue' = queue
           /\ Finish(t) \/ (then = "enter" /\ GoTo(t, "enter"))
    BY <1>9 DEF ApplyPending, Backends
  <2>2. QED
    BY <1>2, <1>3, <1>9, <2>1
<1>10. CASE Apply(t)
  <2>1. job[t].at \notin InLock
    BY <1>10, Labels DEF Apply, Runs
  <2>2. QED
    BY <1>9, <1>10, <2>1 DEF Apply
<1>11. CASE CallFails(t) \/ PageDone(t) \/ Opened(t) \/ Closed(t) \/ ReadDone(t)
  <2>1. Answered(t) /\ Idle
    BY <1>11, Labels
       DEF CallFails, PageDone, Opened, Closed, ReadDone, Doing, Resumes, Answered
  <2>2. QED
    BY <1>4, <2>1
<1>12. CASE ReadFallsBack(t)
  <2>1. /\ job[t].at \notin InLock
        /\ Activate(t, "playwright", "retry") /\ "playwright" \in Backends
    BY <1>12, Labels DEF ReadFallsBack, Doing, Resumes, Backends
  <2>2. QED
    BY <1>3, <2>1
<1>13. CASE End(t)
  <2>1. job[t].at \notin InLock
    BY <1>13, Labels DEF End, Runs
  <2>2. (Finish(t) /\ queue' = queue) \/ ApplyPending(t, depth', "idle")
    BY <1>13 DEF End
  <2>3. QED
    BY <1>2, <1>9, <2>1, <2>2
<1>14. QED
  BY <1>5, <1>6, <1>7, <1>8, <1>10, <1>11, <1>12, <1>13, EntersTurn DEF Command

LEMMA CancelTurn ==
    ASSUME IInv, QueueIsExact, NEW t \in Tasks, Cancel(t)
    PROVE  Turn(t)
<1>1. /\ t \in Actors /\ TypeOK /\ job[t] \in JobType /\ LockOf(job[t], t)
      /\ queue \in Seq(Actors) /\ DOMAIN queue = 1..Len(queue)
  BY JobFields DEF Actors, IInv, LockInv, TypeOK
<1>2. job' = [job EXCEPT ![t] = Unwound(job[t])] /\ queue' = Without(t)
  BY DEF Cancel
<1>3. Unwound(job[t]).at \notin InLock
  BY <1>1, LeavesLock
<1>4. Others(t) /\ job'[t].at \notin InLock
  BY <1>1, <1>2, <1>3, SetAny
<1>5. CASE Waits(t)
  BY <1>1, <1>2, <1>4, <1>5, WithoutCuts DEF Turn
<1>6. CASE ~Waits(t)
  <2>1. queue' = queue
    BY <1>2, <1>6 DEF Without, Waits
  <2>2. job[t].at \notin InLock
    BY <1>1, <1>6 DEF LockOf, Waits
  <2>3. QED
    BY <1>4, <2>1, <2>2 DEF Turn
<1>7. QED
  BY <1>5, <1>6

-----------------------------------------------------------------------------
LEMMA AheadShrinks ==
    ASSUME IInv, NEW a \in Actors, Turn(a), NEW b \in Actors \ {a}, job[b].at \in InLock
    PROVE  Ahead(b)' \subseteq Ahead(b)
<1>1. /\ queue \in Seq(Actors) /\ Len(queue) \in Nat /\ DOMAIN queue = 1..Len(queue)
      /\ Waits(b)
  BY DEF IInv, TypeOK, LockInv, LockOf, Waits
<1>2. CASE queue' = queue
  BY <1>2 DEF Ahead
<1>3. CASE queue' = Append(queue, a)
  <2>1. /\ Len(queue') = Len(queue) + 1 /\ \A i \in 1..Len(queue) : queue'[i] = queue[i]
    BY <1>1, <1>3
  <2>2. PICK m \in 1..Len(queue) : queue[m] = b
    BY <1>1 DEF Waits
  <2>3. ASSUME NEW i \in 1..Len(queue'), \A k \in 1..i : queue'[k] # b
        PROVE  i \in 1..Len(queue) /\ queue'[i] = queue[i] /\ \A k \in 1..i : queue[k] # b
    <3>1. ~(m <= i)
      BY <1>1, <2>1, <2>2, <2>3
    <3>2. i \in 1..Len(queue)
      BY <1>1, <2>1, <2>2, <3>1
    <3>3. QED
      BY <1>1, <2>1, <2>3, <3>2
  <2>4. QED
    BY <2>3 DEF Ahead
<1>4. CASE \E k \in 1..Len(queue) : queue[k] = a /\ Cut(k)
  <2>1. PICK k \in 1..Len(queue) : queue[k] = a /\ Cut(k)
    BY <1>4
  <2>2. /\ Len(queue') = Len(queue) - 1
        /\ \A i \in 1..(Len(queue) - 1) : queue'[i] = IF i < k THEN queue[i] ELSE queue[i + 1]
    BY <2>1 DEF Cut
  <2>3. ASSUME NEW i \in 1..Len(queue'), \A m \in 1..i : queue'[m] # b
        PROVE  \E l \in 1..Len(queue) : queue'[i] = queue[l] /\ \A m \in 1..l : queue[m] # b
    <3>1. i \in 1..(Len(queue) - 1)
      BY <1>1, <2>2
    <3>2. CASE i < k
      <4>1. \A m \in 1..i : queue'[m] = queue[m]
        BY <1>1, <2>2, <3>1, <3>2
      <4>2. QED
        BY <1>1, <2>3, <3>1, <4>1
    <3>3. CASE ~(i < k)
      <4>1. ASSUME NEW m \in 1..(i + 1) PROVE queue[m] # b
        <5>1. CASE m < k
          BY <1>1, <2>2, <2>3, <3>1, <3>3, <5>1
        <5>2. CASE m = k
          BY <2>1, <5>2
        <5>3. CASE m > k
          <6>1. m - 1 \in 1..i /\ ~(m - 1 < k) /\ m - 1 + 1 = m
            BY <3>1, <5>3
          <6>2. queue'[m - 1] = queue[m]
            BY <1>1, <2>2, <3>1, <6>1
          <6>3. QED
            BY <2>3, <6>1, <6>2
        <5>4. QED
          BY <1>1, <3>1, <5>1, <5>2, <5>3
      <4>2. queue'[i] = queue[i + 1] /\ i + 1 \in 1..Len(queue)
        BY <1>1, <2>2, <3>1, <3>3
      <4>3. QED
        BY <4>1, <4>2
    <3>4. QED
      BY <3>2, <3>3
  <2>4. QED
    BY <2>3 DEF Ahead
<1>5. QED
  BY <1>2, <1>3, <1>4 DEF Turn

LEMMA TurnMovesOn ==
    ASSUME IInv, NEW a \in Actors, Turn(a)
    PROVE  LockMovesOn
<1> SUFFICES ASSUME NEW b \in Actors, job[b].at \in InLock
             PROVE  \/ job'[b] = job[b] /\ Ahead(b)' \subseteq Ahead(b)
                    \/ RebindLeft(job'[b]) < RebindLeft(job[b])
  BY DEF LockMovesOn
<1>1. CASE b = a
  <2>1. RebindLeft(job[a]) \in Nat \ {0}
    BY <1>1, JobFields, LeftIsPositive DEF IInv
  <2>2. job'[a].at \notin InLock => RebindLeft(job'[a]) = 0
    BY LeftValues
  <2>3. QED
    BY <1>1, <2>1, <2>2 DEF Turn
<1>2. CASE b # a
  <2>1. job'[b] = job[b]
    BY <1>2, OtherJobs, Labels DEF Turn
  <2>2. QED
    BY <1>2, <2>1, AheadShrinks
<1>3. QED
  BY <1>1, <1>2

LEMMA TurnKeepsExact ==
    ASSUME IInv, QueueIsExact, NEW a \in Actors, Turn(a)
    PROVE  QueueIsExact'
<1>1. /\ queue \in Seq(Actors) /\ Len(queue) \in Nat
      /\ \A i \in 1..Len(queue) : queue[i] \in Actors
  BY DEF IInv, TypeOK
<1>2. \A b \in Actors \ {a} : job[b].at \in InLock => job'[b].at \in InLock
  BY OtherJobs, Labels DEF Turn
<1>3. CASE queue' = queue /\ (job[a].at \in InLock => job'[a].at \in InLock)
  BY <1>1, <1>2, <1>3 DEF QueueIsExact
<1>4. CASE /\ queue' = Append(queue, a)
           /\ job[a].at \notin InLock /\ job'[a].at \in InLock
  <2>1. /\ Len(queue') = Len(queue) + 1 /\ queue'[Len(queue) + 1] = a
        /\ \A i \in 1..Len(queue) : queue'[i] = queue[i]
    BY <1>1, <1>4
  <2>2. \A i \in 1..Len(queue) : queue[i] # a
    BY <1>4 DEF QueueIsExact
  <2>3. ASSUME NEW i \in 1..Len(queue') PROVE job'[queue'[i]].at \in InLock
    <3>1. CASE i = Len(queue) + 1
      BY <1>4, <2>1, <3>1
    <3>2. CASE i \in 1..Len(queue)
      BY <1>1, <1>2, <2>1, <2>2, <3>2 DEF QueueIsExact
    <3>3. QED
      BY <1>1, <2>1, <3>1, <3>2
  <2>4. ASSUME NEW i \in 1..Len(queue'), NEW k \in 1..Len(queue'), queue'[i] = queue'[k]
        PROVE  i = k
    <3>1. /\ i \in 1..Len(queue) \/ i = Len(queue) + 1
          /\ k \in 1..Len(queue) \/ k = Len(queue) + 1
      BY <1>1, <2>1
    <3>2. QED
      BY <2>1, <2>2, <2>4, <3>1 DEF QueueIsExact
  <2>5. QED
    BY <2>3, <2>4 DEF QueueIsExact
<1>5. CASE \E k \in 1..Len(queue) : queue[k] = a /\ Cut(k)
  <2>1. PICK k \in 1..Len(queue) : queue[k] = a /\ Cut(k)
    BY <1>5
  <2>2. /\ Len(queue') = Len(queue) - 1
        /\ \A i \in 1..(Len(queue) - 1) : queue'[i] = IF i < k THEN queue[i] ELSE queue[i + 1]
    BY <2>1 DEF Cut
  <2> DEFINE old(i) == IF i < k THEN i ELSE i + 1
  <2>3. ASSUME NEW i \in 1..Len(queue')
        PROVE  old(i) \in 1..Len(queue) /\ old(i) # k /\ queue'[i] = queue[old(i)]
    BY <1>1, <2>2
  <2>4. ASSUME NEW i \in 1..Len(queue') PROVE job'[queue'[i]].at \in InLock
    <3>1. queue[old(i)] # a /\ job[queue[old(i)]].at \in InLock /\ queue[old(i)] \in Actors
      BY <1>1, <2>1, <2>3 DEF QueueIsExact
    <3> HIDE DEF old
    <3>2. QED
      BY <1>2, <2>3, <3>1
  <2>5. ASSUME NEW i \in 1..Len(queue'), NEW m \in 1..Len(queue'), queue'[i] = queue'[m]
        PROVE  i = m
    <3>1. old(i) = old(m)
      <4> HIDE DEF old
      <4>1. QED
        BY <2>3, <2>5 DEF QueueIsExact
    <3>2. i \in Nat /\ m \in Nat
      BY <1>1, <2>2
    <3>3. QED
      BY <3>1, <3>2
  <2>6. QED
    BY <2>4, <2>5 DEF QueueIsExact
<1>6. QED
  BY <1>3, <1>4, <1>5 DEF Turn

(* Every step is a turn of an actor, or leaves the jobs and the queue alone. *)
LEMMA StepIsTurn ==
    ASSUME IInv, QueueIsExact, [Next]_vars
    PROVE  UNCHANGED <<job, queue>> \/ \E a \in Actors : Turn(a)
<1>1. Tasks \subseteq Actors /\ Watcher \in Actors
  BY DEF Actors
<1>2. ASSUME NEW t \in Tasks, Arrive(t) \/ Command(t) \/ Cancel(t) PROVE Turn(t)
  BY <1>2, EntersTurn, CommandTurn, CancelTurn
<1>3. ASSUME Watch PROVE UNCHANGED <<job, queue>> \/ Turn(Watcher)
  <2>1. job[Watcher].at \notin InLock /\ "extension" \in Backends
    BY <1>3, Labels DEF Watch, Resumes, Backends
  <2>2. Activate(Watcher, "extension", "watching") \/ UNCHANGED <<job, queue>>
    BY <1>3 DEF Watch
  <2>3. QED
    BY <1>1, <2>1, <2>2, ActivateTurn DEF IInv
<1>4. QED
  BY <1>1, <1>2, <1>3, RebindingTurn DEF Next, SessionChanges, vars

(* _rebind_lock is never left taken: those in its queue are the actors that  *)
(* wait for it or hold it, each once, whatever is cancelled or raises.       *)
THEOREM LockIsNeverLost == Spec => []QueueIsExact
<1>1. Init => QueueIsExact
  BY DEF Init, QueueIsExact
<1>2. IInv /\ QueueIsExact /\ [Next]_vars => QueueIsExact'
  <2> SUFFICES ASSUME IInv, QueueIsExact, [Next]_vars PROVE QueueIsExact'
    OBVIOUS
  <2>1. CASE UNCHANGED <<job, queue>>
    BY <2>1 DEF QueueIsExact
  <2>2. QED
    BY <2>1, StepIsTurn, TurnKeepsExact
<1>3. QED
  BY <1>1, <1>2, Invariance, PTL DEF Spec

(* Who is at the lock gets nearer to the end of its rebind with each of its  *)
(* own steps, and is neither set back nor overtaken by anybody else's.       *)
THEOREM RebindsWindDown == Spec => RebindsShorten
<1>1. IInv /\ QueueIsExact /\ [Next]_vars => [LockMovesOn]_vars
  <2> SUFFICES ASSUME IInv, QueueIsExact, [Next]_vars PROVE LockMovesOn
    OBVIOUS
  <2>1. CASE UNCHANGED <<job, queue>>
    BY <2>1 DEF LockMovesOn, Ahead
  <2>2. QED
    BY <2>1, StepIsTurn, TurnMovesOn
<1>2. QED
  BY <1>1, Invariance, LockIsNeverLost, PTL DEF Spec, RebindsShorten
=============================================================================
