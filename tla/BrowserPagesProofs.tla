-------------------------- MODULE BrowserPagesProofs --------------------------
(* Proofs about BrowserPages, for any number of tasks, ids and pages.        *)
(*                                                                           *)
(* None of the properties is inductive alone, and all hang together: whose a *)
(* page is decides which page a close destroys, which decides what may stay  *)
(* in the tables, which decides who is woken.  What an actor knows of the    *)
(* tables while it is suspended is an invariant of its stage; a step of one  *)
(* actor must leave that of every other alone.                               *)
EXTENDS BrowserPages, FiniteSetTheorems, SequenceTheorems, TLAPS

LockStages == {"newpage", "navigate", "title", "replace", "destroy"}
EarlyStages == {"start", "launch", "lock", "newpage"}
LateStages == {"navigate", "title"}
CloseStages == {"closelock", "replace", "destroy"}
StopStages == {"untrace", "stopping", "context", "server"}
Stages == EarlyStages \cup LateStages \cup CloseStages \cup StopStages
          \cup {"video", "idle", "call", "waiting"}

Waiter == [task : Tasks, filter : WaitFilters]
JobType == [op : Calls \cup OwnOps, at : Stages, id : Ids \cup {None},
            page : Chrome \cup {None}, rest : Seq(StepNames \cup {"video"}), todo : SUBSET Ids]

(* What TypeOK leaves out. *)
JobsOK ==
    /\ job \in [Tasks -> JobType]
    /\ createLock \in Tasks \cup {None} /\ strays \subseteq Ids
    /\ IsFiniteSet(open)

(* One holder of the lock, one stop; who closes, who stops, who has an id.   *)
StageOf(t) ==
    /\ job[t].at \in LockStages => createLock = t
    /\ job[t].at \in StopStages => job[t].op = "stop"
    /\ job[t].op = "stop" => job[t].at \in StopStages \cup CloseStages \cup {"video"}
    /\ job[t].at \in CloseStages => job[t].op \in {"stop", "close"}
    /\ job[t].at \notin StopStages \cup {"idle"} => job[t].id \in Ids

StageInv ==
    \A t \in Tasks : /\ StageOf(t)
                     /\ job[t].op = "stop" => \A s \in Tasks : job[s].op = "stop" => s = t

(* The context: who launches it and who closes it. *)
ContextInv ==
    /\ \A t \in Tasks : At(t, "launch") =>
           context = "launching" /\ \A s \in Tasks : At(s, "launch") => s = t
    /\ \A t \in Tasks : At(t, "context") => context = "closing"
    /\ context = "closing" => \E t \in Tasks : At(t, "context")
    /\ context \in {"none", "launching", "broken"} => open = {}
    /\ context # "up" => Registered \subseteq strays

(* The id of a tab that is being opened is nobody else's until it is         *)
(* registered, and nothing is kept for it.                                   *)
EarlyOf(t) ==
    job[t].at \in EarlyStages =>
        /\ pages[job[t].id] = None /\ observers[job[t].id] = None
        /\ job[t].id \notin known /\ \A entry \in kept : entry[1] # job[t].id
        /\ \A s \in Tasks : job[s].id = job[t].id => s = t

LateOf(t) ==
    job[t].at \in LateStages =>
        /\ job[t].page \in Chrome
        /\ job[t].page \in open => job[t].id \in strays \/ pages[job[t].id] = job[t].page

(* A page that is being closed is its id's, or nobody's. *)
CloseOf(t) ==
    job[t].at \in CloseStages =>
        /\ job[t].page \in Chrome /\ pages[job[t].id] \in {job[t].page, None}
        /\ \A i \in Ids : pages[i] = job[t].page => i = job[t].id
        /\ \A n \in 1..Len(reusable) : reusable[n] # job[t].page

(* When the browser is asked to close it, its handlers are gone, and it is   *)
(* not the last one.                                                         *)
DestroyOf(t) ==
    At(t, "destroy") =>
        /\ observers[job[t].id] = None
        /\ \A entry \in kept : entry[1] = job[t].id => entry[2] = "session"
        /\ context = "up" => \E p \in open : p # job[t].page

CallOf(t) ==
    At(t, "call") =>
        /\ job[t].page \in Chrome
        /\ job[t].page \in open => job[t].id \in strays \/ pages[job[t].id] = job[t].page
        /\ job[t].rest # << >>

LocalOf(t) == EarlyOf(t) /\ LateOf(t) /\ CloseOf(t) /\ DestroyOf(t) /\ CallOf(t)
LocalInv == \A t \in Tasks : LocalOf(t)

(* A waiter in a table is a task that waits, and waits once. *)
WaiterInv ==
    \A id \in Ids : observers[id] # None =>
        \A w \in observers[id].waiters :
            /\ At(w.task, "waiting") /\ job[w.task].id = id
            /\ \A v \in observers[id].waiters : v.task = w.task => v = w

(* KnownPagesOpen but for the type. *)
KnownOpen ==
    \A id \in known \ (doomed \cup strays) : id \in Registered /\ Alive(pages[id])

IInv ==
    /\ TypeOK /\ JobsOK /\ StageInv /\ ContextInv /\ LocalInv /\ WaiterInv
    /\ NeverWithoutPage /\ PagesOwnedOnce /\ KnownOpen
    /\ NothingKeptForTheGone /\ NobodyMissesARecord

-----------------------------------------------------------------------------
(* What a step of the tasks S leaves to everybody.                           *)
Moves(S) ==
    /\ job' \in [Tasks -> JobType]
    /\ \A s \in Tasks \ S : job'[s] = job[s] \/ (At(s, "waiting") /\ job'[s] = Idle)

LockMoves(S) ==
    \/ createLock' = createLock
    \/ createLock = None /\ createLock' \in S
    \/ createLock \in S /\ createLock' = None

(* A page that appears is nobody's. *)
OpenMoves == \A p \in open' \ open : Unused(p)

(* An id is registered by the task that opens it, with a page that waited or *)
(* is new; it is forgotten when its page is gone, or left to a stop.         *)
PagesMove(S) ==
    \A i \in Ids :
        \/ pages'[i] = pages[i]
        \/ /\ pages'[i] = None
           /\ pages[i] \in open' => context' = "closing" /\ i \in strays'
        \/ /\ pages[i] = None /\ \E t \in S : job[t].id = i /\ job[t].at \in EarlyStages
           /\ Unused(pages'[i]) \/ \E n \in 1..Len(reusable) : pages'[i] = reusable[n]

ReusableMoves ==
    \A n \in 1..Len(reusable)' :
        Unused(reusable'[n]) \/ \E m \in 1..Len(reusable) : reusable'[n] = reusable[m]

StraysMove(S) ==
    \A i \in strays \ strays' : \E t \in S : job[t].id = i /\ job[t].at \in EarlyStages

ObserversMove(S) ==
    \A i \in Ids : observers[i] = None /\ observers'[i] # None =>
                       \E t \in S : job[t].id = i /\ job[t].at \in EarlyStages

(* Ids that are no longer known, or are doomed. *)
Forgets ==
    known' \subseteq known /\ doomed' \subseteq known' /\ known' \ doomed' \subseteq known \ doomed

KnownMoves(S) == \A i \in known' \ known : \E t \in S : job[t].id = i

KeptMoves(S) ==
    \A entry \in kept' \ kept :
        \/ \A s \in Tasks : job[s].id # entry[1]
        \/ entry[2] = "session" /\ \E t \in S : job[t].id = entry[1]

IdsMove(S) ==
    \A t \in S : LET i == job'[t].id IN
        i \in {job[t].id, None} \cup known \cup Registered \/ Free(i)

ContextMoves(S) ==
    /\ context = "closing" => context' = "closing" \/ open' = {}
    /\ context' = "up" => (context = "up" /\ (open \subseteq open' \/ createLock \in S))
                          \/ \E p \in open' : Unused(p)

Frame(S) ==
    /\ Moves(S) /\ OpenMoves /\ PagesMove(S) /\ ReusableMoves /\ StraysMove(S)
    /\ ObserversMove(S) /\ KnownMoves(S) /\ KeptMoves(S) /\ IdsMove(S) /\ ContextMoves(S)

LEMMA Labels ==
    /\ Stages = {"start", "launch", "lock", "newpage", "navigate", "title", "closelock",
                 "replace", "destroy", "untrace", "stopping", "context", "server", "video",
                 "idle", "call", "waiting"}
    /\ LockStages = {"newpage", "navigate", "title", "replace", "destroy"}
    /\ EarlyStages = {"start", "launch", "lock", "newpage"}
    /\ LateStages = {"navigate", "title"}
    /\ CloseStages = {"closelock", "replace", "destroy"}
    /\ StopStages = {"untrace", "stopping", "context", "server"}
BY DEF Stages, LockStages, EarlyStages, LateStages, CloseStages, StopStages

LEMMA IdleJob ==
    /\ Idle \in JobType /\ Idle.at = "idle" /\ Idle.op = "idle" /\ Idle.id = None
    /\ Idle.page = None
<1>1. << >> \in Seq(StepNames \cup {"video"})
  OBVIOUS
<1>2. QED
  BY <1>1, Labels DEF Idle, JobType, OwnOps

LEMMA JobFields ==
    ASSUME JobsOK, NEW t \in Tasks
    PROVE  /\ job[t] \in JobType
           /\ job[t].op \in Calls \cup OwnOps /\ job[t].at \in Stages
           /\ job[t].id \in Ids \cup {None} /\ job[t].page \in Chrome \cup {None}
           /\ job[t].rest \in Seq(StepNames \cup {"video"}) /\ job[t].todo \subseteq Ids
BY DEF JobsOK, JobType

(* The fields of a job, one at a time. *)
LEMMA SetAt ==
    ASSUME NEW j \in JobType, NEW at \in Stages
    PROVE  LET k == [j EXCEPT !.at = at]
           IN  /\ k \in JobType /\ k.at = at /\ k.op = j.op /\ k.id = j.id /\ k.page = j.page
               /\ k.rest = j.rest /\ k.todo = j.todo
BY DEF JobType

LEMMA SetOp ==
    ASSUME NEW j \in JobType, NEW op \in Calls \cup OwnOps
    PROVE  LET k == [j EXCEPT !.op = op]
           IN  /\ k \in JobType /\ k.at = j.at /\ k.op = op /\ k.id = j.id /\ k.page = j.page
               /\ k.rest = j.rest /\ k.todo = j.todo
BY DEF JobType

LEMMA SetId ==
    ASSUME NEW j \in JobType, NEW id \in Ids \cup {None}
    PROVE  LET k == [j EXCEPT !.id = id]
           IN  /\ k \in JobType /\ k.at = j.at /\ k.op = j.op /\ k.id = id /\ k.page = j.page
               /\ k.rest = j.rest /\ k.todo = j.todo
BY DEF JobType

LEMMA SetPage ==
    ASSUME NEW j \in JobType, NEW p \in Chrome \cup {None}
    PROVE  LET k == [j EXCEPT !.page = p]
           IN  /\ k \in JobType /\ k.at = j.at /\ k.op = j.op /\ k.id = j.id /\ k.page = p
               /\ k.rest = j.rest /\ k.todo = j.todo
BY DEF JobType

LEMMA SetRest ==
    ASSUME NEW j \in JobType, NEW rest \in Seq(StepNames \cup {"video"})
    PROVE  LET k == [j EXCEPT !.rest = rest]
           IN  /\ k \in JobType /\ k.at = j.at /\ k.op = j.op /\ k.id = j.id /\ k.page = j.page
               /\ k.rest = rest /\ k.todo = j.todo
BY DEF JobType

LEMMA SetTodo ==
    ASSUME NEW j \in JobType, NEW todo \in SUBSET Ids
    PROVE  LET k == [j EXCEPT !.todo = todo]
           IN  /\ k \in JobType /\ k.at = j.at /\ k.op = j.op /\ k.id = j.id /\ k.page = j.page
               /\ k.rest = j.rest /\ k.todo = todo
BY DEF JobType

LEMMA SetJob ==
    ASSUME JobsOK, NEW t \in Tasks, NEW j \in JobType, job' = [job EXCEPT ![t] = j]
    PROVE  Moves({t}) /\ job'[t] = j
BY DEF JobsOK, Moves

-----------------------------------------------------------------------------
(* The others, one invariant at a time. *)
LEMMA OtherJob ==
    ASSUME NEW S, Moves(S), NEW s \in Tasks \ S
    PROVE  \/ job'[s] = job[s]
           \/ /\ job'[s].at = "idle" /\ job'[s].op = "idle" /\ job'[s].id = None
              /\ job[s].at = "waiting"
BY IdleJob DEF Moves, At

(* Nobody has the id of a tab that is being opened but its task. *)
LEMMA Apart ==
    ASSUME StageInv, LocalInv, NEW s \in Tasks, NEW t \in Tasks, s # t,
           job[s].at \in EarlyStages
    PROVE  job[s].id \in Ids /\ job[t].id # job[s].id
BY Labels DEF StageInv, StageOf, LocalInv, LocalOf, EarlyOf

LEMMA UnusedPage ==
    ASSUME TypeOK, NEW p, Unused(p)
    PROVE  /\ p \notin open /\ \A i \in Ids : pages[i] # p
           /\ \A n \in 1..Len(reusable) : reusable[n] # p
           /\ \A t \in Tasks : job[t].page # p
<1>1. Range(pages) = {pages[i] : i \in Ids} /\ Range(reusable) = {reusable[n] : n \in 1..Len(reusable)}
  BY DEF Range, TypeOK
<1>2. QED
  BY <1>1 DEF Unused

LEMMA EarlyStep ==
    ASSUME IInv, NEW S \in SUBSET Tasks, Frame(S), NEW s \in Tasks \ S
    PROVE  EarlyOf(s)'
<1> SUFFICES ASSUME job'[s].at \in EarlyStages PROVE EarlyOf(s)'
  BY DEF EarlyOf
<1>1. Moves(S) /\ StageInv /\ LocalInv
  BY DEF Frame, IInv
<1>2. job'[s] = job[s] /\ job[s].at \in EarlyStages
  BY <1>1, OtherJob, Labels
<1> DEFINE i == job[s].id
<1>3. /\ i \in Ids /\ pages[i] = None /\ observers[i] = None /\ i \notin known
      /\ \A entry \in kept : entry[1] # i
      /\ \A r \in Tasks : job[r].id = i => r = s
  BY <1>1, <1>2, Labels DEF StageInv, StageOf, LocalInv, LocalOf, EarlyOf
<1>4. ~(\E t \in S : job[t].id = i)
  BY <1>3
<1>5. pages'[i] = None /\ observers'[i] = None /\ i \notin known'
  BY <1>3, <1>4 DEF Frame, PagesMove, ObserversMove, KnownMoves
<1>6. \A entry \in kept' : entry[1] # i
  BY <1>3, <1>4 DEF Frame, KeptMoves
<1>7. \A r \in Tasks : job'[r].id = i => r = s
  <2> SUFFICES ASSUME NEW r \in Tasks, r # s, job'[r].id = i PROVE FALSE
    OBVIOUS
  <2>1. i # None
    BY <1>3, PagesAssumption
  <2>2. CASE r \notin S
    BY <1>1, <1>3, <2>1, <2>2, OtherJob
  <2>3. CASE r \in S
    <3>1. i \in {job[r].id, None} \cup known \cup Registered \/ Free(i)
      BY <2>3 DEF Frame, IdsMove
    <3>2. ~Free(i) /\ i \notin Registered
      BY <1>3 DEF Free, Registered
    <3>3. QED
      BY <1>3, <2>1, <3>1, <3>2
  <2>4. QED
    BY <2>2, <2>3
<1>8. QED
  BY <1>2, <1>3, <1>5, <1>6, <1>7 DEF EarlyOf

(* What the stages of a suspended task have in common. *)
LEMMA Suspended ==
    ASSUME IInv, NEW S \in SUBSET Tasks, Frame(S), NEW s \in Tasks \ S,
           job'[s].at \notin {"idle", "waiting"}
    PROVE  /\ job'[s] = job[s]
           /\ TypeOK /\ PagesMove(S) /\ ContextMoves(S) /\ LocalOf(s)
           /\ job[s].page \in open' => job[s].page \in open
           /\ job[s].at \notin StopStages \cup EarlyStages =>
                  job[s].id \in Ids /\ ~(\E t \in S : job[t].id = job[s].id /\ job[t].at \in EarlyStages)
<1>1. Moves(S) /\ StageInv /\ LocalInv /\ TypeOK
  BY DEF Frame, IInv
<1>2. job'[s] = job[s]
  BY <1>1, OtherJob
<1>3. job[s].page \in open' => job[s].page \in open
  BY <1>1, UnusedPage DEF Frame, OpenMoves
<1>4. job[s].at \notin StopStages \cup EarlyStages =>
          job[s].id \in Ids /\ ~(\E t \in S : job[t].id = job[s].id /\ job[t].at \in EarlyStages)
  BY <1>1, <1>2, Apart DEF StageInv, StageOf
<1>5. QED
  BY <1>1, <1>2, <1>3, <1>4 DEF Frame, LocalInv

LEMMA LateStep ==
    ASSUME IInv, NEW S \in SUBSET Tasks, Frame(S), NEW s \in Tasks \ S
    PROVE  LateOf(s)'
<1> SUFFICES ASSUME job'[s].at \in LateStages PROVE LateOf(s)'
  BY DEF LateOf
<1>1. /\ job'[s] = job[s] /\ job[s].at \in LateStages /\ job[s].id \in Ids
      /\ ~(\E t \in S : job[t].id = job[s].id /\ job[t].at \in EarlyStages)
  BY Suspended, Labels
<1> DEFINE i == job[s].id
           p == job[s].page
<1>2. /\ PagesMove(S) /\ p \in Chrome /\ p # None
      /\ p \in open' => p \in open
      /\ p \in open => i \in strays \/ pages[i] = p
  BY <1>1, Suspended, Labels, PagesAssumption DEF LocalOf, LateOf
<1>3. i \in strays => i \in strays'
  BY <1>1 DEF Frame, StraysMove
<1>4. p \in open' => i \in strays' \/ pages'[i] = p
  BY <1>1, <1>2, <1>3 DEF PagesMove
<1>5. QED
  BY <1>1, <1>2, <1>4 DEF LateOf

LEMMA CloseStep ==
    ASSUME IInv, NEW S \in SUBSET Tasks, Frame(S), NEW s \in Tasks \ S
    PROVE  CloseOf(s)'
<1> SUFFICES ASSUME job'[s].at \in CloseStages PROVE CloseOf(s)'
  BY DEF CloseOf
<1>1. /\ job'[s] = job[s] /\ job[s].at \in CloseStages /\ job[s].id \in Ids
      /\ ~(\E t \in S : job[t].id = job[s].id /\ job[t].at \in EarlyStages)
  BY Suspended, Labels
<1> DEFINE i == job[s].id
           p == job[s].page
<1>2. /\ TypeOK /\ PagesMove(S) /\ p \in Chrome /\ p # None /\ pages[i] \in {p, None}
      /\ \A k \in Ids : pages[k] = p => k = i
      /\ \A n \in 1..Len(reusable) : reusable[n] # p
  BY <1>1, Suspended, Labels, PagesAssumption DEF LocalOf, CloseOf
<1>3. ~Unused(p)
  BY <1>2, UnusedPage
<1>4. pages'[i] \in {p, None}
  BY <1>1, <1>2 DEF PagesMove
<1>5. \A k \in Ids : pages'[k] = p => k = i
  BY <1>2, <1>3 DEF PagesMove
<1>6. \A n \in 1..Len(reusable)' : reusable'[n] # p
  BY <1>2, <1>3 DEF Frame, ReusableMoves
<1>7. QED
  BY <1>1, <1>2, <1>4, <1>5, <1>6 DEF CloseOf

LEMMA DestroyStep ==
    ASSUME IInv, NEW S \in SUBSET Tasks, Frame(S), NEW s \in Tasks \ S
    PROVE  DestroyOf(s)'
<1> SUFFICES ASSUME job'[s].at = "destroy" PROVE DestroyOf(s)'
  BY DEF DestroyOf, At
<1>1. /\ job'[s] = job[s] /\ job[s].at = "destroy" /\ job[s].id \in Ids
      /\ ~(\E t \in S : job[t].id = job[s].id /\ job[t].at \in EarlyStages)
  BY Suspended, Labels
<1> DEFINE i == job[s].id
<1>2. /\ TypeOK /\ ContextMoves(S) /\ observers[i] = None
      /\ \A entry \in kept : entry[1] = i => entry[2] = "session"
      /\ context = "up" => \E p \in open : p # job[s].page
  BY <1>1, Suspended DEF LocalOf, DestroyOf, At
<1>3. observers'[i] = None
  BY <1>1, <1>2 DEF Frame, ObserversMove
<1>4. \A entry \in kept' : entry[1] = i => entry[2] = "session"
  BY <1>2 DEF Frame, KeptMoves
<1>5. createLock \notin S
  BY <1>1, Labels DEF IInv, StageInv, StageOf
<1>6. context' = "up" => \E p \in open' : p # job[s].page
  BY <1>2, <1>5, UnusedPage DEF ContextMoves
<1>7. QED
  BY <1>1, <1>3, <1>4, <1>6 DEF DestroyOf

LEMMA CallStep ==
    ASSUME IInv, NEW S \in SUBSET Tasks, Frame(S), NEW s \in Tasks \ S
    PROVE  CallOf(s)'
<1> SUFFICES ASSUME job'[s].at = "call" PROVE CallOf(s)'
  BY DEF CallOf, At
<1>1. /\ job'[s] = job[s] /\ job[s].at = "call" /\ job[s].id \in Ids
      /\ ~(\E t \in S : job[t].id = job[s].id /\ job[t].at \in EarlyStages)
  BY Suspended, Labels
<1> DEFINE i == job[s].id
           p == job[s].page
<1>2. /\ PagesMove(S) /\ p \in Chrome /\ p # None /\ job[s].rest # << >>
      /\ p \in open' => p \in open
      /\ p \in open => i \in strays \/ pages[i] = p
  BY <1>1, Suspended, PagesAssumption DEF LocalOf, CallOf, At
<1>3. i \in strays => i \in strays'
  BY <1>1 DEF Frame, StraysMove
<1>4. p \in open' => i \in strays' \/ pages'[i] = p
  BY <1>1, <1>2, <1>3 DEF PagesMove
<1>5. QED
  BY <1>1, <1>2, <1>4 DEF CallOf

LEMMA LocalStep ==
    ASSUME IInv, NEW S \in SUBSET Tasks, Frame(S), \A t \in S : LocalOf(t)'
    PROVE  LocalInv'
<1>1. \A s \in Tasks \ S : LocalOf(s)'
  BY EarlyStep, LateStep, CloseStep, DestroyStep, CallStep DEF LocalOf
<1>2. QED
  BY <1>1 DEF LocalInv

-----------------------------------------------------------------------------
(* The other invariants, for the steps that hardly touch them. *)
LEMMA StageStep ==
    ASSUME IInv, NEW S \in SUBSET Tasks, Moves(S), LockMoves(S),
           \A s, t \in S : s = t, \A t \in S : StageOf(t)',
           \A t \in S : job'[t].op = "stop" => job[t].op = "stop" \/ ~Stopping,
           createLock' \in S => job'[createLock'].at \in LockStages
    PROVE  /\ StageInv' /\ createLock' \in Tasks \cup {None}
           /\ createLock' # None => job'[createLock'].at \in LockStages
<1>1. StageInv /\ createLock \in Tasks \cup {None} /\ None \notin Tasks
  BY PagesAssumption DEF IInv, JobsOK
<1>2. createLock' \in Tasks \cup {None}
  BY <1>1 DEF LockMoves
<1>3. \A s \in Tasks \ S : StageOf(s)'
  <2> TAKE s \in Tasks \ S
  <2>1. CASE job'[s] = job[s]
    <3>1. job[s].at \in LockStages => createLock' = s
      BY <1>1 DEF StageInv, StageOf, LockMoves
    <3>2. QED
      BY <1>1, <2>1, <3>1 DEF StageInv, StageOf
  <2>2. CASE job'[s].at = "idle" /\ job'[s].op = "idle"
    BY <2>2, Labels DEF StageOf
  <2>3. QED
    BY <2>1, <2>2, OtherJob
<1>4. \A s \in Tasks \ S : job'[s].op = "stop" => job[s].op = "stop"
  BY OtherJob
<1>5. \A s \in Tasks, t \in Tasks : job'[s].op = "stop" /\ job'[t].op = "stop" => s = t
  <2> SUFFICES ASSUME NEW s \in Tasks, NEW t \in Tasks, s # t,
                      job'[s].op = "stop", job'[t].op = "stop"
               PROVE  FALSE
    OBVIOUS
  <2>1. CASE s \notin S /\ t \notin S
    BY <1>1, <1>4, <2>1 DEF StageInv
  <2>2. CASE s \in S /\ t \notin S
    BY <1>1, <1>4, <2>2 DEF StageInv, Stopping
  <2>3. CASE s \notin S /\ t \in S
    BY <1>1, <1>4, <2>3 DEF StageInv, Stopping
  <2>4. QED
    BY <2>1, <2>2, <2>3
<1>6. StageInv'
  BY <1>3, <1>5 DEF StageInv
<1>7. createLock' # None => job'[createLock'].at \in LockStages
  <2> SUFFICES ASSUME createLock' # None, createLock' \notin S
               PROVE  job'[createLock'].at \in LockStages
    OBVIOUS
  <2>1. createLock' = createLock /\ createLock \in Tasks \ S
    BY <1>2 DEF LockMoves
  <2>2. job[createLock].at \in LockStages
    BY <2>1, Labels DEF IInv, TypeOK
  <2>3. QED
    BY <2>1, <2>2, OtherJob, Labels
<1>8. QED
  BY <1>2, <1>6, <1>7

LEMMA ContextStep ==
    ASSUME IInv, NEW S \in SUBSET Tasks, Moves(S), context' = context,
           \A t \in S : /\ job[t].at \notin {"launch", "context"}
                        /\ job'[t].at \notin {"launch", "context"},
           context \in {"none", "launching", "broken"} => open' = {},
           context # "up" => Registered' \subseteq strays'
    PROVE  ContextInv'
<1>1. \A t \in Tasks, at \in {"launch", "context"} : job'[t].at = at <=> job[t].at = at
  BY OtherJob
<1>2. ContextInv
  BY DEF IInv
<1>3. /\ \A t \in Tasks : job'[t].at = "launch" =>
             context' = "launching" /\ \A s \in Tasks : job'[s].at = "launch" => s = t
      /\ \A t \in Tasks : job'[t].at = "context" => context' = "closing"
      /\ context' = "closing" => \E t \in Tasks : job'[t].at = "context"
  BY <1>1, <1>2 DEF ContextInv, At
<1>4. QED
  BY <1>3 DEF ContextInv, At

LEMMA KnownStep ==
    ASSUME IInv, Forgets,
           \A id \in known' \ (doomed' \cup strays') :
               /\ id \notin strays
               /\ id \in Registered /\ pages[id] \in open =>
                      pages'[id] = pages[id] /\ pages[id] \in open'
    PROVE  KnownOpen'
BY DEF IInv, Forgets, KnownOpen, Registered, Alive

LEMMA OwnedStep ==
    ASSUME IInv, \A i \in Ids : pages'[i] \in {pages[i], None},
           \/ reusable' = << >> \/ reusable' = reusable
           \/ \E p \in Chrome : Unused(p) /\ reusable' \in {<<p>>, Append(reusable, p)}
    PROVE  PagesOwnedOnce'
<1>1. PagesOwnedOnce /\ TypeOK /\ None \notin Chrome
  BY PagesAssumption DEF IInv
<1>2. \A i, j \in Registered' : pages'[i] = pages'[j] => i = j
  BY <1>1 DEF PagesOwnedOnce, Registered
<1> DEFINE Fresh(r, n) == r[n] \notin {pages[i] : i \in Ids} \cup {r[m] : m \in 1..(n - 1)} \cup {None}
<1>3. \A n \in 1..Len(reusable) : Fresh(reusable, n)
  BY <1>1 DEF PagesOwnedOnce, TypeOK
<1>4. \A n \in 1..Len(reusable') : Fresh(reusable', n)
  <2>1. CASE reusable' = << >>
    BY <2>1
  <2>2. CASE reusable' = reusable
    BY <1>3, <2>2
  <2>3. ASSUME NEW p \in Chrome, Unused(p), reusable' = <<p>> PROVE \A n \in 1..Len(reusable') : Fresh(reusable', n)
    <3>1. Fresh(reusable', 1)
      BY <1>1, <2>3, UnusedPage
    <3>2. QED
      BY <2>3, <3>1
  <2>4. ASSUME NEW p \in Chrome, Unused(p), reusable' = Append(reusable, p)
        PROVE  \A n \in 1..Len(reusable') : Fresh(reusable', n)
    <3> TAKE n \in 1..Len(reusable')
    <3>1. Len(reusable') = Len(reusable) + 1 /\ Len(reusable) \in Nat
      BY <1>1, <2>4 DEF TypeOK
    <3>2. \A m \in 1..Len(reusable) : reusable'[m] = reusable[m]
      BY <1>1, <2>4 DEF TypeOK
    <3>3. CASE n = Len(reusable) + 1
      <4>1. reusable'[n] = p /\ \A m \in 1..(n - 1) : reusable'[m] = reusable[m] /\ m \in 1..Len(reusable)
        BY <1>1, <2>4, <3>1, <3>2, <3>3 DEF TypeOK
      <4>2. QED
        BY <1>1, <2>4, <4>1, UnusedPage
    <3>4. CASE n \in 1..Len(reusable)
      <4>1. reusable'[n] = reusable[n] /\ \A m \in 1..(n - 1) : reusable'[m] = reusable[m]
        BY <3>1, <3>2, <3>4
      <4>2. Fresh(reusable, n)
        BY <1>3, <3>4
      <4>3. QED
        BY <4>1, <4>2
    <3>5. QED
      BY <3>1, <3>3, <3>4
  <2>5. QED
    BY <2>1, <2>2, <2>3, <2>4
<1>5. \A n \in 1..Len(reusable') : reusable'[n] \notin {pages'[i] : i \in Ids} \cup {reusable'[m] : m \in 1..(n - 1)}
  BY <1>4
<1>6. QED
  BY <1>2, <1>5 DEF PagesOwnedOnce

(* Who still waits was waiting, for an id that was not a stray either. *)
LEMMA WaitStep ==
    ASSUME IInv, NEW S \in SUBSET Tasks, Moves(S), StraysMove(S),
           \A t \in S : job'[t].at # "waiting",
           NEW s \in Tasks, job'[s].at = "waiting", job'[s].id \notin strays'
    PROVE  /\ s \notin S /\ job'[s] = job[s] /\ job[s].at = "waiting"
           /\ job[s].id \in Ids /\ job[s].id \notin strays /\ observers[job[s].id] # None
           /\ \E w \in observers[job[s].id].waiters :
                  w.task = s /\ ~Found(observers[job[s].id], w.filter)
           /\ \A t \in Tasks : job[t].id = job[s].id => job[t].at \notin EarlyStages
<1>1. s \notin S /\ job'[s] = job[s]
  BY OtherJob
<1>2. job[s].id \in Ids /\ \A t \in Tasks : job[t].id = job[s].id => job[t].at \notin EarlyStages
  BY <1>1, Labels, Apart DEF IInv, StageInv, StageOf
<1>3. job[s].id \notin strays
  BY <1>1, <1>2 DEF StraysMove
<1>4. QED
  BY <1>1, <1>2, <1>3 DEF IInv, NobodyMissesARecord, At

LEMMA WaitersKept ==
    ASSUME IInv, NEW S \in SUBSET Tasks, Moves(S), StraysMove(S),
           \A t \in S : job'[t].at # "waiting",
           \A s \in Tasks : /\ job'[s].at = "waiting" /\ job'[s].id \notin strays'
                            /\ job[s].at = "waiting"
                            => observers'[job[s].id] = observers[job[s].id]
    PROVE  NobodyMissesARecord'
<1> SUFFICES ASSUME NEW s \in Tasks, job'[s].at = "waiting", job'[s].id \notin strays'
             PROVE  /\ observers'[job'[s].id] # None
                    /\ \E w \in observers'[job'[s].id].waiters :
                           w.task = s /\ ~Found(observers'[job'[s].id], w.filter)
  BY DEF NobodyMissesARecord, At
<1>1. QED
  BY WaitStep

-----------------------------------------------------------------------------
(* A step of one task that touches no more than its own job, the lock and    *)
(* what is kept for its id.                                                  *)
LEMMA QuietStep ==
    ASSUME IInv, NEW t \in Tasks, NEW j \in JobType, job' = [job EXCEPT ![t] = j],
           UNCHANGED <<context, open, pages, reusable, observers, strays>>, Forgets,
           LockMoves({t}), createLock' = t => j.at \in LockStages,
           StageOf(t)', LocalOf(t)', IdsMove({t}),
           job[t].at \notin {"launch", "context", "waiting"},
           j.at \notin {"launch", "context", "waiting"},
           j.op = "stop" => job[t].op = "stop" \/ ~Stopping,
           kept' \subseteq Ids \X Tables, KeptMoves({t}),
           \A entry \in kept' \ kept :
               entry[2] = "messages" \/ entry[1] \in strays \cup Registered
    PROVE  IInv'
<1>1. Moves({t}) /\ job'[t] = j
  BY SetJob DEF IInv
<1>2. Frame({t})
  BY <1>1 DEF Frame, OpenMoves, PagesMove, ReusableMoves, StraysMove, ObserversMove,
              KnownMoves, Forgets, ContextMoves, IInv, NeverWithoutPage
<1>3. LocalInv'
  BY <1>2, LocalStep
<1>4. /\ StageInv' /\ createLock' \in Tasks \cup {None}
      /\ createLock' # None => job'[createLock'].at \in LockStages
  BY <1>1, StageStep
<1>5. ContextInv'
  <2>1. /\ context \in {"none", "launching", "broken"} => open' = {}
        /\ context # "up" => Registered' \subseteq strays'
    BY DEF IInv, ContextInv, Registered
  <2>2. QED
    BY <1>1, <2>1, ContextStep
<1>6. TypeOK'
  BY <1>4, Labels DEF IInv, TypeOK, Forgets
<1>7. JobsOK'
  BY <1>1, <1>4 DEF IInv, JobsOK, Moves
<1>8. KnownOpen'
  BY KnownStep
<1>9. PagesOwnedOnce' /\ NeverWithoutPage'
  BY DEF IInv, PagesOwnedOnce, NeverWithoutPage, Registered
<1>10. WaiterInv'
  <2>1. \A s \in Tasks : job[s].at = "waiting" => job'[s] = job[s]
    BY DEF IInv, JobsOK
  <2>2. \A id \in Ids : observers[id] # None => \A w \in observers[id].waiters : w.task \in Tasks
    BY DEF IInv, TypeOK, Observers
  <2>3. QED
    BY <2>1, <2>2 DEF IInv, WaiterInv, At
<1>11. NobodyMissesARecord'
  BY <1>1, <1>2, WaitersKept DEF Frame
<1>12. NothingKeptForTheGone'
  BY DEF IInv, NothingKeptForTheGone, Registered
<1>13. QED
  BY <1>3, <1>4, <1>5, <1>6, <1>7, <1>8, <1>9, <1>10, <1>11, <1>12 DEF IInv

(* At rest, and between two pages of stop, a task claims nothing. *)
LEMMA AtRest ==
    ASSUME NEW t, \/ job'[t] = Idle
                  \/ job'[t].op = "stop" /\ job'[t].at \in StopStages
    PROVE  StageOf(t)' /\ LocalOf(t)' /\ job'[t].at \notin LockStages
BY IdleJob, Labels DEF StageOf, LocalOf, EarlyOf, LateOf, CloseOf, DestroyOf, CallOf, At

LEMMA SameLock ==
    ASSUME UNCHANGED createLock, NEW t \in Tasks, NEW at \in Stages, IInv,
           job[t].at \notin LockStages
    PROVE  LockMoves({t}) /\ (createLock' = t => at \in LockStages)
BY PagesAssumption DEF LockMoves, IInv, TypeOK, LockStages

LEMMA BringOpenStep ==
    ASSUME IInv, NEW t \in Tasks, NEW id \in Ids, BringOpen(t, id) PROVE IInv'
<1> DEFINE j == [Idle EXCEPT !.op = "open", !.at = "start", !.id = id]
<1>1. /\ j \in JobType /\ j.op = "open" /\ j.at = "start" /\ j.id = id
      /\ "start" \in Stages /\ "open" \in Calls \cup OwnOps
  BY IdleJob, Labels DEF JobType, OwnOps
<1>2. job' = [job EXCEPT ![t] = j] /\ job[t].at = "idle" /\ Free(id)
  BY DEF BringOpen, At
<1> HIDE DEF j
<1>3. job'[t] = j /\ \A s \in Tasks : s # t => job'[s] = job[s]
  BY <1>2 DEF IInv, JobsOK
<1>4. UNCHANGED <<context, open, pages, reusable, kept, observers, createLock, known, strays, doomed>>
  BY DEF BringOpen
<1>5. StageOf(t)'
  BY <1>1, <1>3, Labels DEF StageOf
<1>6. LocalOf(t)'
  <2>1. EarlyOf(t)'
    <3>1. pages[id] = None /\ observers[id] = None /\ id \notin known
      BY <1>2 DEF Free, Registered
    <3>2. \A entry \in kept : entry[1] # id
      BY <1>2 DEF Free, Of, IInv, TypeOK
    <3>3. \A s \in Tasks : job'[s].id = id => s = t
      BY <1>2, <1>3 DEF Free
    <3>4. QED
      BY <1>1, <1>3, <1>4, <3>1, <3>2, <3>3 DEF EarlyOf
  <2>2. QED
    BY <1>1, <1>3, <2>1, Labels DEF LocalOf, LateOf, CloseOf, DestroyOf, CallOf, At
<1>7. IdsMove({t})
  BY <1>1, <1>2, <1>3 DEF IdsMove
<1>8. job[t].op # "stop"
  BY <1>2, Labels DEF IInv, StageInv, StageOf
<1>9. QED
  BY <1>1, <1>2, <1>4, <1>5, <1>6, <1>7, <1>8, SameLock, QuietStep, Labels DEF Forgets, KeptMoves, IInv, TypeOK

LEMMA GotoJob ==
    ASSUME JobsOK, NEW t \in Tasks, NEW at \in Stages, Goto(t, at)
    PROVE  LET j == [job[t] EXCEPT !.at = at]
           IN  /\ j \in JobType /\ job' = [job EXCEPT ![t] = j] /\ job'[t] = j
               /\ j.at = at /\ j.op = job[t].op /\ j.id = job[t].id /\ j.page = job[t].page
               /\ j.todo = job[t].todo
<1>1. job[t] \in JobType
  BY DEF JobsOK
<1>2. QED
  BY <1>1, SetAt DEF Goto, JobsOK

LEMMA DoneJob ==
    ASSUME JobsOK, NEW t \in Tasks, Done(t)
    PROVE  job' = [job EXCEPT ![t] = Idle] /\ job'[t] = Idle /\ Moves({t})
BY IdleJob, SetJob DEF Done, JobsOK

(* A task that gives up, or is done: the others do not notice. *)
LEMMA DoneStep ==
    ASSUME IInv, NEW t \in Tasks, Done(t),
           UNCHANGED <<context, open, pages, reusable, observers, strays>>, Forgets,
           kept' \subseteq Ids \X Tables, KeptMoves({t}),
           \A entry \in kept' \ kept :
               entry[2] = "messages" \/ entry[1] \in strays \cup Registered,
           LockMoves({t}), createLock' # t,
           job[t].at \notin {"launch", "context", "waiting"}
    PROVE  IInv'
<1>1. job' = [job EXCEPT ![t] = Idle] /\ job'[t] = Idle
  BY DoneJob DEF IInv
<1>2. StageOf(t)' /\ LocalOf(t)'
  BY <1>1, AtRest
<1>3. IdsMove({t})
  BY <1>1, IdleJob DEF IdsMove
<1>4. QED
  BY <1>1, <1>2, <1>3, IdleJob, QuietStep, Labels

(* Who holds the lock lets it go. *)
LEMMA Unlock ==
    ASSUME IInv, NEW t \in Tasks, job[t].at \in LockStages, createLock' = None
    PROVE  LockMoves({t}) /\ createLock' # t
BY PagesAssumption DEF LockMoves, IInv, StageInv, StageOf

LEMMA OpenFailsStep ==
    ASSUME IInv, NEW t \in Tasks, OpenFails(t) PROVE IInv'
<1>1. /\ job[t].at \in {"newpage", "navigate", "title"} /\ createLock' = None /\ Done(t)
      /\ UNCHANGED <<context, open, pages, reusable, kept, observers, known, strays, doomed>>
  BY DEF OpenFails
<1>2. QED
  BY <1>1, Unlock, DoneStep, Labels DEF Forgets, KeptMoves, IInv, TypeOK

LEMMA CallFailsStep ==
    ASSUME IInv, NEW t \in Tasks, CallFails(t) PROVE IInv'
<1>1. /\ job[t].at = "call" /\ Done(t)
      /\ UNCHANGED <<context, open, pages, reusable, kept, observers, createLock, known, strays, doomed>>
  BY DEF CallFails, At
<1>2. LockMoves({t}) /\ createLock' # t
  BY <1>1, SameLock, Labels
<1>3. QED
  BY <1>1, <1>2, DoneStep DEF Forgets, KeptMoves, IInv, TypeOK

LEMMA EnsureStartedStep ==
    ASSUME IInv, NEW t \in Tasks, EnsureStarted(t), context' = context PROVE IInv'
<1>1. /\ job[t].at = "start" /\ Goto(t, "lock")
      /\ UNCHANGED <<open, pages, reusable, kept, observers, createLock, known, strays, doomed>>
  BY DEF EnsureStarted, At
<1> DEFINE j == [job[t] EXCEPT !.at = "lock"]
<1>2. /\ j \in JobType /\ job' = [job EXCEPT ![t] = j] /\ job'[t] = j
      /\ j.at = "lock" /\ j.op = job[t].op /\ j.id = job[t].id /\ j.page = job[t].page
  <2>1. "lock" \in Stages /\ JobsOK
    BY Labels DEF IInv
  <2>2. QED
    BY <1>1, <2>1, GotoJob
<1> HIDE DEF j
<1>3. StageOf(t) /\ LocalOf(t)
  BY DEF IInv, StageInv, LocalInv
<1>4. StageOf(t)'
  BY <1>1, <1>2, <1>3, Labels DEF StageOf
<1>5. \A s \in Tasks : job'[s].id = job[s].id
  BY <1>2 DEF IInv, JobsOK
<1>6. LocalOf(t)'
  BY <1>1, <1>2, <1>3, <1>5, Labels DEF LocalOf, EarlyOf, LateOf, CloseOf, DestroyOf, CallOf, At
<1>7. IdsMove({t})
  BY <1>2 DEF IdsMove
<1>8. LockMoves({t}) /\ createLock' # t
  BY <1>1, SameLock, Labels
<1>9. QED
  BY <1>1, <1>2, <1>3, <1>4, <1>6, <1>7, <1>8, QuietStep, Labels DEF Forgets, KeptMoves, IInv, TypeOK, StageOf

LEMMA NavigatedStep ==
    ASSUME IInv, NEW t \in Tasks, Navigated(t) PROVE IInv'
<1>1. /\ job[t].at = "navigate" /\ Goto(t, "title")
      /\ UNCHANGED <<context, open, pages, reusable, kept, observers, createLock, known, strays, doomed>>
  BY DEF Navigated, At
<1> DEFINE j == [job[t] EXCEPT !.at = "title"]
<1>2. /\ j \in JobType /\ job' = [job EXCEPT ![t] = j] /\ job'[t] = j
      /\ j.at = "title" /\ j.op = job[t].op /\ j.id = job[t].id /\ j.page = job[t].page
  <2>1. "title" \in Stages /\ JobsOK
    BY Labels DEF IInv
  <2>2. QED
    BY <1>1, <2>1, GotoJob
<1> HIDE DEF j
<1>3. StageOf(t) /\ LocalOf(t)
  BY DEF IInv, StageInv, LocalInv
<1>4. StageOf(t)'
  BY <1>1, <1>2, <1>3, Labels DEF StageOf
<1>5. LocalOf(t)'
  BY <1>1, <1>2, <1>3, Labels DEF LocalOf, EarlyOf, LateOf, CloseOf, DestroyOf, CallOf, At
<1>6. IdsMove({t})
  BY <1>2 DEF IdsMove
<1>7. QED
  BY <1>1, <1>2, <1>3, <1>4, <1>5, <1>6, QuietStep, Labels
     DEF Forgets, KeptMoves, LockMoves, IInv, TypeOK, StageOf

LEMMA AfterCloseJob ==
    ASSUME JobsOK, NEW t \in Tasks, AfterClose(t)
    PROVE  \E j \in JobType :
               /\ job' = [job EXCEPT ![t] = j] /\ job'[t] = j /\ j.id = None /\ j.page = None
               /\ \/ job[t].op = "stop" /\ j.op = "stop" /\ j.at = "stopping"
                  \/ job[t].op # "stop" /\ j = Idle
<1>1. job[t] \in JobType /\ "stopping" \in Stages /\ << >> \in Seq(StepNames \cup {"video"})
  BY Labels DEF JobsOK
<1> DEFINE k == [job[t] EXCEPT !.at = "stopping", !.id = None, !.page = None, !.rest = << >>]
<1>2. /\ k \in JobType /\ k.at = "stopping" /\ k.id = None /\ k.page = None
      /\ k.op = job[t].op
  BY <1>1 DEF JobType
<1> HIDE DEF k
<1>3. job' = [job EXCEPT ![t] = IF job[t].op = "stop" THEN k ELSE Idle]
  BY DEF AfterClose, k
<1>4. QED
  BY <1>2, <1>3, IdleJob DEF JobsOK

LEMMA StartCloseStep ==
    ASSUME IInv, NEW t \in Tasks, NEW id \in Registered, NEW todo \in SUBSET Ids,
           StartClose(t, id, todo), job[t].at \in {"idle", "stopping"},
           UNCHANGED <<context, open, pages, reusable, observers, createLock, known, strays, doomed>>
    PROVE  IInv'
<1>1. /\ job[t] \in JobType /\ "closelock" \in Stages /\ id \in Ids /\ pages[id] \in Chrome
      /\ {"stop", "close"} \subseteq Calls \cup OwnOps
  BY Labels DEF IInv, JobsOK, TypeOK, Registered, OwnOps
<1> DEFINE op == IF job[t].op = "stop" THEN "stop" ELSE "close"
           video == Video(id)
           k == [job[t] EXCEPT !.at = "closelock", !.id = id, !.page = pages[id],
                               !.todo = todo, !.rest = video, !.op = op]
<1> video \in Seq(StepNames \cup {"video"})
  <2>1. <<"video">> \in Seq(StepNames \cup {"video"}) /\ << >> \in Seq(StepNames \cup {"video"})
    OBVIOUS
  <2>2. QED
    BY <2>1 DEF Video
<1> HIDE DEF video
<1>2. /\ k \in JobType /\ k.at = "closelock" /\ k.id = id /\ k.page = pages[id] /\ k.op = op
  BY <1>1 DEF JobType
<1>3. job' = [job EXCEPT ![t] = k]
  BY <1>1 DEF StartClose, JobType, IInv, JobsOK, video
<1> HIDE DEF k
<1>4. job'[t] = k
  BY <1>3 DEF IInv, JobsOK
<1>5. StageOf(t)'
  BY <1>1, <1>2, <1>4, Labels DEF StageOf
<1>6. LocalOf(t)'
  <2>1. \A i \in Ids : pages[i] = pages[id] => i = id
    BY <1>1, PagesAssumption DEF IInv, PagesOwnedOnce, Registered
  <2>2. \A n \in 1..Len(reusable) : reusable[n] # pages[id]
    BY <1>1 DEF IInv, PagesOwnedOnce
  <2>3. CloseOf(t)'
    BY <1>1, <1>2, <1>4, <2>1, <2>2 DEF CloseOf
  <2>4. QED
    BY <1>2, <1>4, <2>3, Labels DEF LocalOf, EarlyOf, LateOf, DestroyOf, CallOf, At
<1>7. IdsMove({t})
  BY <1>2, <1>4 DEF IdsMove
<1>8. job[t].op = "stop" <=> k.op = "stop"
  BY <1>2
<1>9. kept' \subseteq kept
  BY DEF StartClose
<1>10. LockMoves({t}) /\ createLock' # t
  <2>1. job[t].at \notin LockStages
    BY Labels
  <2>2. QED
    BY <2>1, PagesAssumption DEF LockMoves, IInv, TypeOK, LockStages
<1>11. QED
  BY <1>2, <1>3, <1>5, <1>6, <1>7, <1>8, <1>9, <1>10, QuietStep, Labels DEF Forgets, KeptMoves, IInv, TypeOK

LEMMA BringCloseStep ==
    ASSUME IInv, NEW t \in Tasks, NEW id \in Ids, BringClose(t, id) PROVE IInv'
BY StartCloseStep DEF BringClose, At

LEMMA StopNextStep ==
    ASSUME IInv, NEW t \in Tasks, StopNext(t) PROVE IInv'
<1>1. /\ job[t].at = "stopping"
      /\ UNCHANGED <<context, open, pages, reusable, observers, createLock, known, strays, doomed>>
  BY DEF StopNext, At
<1>2. PICK id \in job[t].todo :
          IF id \in Registered
          THEN StartClose(t, id, job[t].todo \ {id})
          ELSE job' = [job EXCEPT ![t].todo = @ \ {id}] /\ UNCHANGED kept
  BY DEF StopNext
<1>3. job[t] \in JobType /\ job[t].todo \subseteq Ids
  BY JobFields DEF IInv
<1>4. CASE id \in Registered
  BY <1>1, <1>2, <1>3, <1>4, StartCloseStep
<1>5. CASE id \notin Registered
  <2> DEFINE k == [job[t] EXCEPT !.todo = job[t].todo \ {id}]
  <2>1. k \in JobType /\ k.at = "stopping" /\ k.id = job[t].id /\ k.op = job[t].op
    BY <1>1, <1>3, SetTodo
  <2>2. job' = [job EXCEPT ![t] = k]
    BY <1>2, <1>5
  <2> HIDE DEF k
  <2>3. job'[t] = k /\ job[t].op = "stop"
    BY <1>1, <2>2, Labels DEF IInv, JobsOK, StageInv, StageOf
  <2>4. StageOf(t)' /\ LocalOf(t)'
    BY <2>1, <2>3, AtRest, Labels
  <2>5. IdsMove({t})
    BY <2>1, <2>3 DEF IdsMove
  <2>6. LockMoves({t}) /\ createLock' # t
    <3>1. job[t].at \notin LockStages
      BY <1>1, Labels
    <3>2. QED
      BY <1>1, <3>1, PagesAssumption DEF LockMoves, IInv, TypeOK, LockStages
  <2>7. QED
    BY <1>1, <1>2, <1>5, <2>1, <2>2, <2>3, <2>4, <2>5, <2>6, QuietStep DEF Forgets, KeptMoves, IInv, TypeOK
<1>6. QED
  BY <1>4, <1>5

LEMMA BringStopStep ==
    ASSUME IInv, NEW t \in Tasks, BringStop(t) PROVE IInv'
<1>1. /\ job[t].at = "idle" /\ ~Stopping
      /\ UNCHANGED <<context, open, pages, reusable, kept, observers, createLock, known, strays, doomed>>
  BY DEF BringStop, At
<1>2. PICK at \in {"stopping", "untrace"} :
          job' = [job EXCEPT ![t] = [Idle EXCEPT !.op = "stop", !.at = at, !.todo = Registered]]
  BY DEF BringStop
<1> DEFINE k == [Idle EXCEPT !.op = "stop", !.at = at, !.todo = Registered]
<1>3. k \in JobType /\ k.at = at /\ k.id = None /\ k.op = "stop"
  <2>1. at \in Stages /\ Registered \in SUBSET Ids /\ "stop" \in Calls \cup OwnOps
    BY Labels DEF Registered, OwnOps
  <2>2. QED
    BY <2>1, IdleJob DEF JobType
<1> HIDE DEF k
<1>4. job' = [job EXCEPT ![t] = k] /\ job'[t] = k
  BY <1>2 DEF k, IInv, JobsOK
<1>5. StageOf(t)' /\ LocalOf(t)'
  BY <1>3, <1>4, AtRest, Labels
<1>6. IdsMove({t})
  BY <1>3, <1>4 DEF IdsMove
<1>7. LockMoves({t}) /\ createLock' # t
  BY <1>1, SameLock, Labels
<1>8. QED
  BY <1>1, <1>3, <1>4, <1>5, <1>6, <1>7, QuietStep DEF Forgets, KeptMoves, IInv, TypeOK

LEMMA TraceSavedStep ==
    ASSUME IInv, NEW t \in Tasks, TraceSaved(t) PROVE IInv'
<1>1. /\ job[t].at = "untrace"
      /\ job' = [job EXCEPT ![t].at = "stopping", ![t].todo = Registered]
      /\ UNCHANGED <<context, open, pages, reusable, kept, observers, createLock, known, strays, doomed>>
  BY DEF TraceSaved, At
<1> DEFINE k == [job[t] EXCEPT !.at = "stopping", !.todo = Registered]
<1>2. k \in JobType /\ k.at = "stopping" /\ k.id = job[t].id /\ k.op = job[t].op
  <2>1. "stopping" \in Stages /\ Registered \in SUBSET Ids /\ job[t] \in JobType
    BY Labels DEF Registered, IInv, JobsOK
  <2>2. QED
    BY <2>1 DEF JobType
<1>3. job' = [job EXCEPT ![t] = k]
  BY <1>1 DEF IInv, JobsOK, JobType
<1> HIDE DEF k
<1>4. job'[t] = k /\ job[t].op = "stop"
  BY <1>1, <1>3, Labels DEF IInv, JobsOK, StageInv, StageOf
<1>5. StageOf(t)' /\ LocalOf(t)'
  BY <1>2, <1>4, AtRest, Labels
<1>6. IdsMove({t})
  BY <1>2, <1>4 DEF IdsMove
<1>7. LockMoves({t}) /\ createLock' # t
  BY <1>1, SameLock, Labels
<1>8. QED
  BY <1>1, <1>2, <1>3, <1>4, <1>5, <1>6, <1>7, QuietStep DEF Forgets, KeptMoves, IInv, TypeOK

LEMMA BringCallStep ==
    ASSUME IInv, NEW t \in Tasks, NEW id \in Ids, NEW op \in Calls, BringCall(t, id, op)
    PROVE  IInv'
<1>1. /\ job[t].at = "idle" /\ MayUse(id) /\ id \in Registered
      /\ job' = [job EXCEPT ![t] = [Idle EXCEPT !.op = op, !.at = "call", !.id = id,
                                                !.page = pages[id], !.rest = Steps(op)]]
      /\ UNCHANGED <<context, open, pages, reusable, kept, observers, createLock, known, strays, doomed>>
  BY DEF BringCall, At
<1>2. /\ op \notin OwnOps /\ Steps(op) \in Seq(StepNames \cup {"video"}) /\ Steps(op) # << >>
      /\ pages[id] \in Chrome /\ id \in known /\ "call" \in Stages
  BY <1>1, PagesAssumption, Labels DEF MayUse, Registered, IInv, TypeOK
<1> DEFINE k == [Idle EXCEPT !.op = op, !.at = "call", !.id = id, !.page = pages[id],
                             !.rest = Steps(op)]
<1>3. /\ k \in JobType /\ k.at = "call" /\ k.id = id /\ k.page = pages[id] /\ k.op = op
      /\ k.rest = Steps(op)
  BY <1>2, IdleJob DEF JobType
<1> HIDE DEF k
<1>4. job' = [job EXCEPT ![t] = k] /\ job'[t] = k
  BY <1>1 DEF k, IInv, JobsOK
<1>5. op # "stop"
  BY <1>2 DEF OwnOps
<1>6. StageOf(t)'
  BY <1>3, <1>4, <1>5, Labels DEF StageOf
<1>7. LocalOf(t)'
  BY <1>1, <1>2, <1>3, <1>4, Labels DEF LocalOf, EarlyOf, LateOf, CloseOf, DestroyOf, CallOf, At
<1>8. IdsMove({t})
  BY <1>2, <1>3, <1>4 DEF IdsMove
<1>9. job[t].op # "stop"
  BY <1>1, Labels DEF IInv, StageInv, StageOf
<1>10. LockMoves({t}) /\ createLock' # t
  BY <1>1, SameLock, Labels
<1>11. QED
  BY <1>1, <1>3, <1>4, <1>5, <1>6, <1>7, <1>8, <1>9, <1>10, QuietStep DEF Forgets, KeptMoves, IInv, TypeOK

LEMMA AnsweredStep ==
    ASSUME IInv, NEW t \in Tasks, Answered(t) PROVE IInv'
<1> DEFINE j == job[t]
           step == Head(j.rest)
<1>1. /\ j.at = "call" /\ j.page \in open
      /\ kept' = IF step = "session" THEN kept \cup {<<j.id, "session">>} ELSE kept
      /\ IF Len(j.rest) = 1 THEN Done(t) ELSE job' = [job EXCEPT ![t].rest = Tail(@)]
      /\ UNCHANGED <<context, open, pages, reusable, observers, createLock, known, strays, doomed>>
  BY DEF Answered, At, Alive
<1>2. /\ j \in JobType /\ j.id \in Ids /\ j.op # "stop" /\ CallOf(t)
      /\ j.rest \in Seq(StepNames \cup {"video"}) /\ j.rest # << >>
  BY <1>1, JobFields, Labels DEF IInv, StageInv, StageOf, LocalInv, LocalOf, CallOf, At
<1>3. /\ j.page \in Chrome /\ j.page # None
      /\ j.id \in strays \/ pages[j.id] = j.page
  BY <1>1, <1>2, PagesAssumption DEF CallOf, At
<1>4. /\ kept' \subseteq Ids \X Tables /\ KeptMoves({t})
      /\ \A entry \in kept' \ kept : entry[1] \in strays \cup Registered
  <2>1. \A entry \in kept' \ kept : entry = <<j.id, "session">>
    BY <1>1
  <2>2. kept \subseteq Ids \X Tables
    BY DEF IInv, TypeOK
  <2>3. <<j.id, "session">> \in Ids \X Tables
    BY <1>2 DEF Tables
  <2>4. QED
    <3>1. kept' \subseteq Ids \X Tables
      BY <1>1, <2>2, <2>3
    <3>2. KeptMoves({t})
      BY <2>1 DEF KeptMoves
    <3>3. j.id \in strays \cup Registered
      BY <1>2, <1>3 DEF Registered
    <3>4. QED
      BY <2>1, <3>1, <3>2, <3>3
<1>5. LockMoves({t}) /\ createLock' # t
  BY <1>1, SameLock, Labels
<1>6. CASE Len(j.rest) = 1
  BY <1>1, <1>2, <1>4, <1>5, <1>6, DoneStep DEF Forgets, IInv, TypeOK
<1>7. CASE Len(j.rest) # 1
  <2> DEFINE k == [j EXCEPT !.rest = Tail(j.rest)]
  <2>1. Tail(j.rest) \in Seq(StepNames \cup {"video"}) /\ Tail(j.rest) # << >>
    <3> DEFINE r == j.rest
    <3>1. r \in Seq(StepNames \cup {"video"}) /\ r # << >> /\ Len(r) # 1
      BY <1>2, <1>7
    <3> HIDE DEF r
    <3>2. Tail(r) \in Seq(StepNames \cup {"video"}) /\ Len(Tail(r)) = Len(r) - 1 /\ Len(r) \in Nat
      BY <3>1, HeadTailProperties
    <3>3. Len(<< >>) = 0 /\ Len(r) \in Nat \ {0}
      BY <3>1, EmptySeq
    <3>4. Len(Tail(r)) # 0
      BY <3>1, <3>2, <3>3
    <3>5. QED
      BY <3>2, <3>3, <3>4 DEF r
  <2>2. /\ k \in JobType /\ k.at = "call" /\ k.id = j.id /\ k.op = j.op /\ k.page = j.page
        /\ k.rest = Tail(j.rest)
    BY <1>1, <1>2, <2>1, SetRest
  <2>3. job' = [job EXCEPT ![t] = k]
    BY <1>1, <1>7
  <2> HIDE DEF k
  <2>4. job'[t] = k
    BY <2>3 DEF IInv, JobsOK
  <2>5. StageOf(t)'
    BY <1>2, <2>2, <2>4, Labels DEF StageOf
  <2>6. LocalOf(t)'
    BY <1>1, <1>3, <2>1, <2>2, <2>4, Labels DEF LocalOf, EarlyOf, LateOf, CloseOf, DestroyOf, CallOf, At
  <2>7. IdsMove({t})
    BY <2>2, <2>4 DEF IdsMove
  <2>8. QED
    BY <1>1, <1>2, <1>4, <1>5, <2>2, <2>3, <2>5, <2>6, <2>7, QuietStep DEF Forgets, IInv, TypeOK
<1>8. QED
  BY <1>6, <1>7

LEMMA NoteTables ==
    ASSUME NEW op \in Notes
    PROVE  Adds[op] \subseteq Tables /\ (op = "get_console_messages" => Adds[op] = {"messages"})
BY PagesAssumption DEF Adds, Tables

LEMMA NoteStep ==
    ASSUME IInv, NEW t \in Tasks, NEW id \in Ids, NEW op \in Notes, Note(t, id, op)
    PROVE  IInv'
<1>1. /\ job[t].at = "idle" /\ MayUse(id)
      /\ op # "get_console_messages" => id \in Registered
      /\ kept' = (kept \ ({id} \X Drops[op])) \cup ({id} \X Adds[op])
      /\ UNCHANGED <<context, open, pages, reusable, observers, createLock, known, strays, doomed, job>>
  BY DEF Note, At
<1>2. \A entry \in kept' : entry \in kept \/ (entry[1] = id /\ entry[2] \in Adds[op] /\ entry \in Ids \X Tables)
  BY <1>1, NoteTables
<1>3. kept' \subseteq Ids \X Tables
  BY <1>2 DEF IInv, TypeOK
<1>4. KeptMoves({t})
  BY <1>1, <1>2 DEF KeptMoves, MayUse
<1>5. \A entry \in kept' \ kept : entry[2] = "messages" \/ entry[1] \in strays \cup Registered
  BY <1>1, <1>2, NoteTables
<1>6. job[t] \in JobType /\ job' = [job EXCEPT ![t] = job[t]]
  BY <1>1 DEF IInv, JobsOK
<1>7. StageOf(t)'
  BY <1>1, Labels DEF IInv, StageInv, StageOf
<1>8. LocalOf(t)'
  BY <1>1, Labels DEF LocalOf, EarlyOf, LateOf, CloseOf, DestroyOf, CallOf, At
<1>9. IdsMove({t})
  BY <1>1 DEF IdsMove
<1>10. LockMoves({t}) /\ createLock' # t
  BY <1>1, SameLock, Labels
<1>11. QED
  BY <1>1, <1>3, <1>4, <1>5, <1>6, <1>7, <1>8, <1>9, <1>10, QuietStep DEF Forgets, IInv, TypeOK

-----------------------------------------------------------------------------
(* A step of one task that writes the tables: what is left to show is what   *)
(* the context, the pages and the callers make of it.                        *)
LEMMA NewObserverOK ==
    /\ NewObserver \in Observers(Waiter) /\ NewObserver.waiters = {}
    /\ Len(NewObserver.recent) <= RecordLimit /\ Len(NewObserver.captured) <= RecordLimit
BY LimitAssumption DEF NewObserver, Observers

LEMMA TableStep ==
    ASSUME IInv, NEW t \in Tasks, Frame({t}), LockMoves({t}),
           createLock' = t => job'[t].at \in LockStages, StageOf(t)', LocalOf(t)',
           job'[t].op = "stop" => job[t].op = "stop" \/ ~Stopping,
           context' \in {"none", "launching", "up", "closing", "broken"}, open' \subseteq Chrome,
           IsFiniteSet(open'), reusable' \in Seq(Chrome), pages' \in [Ids -> Chrome \cup {None}],
           kept' \subseteq Ids \X Tables, known' \subseteq Ids, strays' \subseteq Ids,
           doomed' \subseteq known',
           observers' = [i \in Ids |-> observers'[i]],
           \A i \in Ids : observers'[i] \in {observers[i], None, NewObserver},
           job[t].at # "waiting", job'[t].at # "waiting",
           \A s \in Tasks : job[s].at = "waiting" =>
               job'[s] = job[s] \/ observers'[job[s].id] = None,
           \A s \in Tasks : /\ job'[s].at = "waiting" /\ job'[s].id \notin strays'
                            /\ job[s].at = "waiting"
                            => observers'[job[s].id] = observers[job[s].id],
           ContextInv', NeverWithoutPage', PagesOwnedOnce', KnownOpen',
           NothingKeptForTheGone'
    PROVE  IInv'
<1>1. Moves({t}) /\ StraysMove({t})
  BY DEF Frame
<1>2. LocalInv'
  BY LocalStep
<1>3. /\ StageInv' /\ createLock' \in Tasks \cup {None}
      /\ createLock' # None => job'[createLock'].at \in LockStages
  BY <1>1, StageStep
<1>4. /\ observers' \in [Ids -> Observers(Waiter) \cup {None}]
      /\ \A id \in Ids : observers'[id] # None =>
             Len(observers'[id].recent) <= RecordLimit /\ Len(observers'[id].captured) <= RecordLimit
  <2>1. \A id \in Ids : observers'[id] \in Observers(Waiter) \cup {None}
    BY NewObserverOK DEF IInv, TypeOK, Waiter
  <2>2. \A id \in Ids : observers'[id] # None =>
            Len(observers'[id].recent) <= RecordLimit /\ Len(observers'[id].captured) <= RecordLimit
    BY NewObserverOK DEF IInv, TypeOK
  <2>3. QED
    BY <2>1, <2>2
<1>5. TypeOK'
  BY <1>3, <1>4 DEF TypeOK, LockStages, Waiter
<1>6. JobsOK'
  BY <1>1, <1>3 DEF JobsOK, Moves
<1>7. WaiterInv'
  <2> SUFFICES ASSUME NEW id \in Ids, observers'[id] # None, NEW w \in observers'[id].waiters
               PROVE  /\ job'[w.task].at = "waiting" /\ job'[w.task].id = id
                      /\ \A v \in observers'[id].waiters : v.task = w.task => v = w
    BY DEF WaiterInv, At
  <2>1. observers'[id] = observers[id]
    BY NewObserverOK
  <2>2. /\ w.task \in Tasks /\ job[w.task].at = "waiting" /\ job[w.task].id = id
        /\ \A v \in observers[id].waiters : v.task = w.task => v = w
    BY <2>1 DEF IInv, TypeOK, Observers, WaiterInv, At
  <2>3. QED
    BY <2>1, <2>2
<1>8. NobodyMissesARecord'
  BY <1>1, WaitersKept
<1>9. QED
  BY <1>2, <1>3, <1>5, <1>6, <1>7, <1>8 DEF IInv

(* What is kept stays kept for a registered id, or for a stray. *)
LEMMA KeptStep ==
    ASSUME IInv, kept' \subseteq kept,
           \A i \in Registered : i \in Registered' \/ i \in strays'
                                 \/ (observers'[i] = None
                                     /\ \A entry \in kept' : entry[1] = i => entry[2] = "messages"),
           strays \subseteq strays' \cup Registered',
           \A i \in Ids : observers'[i] # None => i \in Registered'
    PROVE  NothingKeptForTheGone'
<1>1. NothingKeptForTheGone
  BY DEF IInv
<1>2. \A entry \in kept' : entry[2] # "messages" /\ entry[1] \notin strays' => entry[1] \in Registered'
  BY <1>1 DEF NothingKeptForTheGone
<1>3. QED
  BY <1>2 DEF NothingKeptForTheGone

LEMMA LaunchStep ==
    ASSUME IInv, NEW t \in Tasks, EnsureStarted(t), context' # context PROVE IInv'
<1>1. /\ job[t].at = "start" /\ context = "none" /\ context' = "launching" /\ Goto(t, "launch")
      /\ UNCHANGED <<open, pages, reusable, kept, observers, createLock, known, strays, doomed>>
  BY DEF EnsureStarted, At
<1>2. "launch" \in Stages /\ JobsOK /\ TypeOK
  BY Labels DEF IInv
<1>3. /\ job' = [job EXCEPT ![t] = job'[t]] /\ job'[t] \in JobType
      /\ job'[t].at = "launch" /\ job'[t].op = job[t].op /\ job'[t].id = job[t].id
  <2> DEFINE j == [job[t] EXCEPT !.at = "launch"]
  <2>1. /\ j \in JobType /\ job' = [job EXCEPT ![t] = j] /\ job'[t] = j
        /\ j.at = "launch" /\ j.op = job[t].op /\ j.id = job[t].id
    BY <1>1, <1>2, GotoJob
  <2> HIDE DEF j
  <2>2. QED
    BY <2>1
<1>4. Moves({t}) /\ \A s \in Tasks : s # t => job'[s] = job[s]
  BY <1>2, <1>3, SetJob DEF JobsOK
<1>5. Frame({t})
  BY <1>1, <1>3, <1>4 DEF Frame, OpenMoves, PagesMove, ReusableMoves, StraysMove, ObserversMove,
       KnownMoves, KeptMoves, IdsMove, ContextMoves
<1>6. StageOf(t) /\ LocalOf(t)
  BY DEF IInv, StageInv, LocalInv
<1>7. StageOf(t)'
  BY <1>1, <1>3, <1>6, Labels DEF StageOf
<1>8. LocalOf(t)'
  BY <1>1, <1>3, <1>4, <1>6, Labels DEF LocalOf, EarlyOf, LateOf, CloseOf, DestroyOf, CallOf, At
<1>9. ContextInv'
  <2>1. /\ \A s \in Tasks : job[s].at \notin {"launch", "context"}
        /\ open = {} /\ Registered \subseteq strays
    BY <1>1 DEF IInv, ContextInv, At
  <2>2. QED
    BY <1>1, <1>3, <1>4, <2>1 DEF ContextInv, At, Registered
<1>10. LockMoves({t}) /\ createLock' # t
  BY <1>1, SameLock, Labels
<1>11. NeverWithoutPage' /\ PagesOwnedOnce' /\ NothingKeptForTheGone'
  BY <1>1 DEF IInv, NeverWithoutPage, PagesOwnedOnce, NothingKeptForTheGone, Registered
<1>12. KnownOpen'
  BY <1>1, <1>2, KnownStep DEF Forgets, TypeOK
<1>13. job[t].op # "stop"
  BY <1>1, <1>6, Labels DEF StageOf
<1>14. /\ job[t].at # "waiting" /\ job'[t].at # "waiting"
       /\ \A s \in Tasks : job[s].at = "waiting" => job'[s] = job[s]
       /\ observers' = [i \in Ids |-> observers'[i]]
  BY <1>1, <1>2, <1>3, <1>4 DEF TypeOK
<1>15. QED
  BY <1>1, <1>2, <1>3, <1>5, <1>7, <1>8, <1>9, <1>10, <1>11, <1>12, <1>13, <1>14, TableStep
     DEF TypeOK, JobsOK

(* Goto, for the steps that write more than the job. *)
LEMMA GotoMoves ==
    ASSUME IInv, NEW t \in Tasks, NEW at \in Stages, Goto(t, at)
    PROVE  /\ Moves({t}) /\ \A s \in Tasks : s # t => job'[s] = job[s]
           /\ job'[t] \in JobType /\ job'[t].at = at /\ job'[t].op = job[t].op
           /\ job'[t].id = job[t].id /\ job'[t].page = job[t].page /\ job'[t].todo = job[t].todo
           /\ IdsMove({t})
<1> DEFINE j == [job[t] EXCEPT !.at = at]
<1>1. /\ j \in JobType /\ job' = [job EXCEPT ![t] = j] /\ job'[t] = j
      /\ j.at = at /\ j.op = job[t].op /\ j.id = job[t].id /\ j.page = job[t].page
      /\ j.todo = job[t].todo
  BY GotoJob DEF IInv
<1> HIDE DEF j
<1>2. Moves({t}) /\ \A s \in Tasks : s # t => job'[s] = job[s]
  BY <1>1, SetJob DEF IInv, JobsOK
<1>3. IdsMove({t})
  BY <1>1 DEF IdsMove
<1>4. QED
  BY <1>1, <1>2, <1>3

LEMMA LaunchedStep ==
    ASSUME IInv, NEW t \in Tasks, Launched(t) PROVE IInv'
<1>1. /\ job[t].at = "launch" /\ context' = "up" /\ Goto(t, "lock")
      /\ UNCHANGED <<pages, kept, observers, createLock, known, strays, doomed>>
      /\ "lock" \in Stages /\ JobsOK /\ TypeOK
  BY Labels DEF Launched, At, IInv
<1>2. PICK p \in Chrome : Unused(p) /\ open' = {p} /\ reusable' = <<p>>
  BY DEF Launched
<1>3. /\ Moves({t}) /\ \A s \in Tasks : s # t => job'[s] = job[s]
      /\ job'[t].at = "lock" /\ job'[t].op = job[t].op /\ job'[t].id = job[t].id
      /\ IdsMove({t})
  BY <1>1, GotoMoves
<1>4. /\ context = "launching" /\ open = {} /\ \A s \in Tasks : job[s].at = "launch" => s = t
      /\ \A s \in Tasks : job[s].at # "context"
  BY <1>1 DEF IInv, ContextInv, At
<1>5. Frame({t})
  BY <1>1, <1>2, <1>3, <1>4 DEF Frame, OpenMoves, PagesMove, ReusableMoves, StraysMove, ObserversMove,
       KnownMoves, KeptMoves, ContextMoves
<1>6. StageOf(t) /\ LocalOf(t)
  BY DEF IInv, StageInv, LocalInv
<1>7. StageOf(t)' /\ job[t].op # "stop"
  BY <1>1, <1>3, <1>6, Labels DEF StageOf
<1>8. LocalOf(t)'
  BY <1>1, <1>3, <1>6, Labels DEF LocalOf, EarlyOf, LateOf, CloseOf, DestroyOf, CallOf, At
<1>9. ContextInv'
  BY <1>1, <1>3, <1>4, Labels DEF ContextInv, At
<1>10. LockMoves({t}) /\ createLock' # t
  BY <1>1, SameLock, Labels
<1>11. PagesOwnedOnce'
  BY <1>1, <1>2, OwnedStep
<1>12. NeverWithoutPage' /\ NothingKeptForTheGone'
  BY <1>1, <1>2 DEF IInv, NeverWithoutPage, NothingKeptForTheGone, Registered
<1>13. KnownOpen'
  BY <1>1, <1>4, KnownStep DEF Forgets, TypeOK
<1>14. open' \subseteq Chrome /\ IsFiniteSet(open') /\ reusable' \in Seq(Chrome)
  BY <1>2, FS_Singleton
<1>15. /\ job[t].at # "waiting" /\ job'[t].at # "waiting"
       /\ \A s \in Tasks : job[s].at = "waiting" => job'[s] = job[s]
       /\ observers' = [i \in Ids |-> observers'[i]]
  BY <1>1, <1>3 DEF TypeOK
<1>16. QED
  BY <1>1, <1>3, <1>5, <1>7, <1>8, <1>9, <1>10, <1>11, <1>12, <1>13, <1>14, <1>15, TableStep
     DEF TypeOK, JobsOK

LEMMA LaunchFailsStep ==
    ASSUME IInv, NEW t \in Tasks, LaunchFails(t) PROVE IInv'
<1>1. /\ job[t].at = "launch" /\ context' \in {"none", "broken"} /\ Done(t)
      /\ UNCHANGED <<open, createLock, known, strays, doomed>> /\ JobsOK /\ TypeOK
  BY DEF LaunchFails, At, IInv
<1>2. /\ pages' = [i \in Ids |-> None] /\ observers' = [i \in Ids |-> None]
      /\ kept' = {} /\ reusable' = << >>
  BY DEF LaunchFails, ClearTables
<1>3. /\ Moves({t}) /\ job'[t] = Idle /\ \A s \in Tasks : s # t => job'[s] = job[s]
  BY <1>1, DoneJob DEF JobsOK
<1>4. /\ context = "launching" /\ open = {} /\ \A s \in Tasks : job[s].at = "launch" => s = t
      /\ \A s \in Tasks : job[s].at # "context"
      /\ Registered \subseteq strays
  BY <1>1 DEF IInv, ContextInv, At
<1>5. Frame({t})
  BY <1>1, <1>2, <1>3, <1>4, IdleJob DEF Frame, OpenMoves, PagesMove, ReusableMoves, StraysMove,
     ObserversMove, KnownMoves, KeptMoves, IdsMove, ContextMoves
<1>6. job[t].op # "stop"
  BY <1>1, Labels DEF IInv, StageInv, StageOf
<1>7. StageOf(t)' /\ LocalOf(t)'
  BY <1>3, AtRest
<1>8. ContextInv'
  <2>1. Registered' = {}
    BY <1>2 DEF Registered
  <2>2. QED
    BY <1>1, <1>3, <1>4, <2>1, IdleJob DEF ContextInv, At
<1>9. LockMoves({t}) /\ createLock' # t
  BY <1>1, SameLock, Labels
<1>10. PagesOwnedOnce'
  BY <1>2, OwnedStep
<1>11. NeverWithoutPage' /\ NothingKeptForTheGone'
  BY <1>1, <1>2 DEF NeverWithoutPage, NothingKeptForTheGone
<1>12. KnownOpen'
  BY <1>1, <1>4, KnownStep DEF IInv, KnownOpen, Forgets, TypeOK
<1>13. /\ job[t].at # "waiting" /\ job'[t].at # "waiting" /\ job'[t].op # "stop"
       /\ \A s \in Tasks : job[s].at = "waiting" => job'[s] = job[s]
       /\ observers' = [i \in Ids |-> observers'[i]]
       /\ \A i \in Ids : observers'[i] = None
  BY <1>1, <1>2, <1>3, IdleJob
<1>14. \A s \in Tasks : /\ job'[s].at = "waiting" /\ job'[s].id \notin strays'
                        /\ job[s].at = "waiting"
                        => FALSE
  <2> SUFFICES ASSUME NEW s \in Tasks, job[s].at = "waiting", job[s].id \notin strays
               PROVE  FALSE
    BY <1>1, <1>13
  <2>1. observers[job[s].id] # None /\ job[s].id \in Ids
    BY Labels DEF IInv, NobodyMissesARecord, At, StageInv, StageOf
  <2>2. QED
    BY <1>4, <2>1 DEF IInv, NothingKeptForTheGone
<1>15. /\ reusable' \in Seq(Chrome) /\ pages' \in [Ids -> Chrome \cup {None}]
       /\ kept' \subseteq Ids \X Tables
  BY <1>2
<1>16. QED
  BY <1>1, <1>5, <1>6, <1>7, <1>8, <1>9, <1>10, <1>11, <1>12, <1>13, <1>14, <1>15, TableStep
     DEF TypeOK, JobsOK

(* An id gets its page: one that waited to be used, or a new one. *)
LEMMA RegisterStep ==
    ASSUME IInv, NEW t \in Tasks, NEW page \in Chrome, NEW reuse \in Seq(Chrome),
           Register(t, page, reuse), job[t].at \in {"lock", "newpage"},
           UNCHANGED <<context, kept, known, doomed>>, open' = open \cup {page},
           LockMoves({t}), createLock' = t, context \in {"up", "closing"},
           Unused(page) \/ (page \in open /\ \E n \in 1..Len(reusable) : page = reusable[n]),
           ReusableMoves,
           \A n \in 1..Len(reuse) : reuse[n] \notin {page} \cup {pages[i] : i \in Ids}
                                                    \cup {reuse[m] : m \in 1..(n - 1)}
    PROVE  IInv'
<1> DEFINE id == job[t].id
<1>1. /\ pages' = [pages EXCEPT ![id] = page] /\ reusable' = reuse
      /\ strays' = IF context = "closing" THEN strays \cup {id} ELSE strays \ {id}
      /\ observers' = [observers EXCEPT ![id] = NewObserver]
      /\ job' = [job EXCEPT ![t].page = page, ![t].at = "navigate"]
  BY DEF Register
<1>2. /\ TypeOK /\ JobsOK /\ page # None /\ job[t] \in JobType /\ StageOf(t) /\ EarlyOf(t)
      /\ id \in Ids
  BY Labels, PagesAssumption DEF IInv, JobsOK, StageInv, StageOf, LocalInv, LocalOf
<1> DEFINE j == [job[t] EXCEPT !.page = page, !.at = "navigate"]
<1>3. /\ j \in JobType /\ j.at = "navigate" /\ j.page = page /\ j.id = id /\ j.op = job[t].op
  BY <1>2, Labels DEF JobType
<1>4. job' = [job EXCEPT ![t] = j]
  BY <1>1, <1>2 DEF JobsOK, JobType
<1> HIDE DEF j
<1>5. Moves({t}) /\ job'[t] = j /\ \A s \in Tasks : s # t => job'[s] = job[s]
  BY <1>2, <1>3, <1>4, SetJob DEF JobsOK
<1>6. /\ pages[id] = None /\ observers[id] = None /\ id \notin known
      /\ \A s \in Tasks : job[s].id = id => s = t
  BY <1>2, Labels DEF EarlyOf
<1>7. /\ \A i \in Ids : pages'[i] = IF i = id THEN page ELSE pages[i]
      /\ \A i \in Ids : observers'[i] = IF i = id THEN NewObserver ELSE observers[i]
      /\ \A i \in Ids : pages[i] # page
  <2>1. \A n \in 1..Len(reusable) : \A i \in Ids : pages[i] # reusable[n]
    BY DEF IInv, PagesOwnedOnce
  <2>2. QED
    BY <1>1, <1>2, <2>1, UnusedPage DEF TypeOK
<1>8. Frame({t})
  <2>1. OpenMoves /\ KnownMoves({t}) /\ KeptMoves({t}) /\ ContextMoves({t})
    BY DEF OpenMoves, KnownMoves, KeptMoves, ContextMoves
  <2>2. PagesMove({t}) /\ StraysMove({t}) /\ ObserversMove({t})
    BY <1>1, <1>6, <1>7, Labels DEF PagesMove, StraysMove, ObserversMove
  <2>3. IdsMove({t})
    BY <1>3, <1>5 DEF IdsMove
  <2>4. QED
    BY <1>5, <2>1, <2>2, <2>3 DEF Frame
<1>9. StageOf(t)'
  BY <1>2, <1>3, <1>5, Labels DEF StageOf
<1>10. LocalOf(t)'
  BY <1>3, <1>5, <1>7, <1>2, Labels DEF LocalOf, EarlyOf, LateOf, CloseOf, DestroyOf, CallOf, At
<1>11. Registered' = Registered \cup {id}
  BY <1>2, <1>7 DEF Registered
<1>12. ContextInv'
  <2>1. context # "up" => Registered' \subseteq strays'
    BY <1>1, <1>11 DEF IInv, ContextInv
  <2>2. job[t].at \notin {"launch", "context"} /\ job'[t].at \notin {"launch", "context"}
    BY <1>3, <1>5
  <2>3. QED
    BY <1>5, <2>1, <2>2, ContextStep
<1>13. NeverWithoutPage'
  BY DEF NeverWithoutPage
<1>14. PagesOwnedOnce'
  <2>1. \A i, k \in Registered' : pages'[i] = pages'[k] => i = k
    BY <1>7, <1>11 DEF IInv, PagesOwnedOnce, Registered
  <2>2. \A n \in 1..Len(reusable') : reusable'[n] \notin {pages'[i] : i \in Ids}
                                                \cup {reusable'[m] : m \in 1..(n - 1)}
    BY <1>1, <1>7
  <2>3. QED
    BY <2>1, <2>2 DEF PagesOwnedOnce
<1>15. NothingKeptForTheGone'
  <2>1. \A i \in Ids : observers'[i] # None => i \in Registered'
    BY <1>7, <1>11 DEF IInv, NothingKeptForTheGone
  <2>2. strays \subseteq strays' \cup Registered'
    BY <1>1, <1>11
  <2>3. QED
    BY <1>11, <2>1, <2>2, KeptStep
<1>16. KnownOpen'
  BY <1>1, <1>2, <1>6, <1>7, KnownStep DEF Forgets, TypeOK
<1>17. /\ open' \subseteq Chrome /\ IsFiniteSet(open') /\ reusable' \in Seq(Chrome)
       /\ pages' \in [Ids -> Chrome \cup {None}] /\ strays' \subseteq Ids
  BY <1>1, <1>2, FS_AddElement DEF TypeOK, JobsOK
<1>18. /\ job[t].at # "waiting" /\ job'[t].at # "waiting" /\ job'[t].at \in LockStages
       /\ \A s \in Tasks : job[s].at = "waiting" => job'[s] = job[s]
       /\ \A s \in Tasks : job[s].at = "waiting" => job[s].id # id
       /\ \A s \in Tasks : job[s].at = "waiting" => job[s].id \in Ids
       /\ observers' = [i \in Ids |-> observers'[i]]
  <2>1. observers' = [i \in Ids |-> observers'[i]]
    BY <1>1, <1>2 DEF TypeOK
  <2>2. \A s \in Tasks : job[s].at = "waiting" => s # t /\ job[s].id \in Ids
    BY Labels DEF IInv, StageInv, StageOf
  <2>3. QED
    BY <1>3, <1>5, <1>6, <2>1, <2>2, Labels
<1>19. job'[t].op = job[t].op
  BY <1>3, <1>5
<1>20. job'[t].op = "stop" => job[t].op = "stop" \/ ~Stopping
  BY <1>19
<1>21. \A s \in Tasks : job[s].at = "waiting" => observers'[job[s].id] = observers[job[s].id]
  BY <1>7, <1>18
<1>22. \A i \in Ids : observers'[i] \in {observers[i], None, NewObserver}
  BY <1>7
<1>23. TypeOK /\ strays' \subseteq Ids /\ kept' \subseteq Ids \X Tables /\ known' \subseteq Ids
       /\ doomed' \subseteq known' /\ context' \in {"none", "launching", "up", "closing", "broken"}
  BY <1>2, <1>17 DEF TypeOK
<1>24. QED
  BY <1>8, <1>9, <1>10, <1>12, <1>13, <1>14, <1>15, <1>16, <1>17, <1>18, <1>20, <1>21, <1>22,
     <1>23, TableStep

LEMMA NewPageStep ==
    ASSUME IInv, NEW t \in Tasks, NewPage(t) PROVE IInv'
<1>1. job[t].at = "newpage" /\ UNCHANGED <<context, kept, createLock, known, doomed>>
  BY DEF NewPage, At
<1>2. PICK p \in NewPages : open' = open \cup {p} /\ Register(t, p, reusable)
  BY DEF NewPage
<1>3. context \in {"up", "closing"} /\ p \in Chrome /\ Unused(p)
  BY DEF NewPages, Standing, IInv, ContextInv
<1>4. createLock = t /\ LockMoves({t}) /\ reusable' = reusable
  BY <1>1, <1>2, Labels DEF IInv, StageInv, StageOf, LockMoves, Register
<1>5. ReusableMoves
  BY <1>4 DEF ReusableMoves
<1>6. \A n \in 1..Len(reusable) : reusable[n] \notin {p} \cup {pages[i] : i \in Ids}
                                                   \cup {reusable[m] : m \in 1..(n - 1)}
  BY <1>3, UnusedPage DEF IInv, PagesOwnedOnce
<1>7. QED
  BY <1>1, <1>2, <1>3, <1>4, <1>5, <1>6, RegisterStep DEF IInv, TypeOK

(* The list of the pages that wait, from the one after the n-th. *)
LEMMA RestOf ==
    ASSUME TypeOK, NEW n \in Nat, n < Len(reusable)
    PROVE  LET rest == SubSeq(reusable, n + 2, Len(reusable))
           IN  /\ rest \in Seq(Chrome) /\ Len(rest) = Len(reusable) - n - 1
               /\ \A m \in 1..Len(rest) : rest[m] = reusable[n + 1 + m]
BY DEF TypeOK

LEMMA AcquirePageStep ==
    ASSUME IInv, NEW t \in Tasks, AcquirePage(t) PROVE IInv'
<1>1. /\ job[t].at = "lock" /\ createLock = None /\ createLock' = t
      /\ UNCHANGED <<context, open, kept, known, doomed>>
      /\ TypeOK /\ JobsOK /\ "newpage" \in Stages
  BY Labels DEF AcquirePage, At, IInv
<1>2. PICK n \in 0..Len(reusable) :
           IF n < Len(reusable)
           THEN /\ Alive(reusable[n + 1])
                /\ Register(t, reusable[n + 1], SubSeq(reusable, n + 2, Len(reusable)))
           ELSE reusable' = << >> /\ Goto(t, "newpage") /\ UNCHANGED <<pages, observers, strays, doomed>>
  BY DEF AcquirePage
<1>3. LockMoves({t})
  BY <1>1 DEF LockMoves
<1>4. Len(reusable) \in Nat /\ n \in Nat
  BY <1>1 DEF TypeOK
<1>5. CASE n < Len(reusable)
  <2> DEFINE p == reusable[n + 1]
             rest == SubSeq(reusable, n + 2, Len(reusable))
  <2>1. p \in open /\ Register(t, p, rest) /\ n + 1 \in 1..Len(reusable)
    BY <1>2, <1>4, <1>5 DEF Alive
  <2>2. /\ rest \in Seq(Chrome) /\ Len(rest) = Len(reusable) - n - 1
        /\ \A m \in 1..Len(rest) : rest[m] = reusable[n + 1 + m]
    BY <1>1, <1>4, <1>5, RestOf
  <2>3. reusable' = rest
    BY <2>1 DEF Register
  <2> HIDE DEF rest
  <2>4. \A m \in 1..Len(rest) : n + 1 + m \in 1..Len(reusable)
    BY <1>4, <2>2
  <2>5. ReusableMoves
    BY <2>2, <2>3, <2>4 DEF ReusableMoves
  <2>6. \A m \in 1..Len(rest) : rest[m] \notin {p} \cup {pages[i] : i \in Ids}
                                               \cup {rest[k] : k \in 1..(m - 1)}
    <3> TAKE m \in 1..Len(rest)
    <3>1. reusable[n + 1 + m] \notin {pages[i] : i \in Ids}
                                      \cup {reusable[k] : k \in 1..(n + 1 + m - 1)}
      BY <2>4 DEF IInv, PagesOwnedOnce
    <3>2. \A k \in 1..(m - 1) : rest[k] = reusable[n + 1 + k] /\ n + 1 + k \in 1..(n + 1 + m - 1)
      BY <1>4, <2>2, <2>4
    <3>3. n + 1 \in 1..(n + 1 + m - 1)
      BY <1>4
    <3>4. QED
      BY <2>2, <3>1, <3>2, <3>3
  <2>7. context \in {"up", "closing"} /\ p \in Chrome
    BY <1>1, <2>1 DEF IInv, ContextInv, TypeOK
  <2>8. \E k \in 1..Len(reusable) : p = reusable[k]
    BY <2>1
  <2>9. open' = open \cup {p}
    BY <1>1, <2>1
  <2> HIDE DEF p
  <2>10. QED
    BY <1>1, <1>3, <2>1, <2>2, <2>5, <2>6, <2>7, <2>8, <2>9, RegisterStep
<1>6. CASE n = Len(reusable)
  <2>1. reusable' = << >> /\ Goto(t, "newpage") /\ UNCHANGED <<pages, observers, strays, doomed>>
    BY <1>2, <1>4, <1>6
  <2>2. /\ Moves({t}) /\ \A s \in Tasks : s # t => job'[s] = job[s]
        /\ job'[t].at = "newpage" /\ job'[t].op = job[t].op /\ job'[t].id = job[t].id
        /\ IdsMove({t})
    BY <1>1, <2>1, GotoMoves
  <2>3. Frame({t})
    BY <1>1, <2>1, <2>2 DEF Frame, OpenMoves, PagesMove, ReusableMoves, StraysMove, ObserversMove,
         KnownMoves, KeptMoves, ContextMoves, IInv, NeverWithoutPage
  <2>4. StageOf(t) /\ LocalOf(t)
    BY DEF IInv, StageInv, LocalInv
  <2>5. StageOf(t)' /\ job[t].op # "stop" /\ job'[t].at \in LockStages
    BY <1>1, <2>2, <2>4, Labels DEF StageOf
  <2>6. LocalOf(t)'
    BY <1>1, <2>1, <2>2, <2>4, Labels DEF LocalOf, EarlyOf, LateOf, CloseOf, DestroyOf, CallOf, At
  <2>7. ContextInv'
    <3>1. /\ context \in {"none", "launching", "broken"} => open' = {}
          /\ context # "up" => Registered' \subseteq strays'
      BY <1>1, <2>1 DEF IInv, ContextInv, Registered
    <3>2. QED
      BY <1>1, <2>2, <3>1, ContextStep
  <2>8. PagesOwnedOnce'
    BY <2>1, OwnedStep
  <2>9. NeverWithoutPage' /\ NothingKeptForTheGone'
    BY <1>1, <2>1 DEF IInv, NeverWithoutPage, NothingKeptForTheGone, Registered
  <2>10. KnownOpen'
    BY <1>1, <2>1, KnownStep DEF Forgets, TypeOK
  <2>11. /\ job[t].at # "waiting" /\ job'[t].at # "waiting"
         /\ \A s \in Tasks : job[s].at = "waiting" => job'[s] = job[s]
         /\ observers' = [i \in Ids |-> observers'[i]] /\ reusable' \in Seq(Chrome)
    BY <1>1, <2>1, <2>2 DEF TypeOK
  <2>12. QED
    BY <1>1, <1>3, <2>1, <2>2, <2>3, <2>5, <2>6, <2>7, <2>8, <2>9, <2>10, <2>11, TableStep
       DEF TypeOK, JobsOK
<1>7. QED
  BY <1>4, <1>5, <1>6

LEMMA OpenedStep ==
    ASSUME IInv, NEW t \in Tasks, Opened(t) PROVE IInv'
<1> DEFINE id == job[t].id
<1>1. /\ job[t].at = "title" /\ job[t].page \in open
      /\ known' = known \cup {id} /\ createLock' = None /\ Done(t)
      /\ UNCHANGED <<context, open, pages, reusable, kept, observers, strays, doomed>>
      /\ TypeOK /\ JobsOK
  BY DEF Opened, At, Alive, IInv
<1>2. /\ Moves({t}) /\ job'[t] = Idle /\ \A s \in Tasks : s # t => job'[s] = job[s]
  BY <1>1, DoneJob DEF JobsOK
<1>3. id \in Ids /\ job[t].op # "stop" /\ LateOf(t)
  BY <1>1, Labels DEF IInv, StageInv, StageOf, LocalInv, LocalOf
<1>4. Frame({t})
  BY <1>1, <1>2, <1>3, IdleJob DEF Frame, OpenMoves, PagesMove, ReusableMoves, StraysMove,
     ObserversMove, KnownMoves, KeptMoves, IdsMove, ContextMoves, IInv, NeverWithoutPage
<1>5. StageOf(t)' /\ LocalOf(t)'
  BY <1>2, AtRest
<1>6. LockMoves({t}) /\ createLock' # t
  BY <1>1, Unlock, Labels
<1>7. ContextInv'
  <2>1. /\ context \in {"none", "launching", "broken"} => open' = {}
        /\ context # "up" => Registered' \subseteq strays'
    BY <1>1 DEF IInv, ContextInv, Registered
  <2>2. QED
    BY <1>1, <1>2, <2>1, IdleJob, ContextStep
<1>8. PagesOwnedOnce' /\ NeverWithoutPage' /\ NothingKeptForTheGone'
  BY <1>1 DEF IInv, NeverWithoutPage, NothingKeptForTheGone, Registered, PagesOwnedOnce
<1>9. KnownOpen'
  <2>1. \A i \in known \ (doomed \cup strays) : i \in Registered /\ pages[i] \in open
    BY DEF IInv, KnownOpen, Alive
  <2>2. id \notin strays => id \in Registered /\ pages[id] \in open
    BY <1>1, <1>3, Labels, PagesAssumption DEF LateOf, Registered
  <2>3. QED
    BY <1>1, <2>1, <2>2 DEF KnownOpen, Registered, Alive
<1>10. /\ job[t].at # "waiting" /\ job'[t].at # "waiting" /\ job'[t].op # "stop"
       /\ \A s \in Tasks : job[s].at = "waiting" => job'[s] = job[s]
       /\ observers' = [i \in Ids |-> observers'[i]]
  BY <1>1, <1>2, IdleJob DEF TypeOK
<1>11. QED
  BY <1>1, <1>3, <1>4, <1>5, <1>6, <1>7, <1>8, <1>9, <1>10, TableStep DEF TypeOK, JobsOK

-----------------------------------------------------------------------------
(* Closing a page. *)
LEMMA RemoveHandlersJob ==
    ASSUME IInv, NEW t \in Tasks, RemoveHandlers(t), job[t].at \in {"closelock", "replace"}
    PROVE  /\ Moves({t})
           /\ job'[t].at = "destroy" /\ job'[t].op = job[t].op /\ job'[t].id = job[t].id
           /\ job'[t].page = job[t].page
           /\ \A s \in Tasks : s # t =>
                  job'[s] = IF job[s].at = "waiting" /\ job[s].id = job[t].id THEN Idle ELSE job[s]
<1>1. job[t] \in JobType /\ "destroy" \in Stages
  BY Labels DEF IInv, JobsOK
<1> DEFINE k == [job[t] EXCEPT !.at = "destroy"]
<1>2. /\ k \in JobType /\ k.at = "destroy" /\ k.op = job[t].op /\ k.id = job[t].id
      /\ k.page = job[t].page
  BY <1>1, SetAt
<1>3. job' = [s \in Tasks |-> IF s = t THEN k
                              ELSE IF job[s].at = "waiting" /\ job[s].id = job[t].id THEN Idle
                              ELSE job[s]]
  BY DEF RemoveHandlers, At
<1> HIDE DEF k
<1>4. \A s \in Tasks : job'[s] \in JobType
  BY <1>2, <1>3, IdleJob DEF IInv, JobsOK
<1>5. job' \in [Tasks -> JobType]
  BY <1>3, <1>4
<1>6. QED
  BY <1>2, <1>3, <1>5 DEF Moves, At

LEMMA RemoveHandlersStep ==
    ASSUME IInv, NEW t \in Tasks, RemoveHandlers(t), job[t].at \in {"closelock", "replace"},
           UNCHANGED <<context, pages, known, strays, doomed>>,
           open \subseteq open', open' \subseteq Chrome, IsFiniteSet(open'), OpenMoves,
           LockMoves({t}), createLock' = t, reusable' \in Seq(Chrome),
           \/ reusable' = reusable
           \/ \E p \in Chrome : Unused(p) /\ reusable' = Append(reusable, p),
           context \in {"none", "launching", "broken"} => open' = {},
           context = "up" => \E p \in open' : p # job[t].page
    PROVE  IInv'
<1> DEFINE id == job[t].id
           page == job[t].page
<1>1. /\ kept' = kept \ ({id} \X {"console", "messages", "dialog", "video", "pending"})
      /\ observers' = [observers EXCEPT ![id] = None]
  BY DEF RemoveHandlers
<1>2. /\ Moves({t})
      /\ job'[t].at = "destroy" /\ job'[t].op = job[t].op /\ job'[t].id = id
      /\ job'[t].page = page
      /\ \A s \in Tasks : s # t =>
             job'[s] = IF job[s].at = "waiting" /\ job[s].id = id THEN Idle ELSE job[s]
  BY RemoveHandlersJob
<1>3. /\ TypeOK /\ JobsOK /\ StageOf(t) /\ CloseOf(t) /\ id \in Ids
  BY Labels DEF IInv, StageInv, StageOf, LocalInv, LocalOf
<1>4. \A i \in Ids : observers'[i] = IF i = id THEN None ELSE observers[i]
  BY <1>1, <1>3 DEF TypeOK
<1>5. ReusableMoves
  <2>1. CASE reusable' = reusable
    BY <2>1 DEF ReusableMoves
  <2>2. ASSUME NEW p \in Chrome, Unused(p), reusable' = Append(reusable, p) PROVE ReusableMoves
    <3> SUFFICES ASSUME NEW n \in 1..Len(reusable')
                 PROVE  Unused(reusable'[n]) \/ \E m \in 1..Len(reusable) : reusable'[n] = reusable[m]
      BY DEF ReusableMoves
    <3>1. /\ Len(reusable') = Len(reusable) + 1 /\ Len(reusable) \in Nat
          /\ reusable'[Len(reusable) + 1] = p
          /\ \A m \in 1..Len(reusable) : reusable'[m] = reusable[m]
      BY <1>3, <2>2 DEF TypeOK
    <3>2. CASE n = Len(reusable) + 1
      BY <2>2, <3>1, <3>2
    <3>3. CASE n \in 1..Len(reusable)
      BY <3>1, <3>3
    <3>4. QED
      BY <3>1, <3>2, <3>3
  <2>3. QED
    BY <2>1, <2>2
<1>6. Frame({t})
  <2>1. KnownMoves({t}) /\ KeptMoves({t}) /\ PagesMove({t}) /\ StraysMove({t})
    BY <1>1 DEF KnownMoves, KeptMoves, PagesMove, StraysMove
  <2>2. ObserversMove({t})
    BY <1>4 DEF ObserversMove
  <2>3. IdsMove({t}) /\ ContextMoves({t})
    BY <1>2 DEF IdsMove, ContextMoves
  <2>4. QED
    BY <1>2, <1>5, <2>1, <2>2, <2>3 DEF Frame
<1>7. StageOf(t)' /\ job'[t].at \in LockStages
  BY <1>2, <1>3, Labels DEF StageOf
<1>8. LocalOf(t)'
  <2>1. page \in Chrome /\ pages[id] \in {page, None} /\ (\A i \in Ids : pages[i] = page => i = id)
        /\ \A n \in 1..Len(reusable) : reusable[n] # page
    BY <1>3, Labels DEF CloseOf
  <2>2. ~Unused(page)
    BY UnusedPage, <1>3
  <2>3. \A n \in 1..Len(reusable)' : reusable'[n] # page
    BY <1>5, <2>1, <2>2 DEF ReusableMoves
  <2>4. CloseOf(t)'
    BY <1>2, <2>1, <2>3 DEF CloseOf
  <2>5. \A entry \in kept' : entry[1] = id => entry[2] = "session"
    <3> SUFFICES ASSUME NEW entry \in kept', entry[1] = id PROVE entry[2] = "session"
      OBVIOUS
    <3>1. entry \in Ids \X Tables /\ entry \notin {id} \X {"console", "messages", "dialog", "video", "pending"}
      BY <1>1, <1>3 DEF TypeOK
    <3>2. QED
      BY <3>1 DEF Tables
  <2>6. DestroyOf(t)'
    BY <1>2, <1>3, <1>4, <2>5 DEF DestroyOf
  <2>7. QED
    BY <1>2, <2>4, <2>6, Labels DEF LocalOf, EarlyOf, LateOf, CallOf, At
<1>9. ContextInv'
  <2>1. context # "up" => Registered' \subseteq strays'
    BY DEF IInv, ContextInv, Registered
  <2>2. QED
    BY <1>2, <2>1, ContextStep
<1>10. PagesOwnedOnce'
  BY OwnedStep
<1>11. NeverWithoutPage'
  BY DEF NeverWithoutPage
<1>12. NothingKeptForTheGone'
  <2>1. Registered' = Registered
    BY DEF Registered
  <2>2. \A i \in Ids : observers'[i] # None => i \in Registered'
    BY <1>4, <2>1 DEF IInv, NothingKeptForTheGone
  <2>3. QED
    BY <1>1, <2>1, <2>2, KeptStep
<1>13. KnownOpen'
  BY <1>3, KnownStep DEF Forgets, TypeOK
<1>14. /\ job[t].at # "waiting" /\ job'[t].at # "waiting"
       /\ \A s \in Tasks : job[s].at = "waiting" => s # t /\ job[s].id \in Ids
  BY <1>2, Labels DEF IInv, StageInv, StageOf
<1>15. \A s \in Tasks : job[s].at = "waiting" => job'[s] = job[s] \/ observers'[job[s].id] = None
  BY <1>2, <1>4, <1>14
<1>16. \A s \in Tasks : /\ job'[s].at = "waiting" /\ job[s].at = "waiting"
                        => observers'[job[s].id] = observers[job[s].id]
  BY <1>2, <1>4, <1>14, IdleJob
<1>17. /\ observers' = [i \in Ids |-> observers'[i]]
       /\ \A i \in Ids : observers'[i] \in {observers[i], None, NewObserver}
  BY <1>1, <1>3, <1>4 DEF TypeOK
<1>18. /\ context' \in {"none", "launching", "up", "closing", "broken"} /\ pages' \in [Ids -> Chrome \cup {None}]
       /\ kept' \subseteq Ids \X Tables /\ known' \subseteq Ids /\ strays' \subseteq Ids
       /\ doomed' \subseteq known'
  BY <1>1, <1>3 DEF TypeOK, JobsOK
<1>19. job'[t].op = "stop" => job[t].op = "stop" \/ ~Stopping
  BY <1>2
<1>20. QED
  BY <1>6, <1>7, <1>8, <1>9, <1>10, <1>11, <1>12, <1>13, <1>14, <1>15, <1>16, <1>17, <1>18,
     <1>19, TableStep

(* A page that is not the last one leaves another behind. *)
LEMMA AnotherPage ==
    ASSUME IInv, NEW page, ~IsLast(page), context = "up"
    PROVE  \E p \in open : p # page
<1>1. IsFiniteSet(open) /\ open # {}
  BY DEF IInv, JobsOK, NeverWithoutPage
<1>2. CASE page \notin open
  BY <1>1, <1>2
<1>3. CASE page \in open
  <2>1. Cardinality(open) \in Nat /\ ~(Cardinality(open) <= 1)
    BY <1>1, <1>3, FS_CardinalityType DEF IsLast, Alive, Standing
  <2>2. Cardinality({page}) = 1
    BY FS_Singleton
  <2>3. open # {page}
    BY <2>1, <2>2
  <2>4. QED
    BY <1>3, <2>3
<1>4. QED
  BY <1>2, <1>3

LEMMA GetCloseLockStep ==
    ASSUME IInv, NEW t \in Tasks, GetCloseLock(t) PROVE IInv'
<1>1. /\ job[t].at = "closelock" /\ createLock = None /\ createLock' = t
      /\ UNCHANGED <<context, open, pages, reusable, known, strays, doomed>>
      /\ TypeOK /\ JobsOK /\ LockMoves({t})
  BY DEF GetCloseLock, At, IInv, LockMoves
<1>2. CASE IsLast(job[t].page)
  <2>1. Goto(t, "replace") /\ UNCHANGED <<kept, observers>> /\ "replace" \in Stages
    BY <1>2, Labels DEF GetCloseLock
  <2> DEFINE j == [job[t] EXCEPT !.at = "replace"]
  <2>2. /\ j \in JobType /\ job' = [job EXCEPT ![t] = j] /\ job'[t] = j
        /\ j.at = "replace" /\ j.op = job[t].op /\ j.id = job[t].id /\ j.page = job[t].page
    BY <1>1, <2>1, GotoJob
  <2> HIDE DEF j
  <2>3. StageOf(t) /\ LocalOf(t)
    BY DEF IInv, StageInv, LocalInv
  <2>4. StageOf(t)' /\ j.at \in LockStages
    BY <1>1, <2>2, <2>3, Labels DEF StageOf
  <2>5. LocalOf(t)'
    BY <1>1, <2>1, <2>2, <2>3, Labels DEF LocalOf, EarlyOf, LateOf, CloseOf, DestroyOf, CallOf, At
  <2>6. IdsMove({t}) /\ KeptMoves({t}) /\ kept' \subseteq Ids \X Tables
    BY <1>1, <2>1, <2>2 DEF IdsMove, KeptMoves, TypeOK
  <2>7. QED
    BY <1>1, <2>1, <2>2, <2>4, <2>5, <2>6, QuietStep DEF Forgets, TypeOK
<1>3. CASE ~IsLast(job[t].page)
  <2>1. RemoveHandlers(t)
    BY <1>3 DEF GetCloseLock
  <2>2. OpenMoves /\ reusable' = reusable
    BY <1>1 DEF OpenMoves
  <2>3. context \in {"none", "launching", "broken"} => open' = {}
    BY <1>1 DEF IInv, ContextInv
  <2>4. context = "up" => \E p \in open' : p # job[t].page
    BY <1>1, <1>3, AnotherPage
  <2>5. QED
    BY <1>1, <2>1, <2>2, <2>3, <2>4, RemoveHandlersStep DEF TypeOK, JobsOK
<1>4. QED
  BY <1>2, <1>3

LEMMA ReplacedStep ==
    ASSUME IInv, NEW t \in Tasks, Replaced(t) PROVE IInv'
<1>1. /\ job[t].at = "replace" /\ UNCHANGED <<context, pages, createLock, known, strays, doomed>>
      /\ RemoveHandlers(t) /\ TypeOK /\ JobsOK
  BY DEF Replaced, At, IInv
<1>2. PICK p \in NewPages : open' = open \cup {p} /\ reusable' = Append(reusable, p)
  BY DEF Replaced
<1>3. p \in Chrome /\ Unused(p) /\ context \in {"up", "closing"}
  BY DEF NewPages, Standing, IInv, ContextInv
<1>4. createLock' = t /\ LockMoves({t})
  BY <1>1, Labels DEF IInv, StageInv, StageOf, LockMoves
<1>5. open' \subseteq Chrome /\ IsFiniteSet(open') /\ OpenMoves /\ reusable' \in Seq(Chrome)
  <2>1. IsFiniteSet(open')
    BY <1>1, <1>2, FS_AddElement DEF JobsOK
  <2>2. reusable \in Seq(Chrome) /\ open \subseteq Chrome
    BY <1>1 DEF TypeOK
  <2>3. open' \subseteq Chrome /\ OpenMoves /\ reusable' \in Seq(Chrome)
    BY <1>2, <1>3, <2>2 DEF OpenMoves
  <2>4. QED
    BY <2>1, <2>3
<1>6. \E q \in open' : q # job[t].page
  BY <1>1, <1>2, <1>3, UnusedPage
<1>7. open \subseteq open'
  BY <1>2
<1>8. QED
  BY <1>1, <1>2, <1>3, <1>4, <1>5, <1>6, <1>7, RemoveHandlersStep

(* The page is gone, and the call ends, goes on to the video or raises.      *)
LEMMA PageGoneStep ==
    ASSUME IInv, NEW t \in Tasks, job[t].at = "destroy",
           NEW j \in JobType, job' = [job EXCEPT ![t] = j], j.id \in {job[t].id, None},
           j.at \notin {"launch", "context", "waiting"}, j.op = "stop" => job[t].op = "stop",
           StageOf(t)', LocalOf(t)', createLock' = None, open' = open \ {job[t].page},
           \/ UNCHANGED <<pages, kept>>
           \/ /\ pages' = [pages EXCEPT ![job[t].id] = None]
              /\ kept' = kept \ {<<job[t].id, "session">>},
           Forgets, job[t].id \notin known' \ doomed',
           UNCHANGED <<context, reusable, observers, strays>>
    PROVE  IInv'
<1> DEFINE id == job[t].id
           page == job[t].page
<1>1. TypeOK /\ JobsOK
  BY DEF IInv
<1>2. Moves({t}) /\ job'[t] = j /\ \A s \in Tasks : s # t => job'[s] = job[s]
  BY <1>1, SetJob DEF JobsOK
<1>3. id \in Ids /\ CloseOf(t) /\ DestroyOf(t) /\ createLock = t
  BY Labels DEF IInv, StageInv, StageOf, LocalInv, LocalOf
<1>4. /\ page \in Chrome /\ page # None /\ pages[id] \in {page, None}
      /\ \A i \in Ids : pages[i] = page => i = id
      /\ observers[id] = None
      /\ \A entry \in kept : entry[1] = id => entry[2] = "session"
      /\ context = "up" => \E p \in open : p # page
  BY <1>3, Labels, PagesAssumption DEF CloseOf, DestroyOf, At
<1>5. \A i \in Ids : pages'[i] = pages[i] \/ (i = id /\ pages'[i] = None)
  BY <1>1, <1>3 DEF TypeOK
<1>6. Frame({t})
  <2>1. OpenMoves /\ ReusableMoves /\ StraysMove({t}) /\ ObserversMove({t})
    BY DEF OpenMoves, ReusableMoves, StraysMove, ObserversMove
  <2>2. PagesMove({t})
    BY <1>1, <1>4, <1>5, PagesAssumption DEF PagesMove, TypeOK
  <2>3. KnownMoves({t}) /\ KeptMoves({t}) /\ ContextMoves({t})
    BY <1>3 DEF KnownMoves, Forgets, KeptMoves, ContextMoves
  <2>4. IdsMove({t})
    BY <1>2 DEF IdsMove
  <2>5. QED
    BY <1>2, <2>1, <2>2, <2>3, <2>4 DEF Frame
<1>7. LockMoves({t}) /\ createLock' # t
  BY Unlock, Labels
<1>8. Registered \ {id} \subseteq Registered' /\ Registered' \subseteq Registered
  BY <1>5 DEF Registered
<1>9. ContextInv'
  <2>1. /\ context \in {"none", "launching", "broken"} => open' = {}
        /\ context # "up" => Registered' \subseteq strays'
    BY <1>8 DEF IInv, ContextInv
  <2>2. QED
    BY <1>2, <2>1, ContextStep
<1>10. PagesOwnedOnce'
  BY <1>5, OwnedStep
<1>11. NeverWithoutPage'
  BY <1>4 DEF NeverWithoutPage
<1>12. NothingKeptForTheGone'
  <2>1. \A i \in Ids : observers'[i] # None => i \in Registered'
    BY <1>4, <1>8 DEF IInv, NothingKeptForTheGone
  <2>2. CASE UNCHANGED <<pages, kept>>
    BY <2>1, <2>2, KeptStep DEF Registered
  <2>3. CASE kept' = kept \ {<<id, "session">>}
    <3>1. \A entry \in kept' : entry[1] # id
      <4> SUFFICES ASSUME NEW entry \in kept, entry[1] = id PROVE entry = <<id, "session">>
        BY <2>3
      <4>1. entry[2] = "session" /\ entry \in Ids \X Tables
        BY <1>1, <1>4 DEF TypeOK
      <4>2. QED
        BY <4>1
    <3>2. QED
      BY <1>4, <1>8, <2>1, <2>3, <3>1, KeptStep
  <2>4. QED
    BY <2>2, <2>3
<1>13. KnownOpen'
  <2>1. \A i \in known' \ doomed' : i \in Registered /\ pages[i] \in open =>
            pages'[i] = pages[i] /\ pages[i] \in open'
    BY <1>4, <1>5 DEF Registered
  <2>2. QED
    BY <2>1, KnownStep
<1>14. /\ open' \subseteq Chrome /\ IsFiniteSet(open') /\ pages' \in [Ids -> Chrome \cup {None}]
       /\ kept' \subseteq Ids \X Tables /\ known' \subseteq Ids /\ doomed' \subseteq known'
       /\ observers' = [i \in Ids |-> observers'[i]]
  BY <1>1, FS_RemoveElement DEF TypeOK, JobsOK, Forgets
<1>15. /\ job'[t].at # "waiting" /\ \A s \in Tasks : job[s].at = "waiting" => job'[s] = job[s]
       /\ job'[t].op = "stop" => job[t].op = "stop"
  BY <1>2
<1>16. QED
  BY <1>1, <1>6, <1>7, <1>9, <1>10, <1>11, <1>12, <1>13, <1>14, <1>15, TableStep
     DEF TypeOK, JobsOK

(* What a close that has destroyed the page makes of its id. *)
LEMMA IdGone ==
    ASSUME TypeOK, NEW t, CloseReturns(t) \/ Doom(t)
    PROVE  Forgets /\ job[t].id \notin known' \ doomed'
BY DEF TypeOK, CloseReturns, Doom, Forgets

(* A call that has ended: at rest, or at the next page of stop. *)
LEMMA CloseEnds ==
    ASSUME IInv, NEW t \in Tasks, AfterClose(t)
    PROVE  \E j \in JobType :
               /\ job' = [job EXCEPT ![t] = j] /\ j.id = None /\ j.at \in {"idle", "stopping"}
               /\ j.op = "stop" => job[t].op = "stop"
               /\ StageOf(t)' /\ LocalOf(t)'
<1>1. PICK j \in JobType :
         /\ job' = [job EXCEPT ![t] = j] /\ job'[t] = j /\ j.id = None
         /\ \/ job[t].op = "stop" /\ j.op = "stop" /\ j.at = "stopping"
            \/ job[t].op # "stop" /\ j = Idle
  BY AfterCloseJob DEF IInv
<1>2. StageOf(t)' /\ LocalOf(t)'
  BY <1>1, AtRest, Labels
<1>3. QED
  BY <1>1, <1>2, IdleJob

LEMMA DestroyedStep ==
    ASSUME IInv, NEW t \in Tasks, Destroyed(t) PROVE IInv'
<1>1. /\ job[t].at = "destroy" /\ open' = open \ {job[t].page}
      /\ pages' = [pages EXCEPT ![job[t].id] = None]
      /\ kept' = kept \ {<<job[t].id, "session">>} /\ createLock' = None
      /\ UNCHANGED <<context, reusable, observers, strays>> /\ TypeOK /\ JobsOK
      /\ IF job[t].rest = << >> THEN CloseReturns(t) ELSE Doom(t) /\ Goto(t, "video")
  BY DEF Destroyed, At, IInv
<1>2. Forgets /\ job[t].id \notin known' \ doomed'
  BY <1>1, IdGone
<1>3. CASE job[t].rest = << >>
  <2>1. AfterClose(t)
    BY <1>1, <1>3 DEF CloseReturns
  <2>2. QED
    BY <1>1, <1>2, <2>1, CloseEnds, PageGoneStep
<1>4. CASE job[t].rest # << >>
  <2> DEFINE j == [job[t] EXCEPT !.at = "video"]
  <2>1. /\ j \in JobType /\ job' = [job EXCEPT ![t] = j] /\ job'[t] = j
        /\ j.at = "video" /\ j.op = job[t].op /\ j.id = job[t].id
    <3>1. Goto(t, "video") /\ "video" \in Stages
      BY <1>1, <1>4, Labels
    <3>2. QED
      BY <1>1, <3>1, GotoJob
  <2> HIDE DEF j
  <2>2. StageOf(t)'
    BY <1>1, <2>1, Labels DEF StageOf, IInv, StageInv
  <2>3. LocalOf(t)'
    BY <2>1, Labels DEF LocalOf, EarlyOf, LateOf, CloseOf, DestroyOf, CallOf, At
  <2>4. QED
    BY <1>1, <1>2, <2>1, <2>2, <2>3, PageGoneStep
<1>5. QED
  BY <1>3, <1>4

LEMMA VideoStep ==
    ASSUME IInv, NEW t \in Tasks, VideoSaved(t) \/ VideoFails(t) PROVE IInv'
<1>1. /\ job[t].at = "video" /\ (CloseReturns(t) \/ Doom(t)) /\ AfterClose(t)
      /\ UNCHANGED <<context, open, pages, reusable, kept, observers, createLock, strays>>
      /\ TypeOK
  BY DEF VideoSaved, VideoFails, At, CloseReturns, IInv
<1>2. AfterClose(t) /\ Forgets
  BY <1>1, IdGone DEF CloseReturns
<1>3. PICK j \in JobType :
          /\ job' = [job EXCEPT ![t] = j] /\ j.id = None /\ j.at \in {"idle", "stopping"}
          /\ j.op = "stop" => job[t].op = "stop"
          /\ StageOf(t)' /\ LocalOf(t)'
  BY <1>2, CloseEnds
<1>4. IdsMove({t}) /\ KeptMoves({t}) /\ kept' \subseteq Ids \X Tables
  BY <1>1, <1>3 DEF IdsMove, KeptMoves, TypeOK, IInv, JobsOK
<1>5. LockMoves({t}) /\ createLock' # t
  BY <1>1, SameLock, Labels
<1>6. QED
  BY <1>1, <1>2, <1>3, <1>4, <1>5, QuietStep

LEMMA CloseFailsStep ==
    ASSUME IInv, NEW t \in Tasks, CloseFails(t) PROVE IInv'
<1>1. /\ LeavesLock(t) /\ AfterClose(t) /\ TypeOK
      /\ UNCHANGED <<context, pages, reusable, kept, observers, strays>>
  BY DEF CloseFails, IInv
<1>2. PICK j \in JobType :
          /\ job' = [job EXCEPT ![t] = j] /\ j.id = None /\ j.at \in {"idle", "stopping"}
          /\ j.op = "stop" => job[t].op = "stop"
          /\ StageOf(t)' /\ LocalOf(t)'
  BY <1>1, CloseEnds
<1>3. CASE job[t].at \in CloseStages /\ UNCHANGED <<open, known, doomed>>
  <2>1. IdsMove({t}) /\ KeptMoves({t}) /\ kept' \subseteq Ids \X Tables /\ Forgets
    BY <1>1, <1>2, <1>3 DEF IdsMove, KeptMoves, Forgets, TypeOK, IInv, JobsOK
  <2>2. LockMoves({t}) /\ createLock' # t
    BY <1>1, <1>2, PagesAssumption DEF LeavesLock, LockMoves
  <2>3. QED
    BY <1>1, <1>2, <1>3, <2>1, <2>2, QuietStep, Labels
<1>4. CASE job[t].at = "destroy" /\ open' = open \ {job[t].page} /\ Doom(t)
  <2>1. createLock' = None
    BY <1>1, <1>4, Labels DEF LeavesLock, IInv, StageInv, StageOf
  <2>2. QED
    BY <1>1, <1>2, <1>4, <2>1, IdGone, PageGoneStep
<1>5. QED
  BY <1>3, <1>4, Labels DEF CloseFails, CloseFailsAt, At

-----------------------------------------------------------------------------
(* Stopping. *)
LEMMA StopContextStep ==
    ASSUME IInv, NEW t \in Tasks, StopContext(t) PROVE IInv'
<1>1. /\ job[t].at = "stopping" /\ strays' = strays \cup Registered
      /\ UNCHANGED <<open, createLock, known, doomed>> /\ TypeOK /\ JobsOK
      /\ pages' = [i \in Ids |-> None] /\ observers' = [i \in Ids |-> None]
      /\ kept' = {} /\ reusable' = << >>
  BY DEF StopContext, ClearTables, At, IInv
<1>2. \E at \in {"context", "server"} :
          /\ Goto(t, at)
          /\ \/ Standing /\ context' = "closing" /\ at = "context"
             \/ ~Standing /\ context' = context /\ at = "server"
  BY DEF StopContext
<1>3. PICK at \in {"context", "server"} :
          /\ Goto(t, at)
          /\ \/ Standing /\ context' = "closing" /\ at = "context"
             \/ ~Standing /\ context' = context /\ at = "server"
  BY <1>2
<1>4. at \in Stages /\ at \in StopStages
  BY Labels
<1>5. /\ Moves({t}) /\ \A s \in Tasks : s # t => job'[s] = job[s]
      /\ job'[t].at = at /\ job'[t].op = job[t].op /\ IdsMove({t})
  BY <1>3, <1>4, GotoMoves
<1>6. job[t].op = "stop"
  BY <1>1, Labels DEF IInv, StageInv, StageOf
<1>7. Frame({t})
  <2>1. PagesMove({t})
    <3> SUFFICES ASSUME NEW i \in Ids, pages[i] \in open'
                 PROVE  context' = "closing" /\ i \in strays'
      BY <1>1 DEF PagesMove
    <3>1. pages[i] \in open /\ i \in Registered
      BY <1>1, PagesAssumption DEF Registered, TypeOK
    <3>2. context \in {"up", "closing"}
      BY <1>1, <3>1 DEF IInv, ContextInv, TypeOK
    <3>3. QED
      BY <1>1, <1>3, <3>1, <3>2 DEF Standing
  <2>2. OpenMoves /\ ReusableMoves /\ StraysMove({t}) /\ ObserversMove({t})
        /\ KnownMoves({t}) /\ KeptMoves({t})
    BY <1>1 DEF OpenMoves, ReusableMoves, StraysMove, ObserversMove, KnownMoves, KeptMoves
  <2>3. ContextMoves({t})
    BY <1>1, <1>3 DEF ContextMoves, Standing
  <2>4. QED
    BY <1>5, <2>1, <2>2, <2>3 DEF Frame
<1>8. StageOf(t)' /\ LocalOf(t)'
  BY <1>4, <1>5, <1>6, AtRest
<1>9. LockMoves({t}) /\ createLock' # t
  <2>1. job[t].at \notin LockStages
    BY <1>1, Labels
  <2>2. QED
    BY <1>1, <2>1, <1>4, SameLock, Labels DEF IInv, TypeOK
<1>10. ContextInv'
  <2>1. Registered' = {}
    BY <1>1 DEF Registered
  <2>2. CASE Standing
    <3>1. \A s \in Tasks : job[s].at \notin {"launch", "context"}
      BY <1>1, <1>6, <2>2, Labels DEF IInv, ContextInv, StageInv, StageOf, Standing, At
    <3>2. QED
      BY <1>3, <1>5, <2>1, <2>2, <3>1 DEF ContextInv, At
  <2>3. CASE ~Standing
    <3>1. context' = context /\ at = "server" /\ context' # "up"
      BY <1>3, <2>3 DEF Standing
    <3>2. context \in {"none", "launching", "broken"} => open' = {}
      BY <1>1 DEF IInv, ContextInv
    <3>3. QED
      BY <1>1, <1>5, <2>1, <3>1, <3>2, ContextStep
  <2>4. QED
    BY <2>2, <2>3
<1>11. PagesOwnedOnce'
  BY <1>1, OwnedStep
<1>12. NeverWithoutPage' /\ NothingKeptForTheGone'
  BY <1>1, <1>3 DEF NeverWithoutPage, NothingKeptForTheGone, Standing
<1>13. KnownOpen'
  BY <1>1 DEF IInv, KnownOpen
<1>14. \A s \in Tasks : job[s].at = "waiting" => job[s].id \in strays'
  <2> SUFFICES ASSUME NEW s \in Tasks, job[s].at = "waiting", job[s].id \notin strays
               PROVE  job[s].id \in Registered
    BY <1>1
  <2>1. observers[job[s].id] # None /\ job[s].id \in Ids
    BY Labels DEF IInv, NobodyMissesARecord, At, StageInv, StageOf
  <2>2. QED
    BY <2>1 DEF IInv, NothingKeptForTheGone
<1>15. /\ job[t].at # "waiting" /\ job'[t].at # "waiting"
       /\ \A s \in Tasks : job[s].at = "waiting" => job'[s] = job[s]
  BY <1>1, <1>5
<1>16. \A s \in Tasks : /\ job'[s].at = "waiting" /\ job'[s].id \notin strays'
                        /\ job[s].at = "waiting"
                        => FALSE
  BY <1>14, <1>15
<1>17. /\ reusable' \in Seq(Chrome) /\ pages' \in [Ids -> Chrome \cup {None}]
       /\ kept' \subseteq Ids \X Tables /\ strays' \subseteq Ids
       /\ observers' = [i \in Ids |-> observers'[i]]
       /\ \A i \in Ids : observers'[i] = None
       /\ context' \in {"none", "launching", "up", "closing", "broken"}
  BY <1>1, <1>3 DEF Registered, TypeOK, JobsOK
<1>18. QED
  BY <1>1, <1>6, <1>7, <1>8, <1>9, <1>10, <1>11, <1>12, <1>13, <1>15, <1>16, <1>17, TableStep
     DEF TypeOK, JobsOK

LEMMA ContextClosedStep ==
    ASSUME IInv, NEW t \in Tasks, ContextClosed(t) PROVE IInv'
<1>1. /\ job[t].at = "context" /\ context' = "none" /\ open' = {} /\ Goto(t, "server")
      /\ UNCHANGED <<pages, reusable, kept, observers, createLock, known, strays, doomed>>
      /\ TypeOK /\ JobsOK /\ "server" \in Stages /\ "server" \in StopStages
  BY Labels DEF ContextClosed, At, IInv
<1>2. /\ Moves({t}) /\ \A s \in Tasks : s # t => job'[s] = job[s]
      /\ job'[t].at = "server" /\ job'[t].op = job[t].op /\ IdsMove({t})
  BY <1>1, GotoMoves
<1>3. job[t].op = "stop" /\ context = "closing" /\ Registered \subseteq strays
  BY <1>1, Labels DEF IInv, StageInv, StageOf, ContextInv, At
<1>4. Frame({t})
  BY <1>1, <1>2, <1>3 DEF Frame, OpenMoves, PagesMove, ReusableMoves, StraysMove, ObserversMove,
     KnownMoves, KeptMoves, ContextMoves
<1>5. StageOf(t)' /\ LocalOf(t)'
  BY <1>1, <1>2, <1>3, AtRest
<1>6. LockMoves({t}) /\ createLock' # t
  BY <1>1, SameLock, Labels
<1>7. ContextInv'
  <2>1. \A s \in Tasks : s # t => job[s].at \notin {"launch", "context"}
    BY <1>1, <1>3, Labels DEF IInv, StageInv, StageOf, ContextInv, At
  <2>2. QED
    BY <1>1, <1>2, <1>3, <2>1 DEF ContextInv, At, Registered
<1>8. PagesOwnedOnce' /\ NeverWithoutPage' /\ NothingKeptForTheGone'
  BY <1>1 DEF IInv, NeverWithoutPage, NothingKeptForTheGone, Registered, PagesOwnedOnce
<1>9. KnownOpen'
  BY <1>1, <1>3 DEF IInv, KnownOpen
<1>10. /\ job[t].at # "waiting" /\ job'[t].at # "waiting"
       /\ \A s \in Tasks : job[s].at = "waiting" => job'[s] = job[s]
       /\ observers' = [i \in Ids |-> observers'[i]] /\ IsFiniteSet(open')
  BY <1>1, <1>2, FS_EmptySet DEF TypeOK
<1>11. QED
  BY <1>1, <1>3, <1>4, <1>5, <1>6, <1>7, <1>8, <1>9, <1>10, TableStep DEF TypeOK, JobsOK

LEMMA ContextCloseFailsStep ==
    ASSUME IInv, NEW t \in Tasks, ContextCloseFails(t) PROVE IInv'
<1>1. /\ job[t].at = "context" /\ context' = "broken" /\ open' = {} /\ Done(t)
      /\ known' = {} /\ doomed' = {}
      /\ UNCHANGED <<pages, reusable, kept, observers, createLock, strays>>
      /\ TypeOK /\ JobsOK
  BY DEF ContextCloseFails, At, IInv
<1>2. /\ Moves({t}) /\ job'[t] = Idle /\ \A s \in Tasks : s # t => job'[s] = job[s]
  BY <1>1, DoneJob DEF JobsOK
<1>3. job[t].op = "stop" /\ context = "closing" /\ Registered \subseteq strays
  BY <1>1, Labels DEF IInv, StageInv, StageOf, ContextInv, At
<1>4. Frame({t})
  BY <1>1, <1>2, <1>3, IdleJob DEF Frame, OpenMoves, PagesMove, ReusableMoves, StraysMove,
     ObserversMove, KnownMoves, KeptMoves, IdsMove, ContextMoves
<1>5. StageOf(t)' /\ LocalOf(t)'
  BY <1>2, AtRest
<1>6. LockMoves({t}) /\ createLock' # t
  BY <1>1, SameLock, Labels
<1>7. ContextInv'
  <2>1. \A s \in Tasks : s # t => job[s].at \notin {"launch", "context"}
    BY <1>1, <1>3, Labels DEF IInv, StageInv, StageOf, ContextInv, At
  <2>2. QED
    BY <1>1, <1>2, <1>3, <2>1, IdleJob DEF ContextInv, At, Registered
<1>8. PagesOwnedOnce' /\ NeverWithoutPage' /\ NothingKeptForTheGone'
  BY <1>1 DEF IInv, NeverWithoutPage, NothingKeptForTheGone, Registered, PagesOwnedOnce
<1>9. KnownOpen'
  BY <1>1 DEF KnownOpen
<1>10. /\ job[t].at # "waiting" /\ job'[t].at # "waiting" /\ job'[t].op # "stop"
       /\ \A s \in Tasks : job[s].at = "waiting" => job'[s] = job[s]
       /\ observers' = [i \in Ids |-> observers'[i]] /\ IsFiniteSet(open')
  BY <1>1, <1>2, IdleJob, FS_EmptySet DEF TypeOK
<1>11. QED
  BY <1>1, <1>4, <1>5, <1>6, <1>7, <1>8, <1>9, <1>10, TableStep DEF TypeOK, JobsOK

LEMMA StoppedStep ==
    ASSUME IInv, NEW t \in Tasks, Stopped(t) PROVE IInv'
<1>1. /\ job[t].at = "server" /\ known' = {} /\ doomed' = {} /\ Done(t)
      /\ UNCHANGED <<context, open, pages, reusable, kept, observers, createLock, strays>>
      /\ TypeOK /\ JobsOK
  BY DEF Stopped, At, IInv
<1>2. /\ Moves({t}) /\ job'[t] = Idle /\ \A s \in Tasks : s # t => job'[s] = job[s]
  BY <1>1, DoneJob DEF JobsOK
<1>3. Frame({t})
  BY <1>1, <1>2, IdleJob DEF Frame, OpenMoves, PagesMove, ReusableMoves, StraysMove,
     ObserversMove, KnownMoves, KeptMoves, IdsMove, ContextMoves, IInv, NeverWithoutPage
<1>4. StageOf(t)' /\ LocalOf(t)'
  BY <1>2, AtRest
<1>5. LockMoves({t}) /\ createLock' # t
  BY <1>1, SameLock, Labels
<1>6. ContextInv'
  <2>1. /\ context \in {"none", "launching", "broken"} => open' = {}
        /\ context # "up" => Registered' \subseteq strays'
    BY <1>1 DEF IInv, ContextInv, Registered
  <2>2. QED
    BY <1>1, <1>2, <2>1, IdleJob, ContextStep
<1>7. PagesOwnedOnce' /\ NeverWithoutPage' /\ NothingKeptForTheGone'
  BY <1>1 DEF IInv, NeverWithoutPage, NothingKeptForTheGone, Registered, PagesOwnedOnce
<1>8. KnownOpen'
  BY <1>1 DEF KnownOpen
<1>9. /\ job[t].at # "waiting" /\ job'[t].at # "waiting" /\ job'[t].op # "stop"
      /\ \A s \in Tasks : job[s].at = "waiting" => job'[s] = job[s]
      /\ observers' = [i \in Ids |-> observers'[i]]
  BY <1>1, <1>2, IdleJob DEF TypeOK
<1>10. QED
  BY <1>1, <1>3, <1>4, <1>5, <1>6, <1>7, <1>8, <1>9, TableStep DEF TypeOK, JobsOK

-----------------------------------------------------------------------------
(* Network records. *)
InBounds(o) == Len(o.recent) <= RecordLimit /\ Len(o.captured) <= RecordLimit

LEMMA BoundedAppend ==
    ASSUME NEW queue \in Seq(Types), Len(queue) <= RecordLimit, NEW x \in Types
    PROVE  LET q == Bounded(Append(queue, x))
           IN  q \in Seq(Types) /\ Len(q) <= RecordLimit /\ Range(q) \subseteq Range(queue) \cup {x}
<1> DEFINE longer == Append(queue, x)
<1>1. /\ longer \in Seq(Types) /\ Len(longer) = Len(queue) + 1 /\ Len(queue) \in Nat
      /\ \A n \in 1..Len(longer) : longer[n] = x \/ (n \in 1..Len(queue) /\ longer[n] = queue[n])
  OBVIOUS
<1>2. Range(longer) \subseteq Range(queue) \cup {x}
  <2>1. DOMAIN longer = 1..Len(longer) /\ DOMAIN queue = 1..Len(queue)
    BY <1>1
  <2>2. QED
    BY <1>1, <2>1 DEF Range
<1> HIDE DEF longer
<1>3. longer # << >>
  <2>1. Len(<< >>) = 0
    OBVIOUS
  <2>2. Len(longer) # 0
    BY <1>1
  <2>3. QED
    BY <2>1, <2>2
<1>4. /\ Tail(longer) \in Seq(Types) /\ Len(Tail(longer)) = Len(longer) - 1
      /\ \A n \in 1..Len(Tail(longer)) : Tail(longer)[n] = longer[n + 1]
  BY <1>1, <1>3, HeadTailProperties
<1>5. Range(Tail(longer)) \subseteq Range(longer)
  <2>1. DOMAIN longer = 1..Len(longer) /\ DOMAIN Tail(longer) = 1..Len(Tail(longer))
    BY <1>1, <1>4
  <2>2. \A n \in 1..Len(Tail(longer)) : n + 1 \in 1..Len(longer)
    BY <1>1, <1>4
  <2>3. QED
    BY <1>4, <2>1, <2>2 DEF Range
<1>6. RecordLimit \in Nat
  BY LimitAssumption
<1>7. Bounded(longer) \in Seq(Types) /\ Len(Bounded(longer)) <= RecordLimit
      /\ Range(Bounded(longer)) \subseteq Range(longer)
  BY <1>1, <1>4, <1>5, <1>6 DEF Bounded
<1>8. QED
  BY <1>2, <1>7 DEF longer

(* What the operators on an observer leave of it. *)
LEMMA ObserverSet ==
    ASSUME NEW o \in Observers(Waiter), InBounds(o)
    PROVE  /\ \A w \in SUBSET Waiter : LET k == [o EXCEPT !.waiters = w] IN
                  /\ k \in Observers(Waiter) /\ InBounds(k)
                  /\ k.recent = o.recent /\ k.waiters = w
           /\ \A f \in SUBSET Types : LET k == [o EXCEPT !.finalizing = f] IN
                  /\ k \in Observers(Waiter) /\ InBounds(k)
                  /\ k.recent = o.recent /\ k.waiters = o.waiters /\ k.captured = o.captured
                  /\ k.capturing = o.capturing
BY DEF Observers, InBounds

LEMMA AddRecordOK ==
    ASSUME NEW o \in Observers(Waiter), InBounds(o), NEW type \in Types
    PROVE  LET k == AddRecord(o, type) IN
               /\ k \in Observers(Waiter) /\ InBounds(k)
               /\ Range(k.recent) \subseteq Range(o.recent) \cup {type}
               /\ k.waiters = {w \in o.waiters : ~Matches(w.filter, type)}
<1> DEFINE recent == Bounded(Append(o.recent, type))
           captured == IF o.capturing THEN Bounded(Append(o.captured, type)) ELSE o.captured
           waiters == {w \in o.waiters : ~Matches(w.filter, type)}
           k == [o EXCEPT !.recent = recent, !.captured = captured, !.waiters = waiters]
<1>1. /\ o.recent \in Seq(Types) /\ o.captured \in Seq(Types) /\ o.waiters \subseteq Waiter
      /\ Len(o.recent) <= RecordLimit /\ Len(o.captured) <= RecordLimit
  BY DEF Observers, InBounds
<1>2. /\ recent \in Seq(Types) /\ Len(recent) <= RecordLimit
      /\ Range(recent) \subseteq Range(o.recent) \cup {type}
  BY <1>1, BoundedAppend
<1>3. captured \in Seq(Types) /\ Len(captured) <= RecordLimit
  BY <1>1, BoundedAppend
<1>4. waiters \in SUBSET Waiter
  BY <1>1
<1>5. AddRecord(o, type) = k
  BY DEF AddRecord
<1> HIDE DEF recent, captured, waiters
<1>6. /\ k \in Observers(Waiter) /\ k.recent = recent /\ k.captured = captured
      /\ k.waiters = waiters
  BY <1>2, <1>3, <1>4 DEF Observers
<1>7. QED
  BY <1>2, <1>3, <1>5, <1>6 DEF waiters, InBounds

(* A step that touches one observer, and puts tasks to wait or takes them    *)
(* away.                                                                     *)
LEMMA ObserverStep ==
    ASSUME IInv, NEW S \in SUBSET Tasks, \A s, t \in S : s = t, Moves(S),
           UNCHANGED <<context, open, pages, reusable, kept, createLock, known, strays, doomed>>,
           \A t \in S : /\ {job[t].at, job'[t].at} \subseteq {"idle", "waiting"}
                        /\ StageOf(t)',
           IdsMove(S), NEW id \in Ids, NEW o, observers' = [observers EXCEPT ![id] = o],
           observers[id] # None => o \in Observers(Waiter) /\ InBounds(o),
           observers[id] = None => o = None,
           WaiterInv', NobodyMissesARecord'
    PROVE  IInv'
<1>1. TypeOK /\ JobsOK
  BY DEF IInv
<1>2. \A i \in Ids : observers'[i] = IF i = id THEN o ELSE observers[i]
  BY <1>1 DEF TypeOK
<1>3. None \notin Observers(Waiter)
  BY PagesAssumption DEF Waiter
<1>4. \A i \in Ids : observers'[i] # None <=> observers[i] # None
  BY <1>2, <1>3
<1>5. Frame(S)
  BY <1>4 DEF Frame, OpenMoves, PagesMove, ReusableMoves, StraysMove, ObserversMove, KnownMoves,
     KeptMoves, ContextMoves, IInv, NeverWithoutPage
<1>6. LocalInv'
  <2>1. \A t \in S : LocalOf(t)'
    BY Labels DEF LocalOf, EarlyOf, LateOf, CloseOf, DestroyOf, CallOf, At
  <2>2. QED
    BY <1>5, <2>1, LocalStep
<1>7. /\ StageInv' /\ createLock' \in Tasks \cup {None}
      /\ createLock' # None => job'[createLock'].at \in LockStages
  <2>1. \A t \in S : job'[t].op # "stop" /\ job[t].op # "stop"
    BY Labels DEF StageOf, IInv, StageInv
  <2>2. createLock' \notin S
    BY <1>1, PagesAssumption DEF TypeOK
  <2>3. LockMoves(S)
    BY DEF LockMoves
  <2>4. QED
    BY <2>1, <2>2, <2>3, StageStep
<1>8. ContextInv'
  <2>1. /\ context \in {"none", "launching", "broken"} => open' = {}
        /\ context # "up" => Registered' \subseteq strays'
    BY DEF IInv, ContextInv, Registered
  <2>2. QED
    BY <2>1, ContextStep
<1>9. TypeOK'
  <2>1. observers' \in [Ids -> Observers(Waiter) \cup {None}]
    BY <1>1, <1>2 DEF TypeOK, Waiter
  <2>2. \A i \in Ids : observers'[i] # None =>
            Len(observers'[i].recent) <= RecordLimit /\ Len(observers'[i].captured) <= RecordLimit
    BY <1>1, <1>2 DEF TypeOK, InBounds
  <2>3. QED
    BY <1>1, <1>7, <2>1, <2>2 DEF TypeOK, Waiter, LockStages
<1>10. JobsOK'
  BY <1>1, <1>7 DEF JobsOK, Moves
<1>11. KnownOpen'
  BY <1>1, KnownStep DEF Forgets, TypeOK
<1>12. PagesOwnedOnce' /\ NeverWithoutPage'
  BY DEF IInv, PagesOwnedOnce, NeverWithoutPage, Registered
<1>13. NothingKeptForTheGone'
  BY <1>4 DEF IInv, NothingKeptForTheGone, Registered
<1>14. QED
  BY <1>6, <1>7, <1>8, <1>9, <1>10, <1>11, <1>12, <1>13 DEF IInv

(* An observer that is there, its waiters and those who wait at it. *)
LEMMA ObserverAt ==
    ASSUME IInv, NEW id \in Ids, observers[id] # None
    PROVE  /\ observers[id] \in Observers(Waiter) /\ InBounds(observers[id])
           /\ observers[id].waiters \subseteq Waiter
           /\ observers[id].finalizing \subseteq Types
           /\ \A w \in observers[id].waiters :
                  /\ w.task \in Tasks /\ job[w.task].at = "waiting" /\ job[w.task].id = id
                  /\ \A v \in observers[id].waiters : v.task = w.task => v = w
BY DEF IInv, TypeOK, Waiter, Observers, InBounds, WaiterInv, At

LEMMA RequestFinishedStep ==
    ASSUME IInv, NEW id \in Ids, NEW type \in Types, RequestFinished(id, type) PROVE IInv'
<1> DEFINE o == Spawn(observers[id], type)
<1>1. /\ observers[id] # None /\ observers' = [observers EXCEPT ![id] = o]
      /\ UNCHANGED <<context, open, pages, reusable, kept, createLock, known, strays, doomed, job>>
  BY DEF RequestFinished
<1>2. observers[id] \in Observers(Waiter) /\ InBounds(observers[id])
      /\ observers[id].finalizing \cup {type} \subseteq Types
  BY <1>1, ObserverAt
<1>3. /\ o \in Observers(Waiter) /\ InBounds(o)
      /\ o.recent = observers[id].recent /\ o.waiters = observers[id].waiters
  BY <1>2, ObserverSet DEF Spawn
<1> HIDE DEF o
<1>4. None \notin Observers(Waiter)
  BY PagesAssumption DEF Waiter
<1>5. \A i \in Ids : observers'[i] = IF i = id THEN o ELSE observers[i]
  BY <1>1 DEF IInv, TypeOK
<1>6. WaiterInv'
  BY <1>1, <1>3, <1>5 DEF IInv, WaiterInv, At
<1>7. NobodyMissesARecord'
  <2> SUFFICES ASSUME NEW s \in Tasks, job[s].at = "waiting", job[s].id \notin strays
               PROVE  /\ observers'[job[s].id] # None
                      /\ \E w \in observers'[job[s].id].waiters :
                             w.task = s /\ ~Found(observers'[job[s].id], w.filter)
    BY <1>1 DEF NobodyMissesARecord, At
  <2>1. /\ observers[job[s].id] # None /\ job[s].id \in Ids
        /\ \E w \in observers[job[s].id].waiters :
               w.task = s /\ ~Found(observers[job[s].id], w.filter)
    BY Labels DEF IInv, NobodyMissesARecord, At, StageInv, StageOf
  <2>2. QED
    BY <1>3, <1>4, <1>5, <2>1 DEF Found
<1>8. Moves({}) /\ IdsMove({})
  BY <1>1 DEF Moves, IdsMove, IInv, JobsOK
<1>9. QED
  BY <1>1, <1>3, <1>6, <1>7, <1>8, ObserverStep

LEMMA BringWaitStep ==
    ASSUME IInv, NEW t \in Tasks, NEW id \in Ids, NEW filter \in WaitFilters,
           BringWait(t, id, filter)
    PROVE  IInv'
<1> DEFINE old == observers[id]
           o == AddWaiter(old, t, filter)
           w0 == [task |-> t, filter |-> filter]
<1>1. /\ job[t].at = "idle" /\ id \in known /\ id \in Registered /\ old # None
      /\ ~Found(old, filter) /\ observers' = [observers EXCEPT ![id] = o]
      /\ job' = [job EXCEPT ![t] = [Idle EXCEPT !.op = "wait_for_network_record",
                                                !.at = "waiting", !.id = id, !.page = pages[id]]]
      /\ UNCHANGED <<context, open, pages, reusable, kept, createLock, known, strays, doomed>>
  BY DEF BringWait, At, MayUse
<1>2. /\ old \in Observers(Waiter) /\ InBounds(old)
      /\ old.waiters \cup {w0} \subseteq Waiter /\ w0.task = t /\ w0.filter = filter
      /\ \A w \in old.waiters : w.task # t
  <2>1. /\ old \in Observers(Waiter) /\ InBounds(old) /\ old.waiters \subseteq Waiter
        /\ \A w \in old.waiters : job[w.task].at = "waiting"
    BY <1>1, ObserverAt
  <2>2. w0 \in Waiter /\ w0.task = t /\ w0.filter = filter
    BY DEF Waiter
  <2>3. QED
    BY <1>1, <2>1, <2>2
<1>3. /\ o \in Observers(Waiter) /\ InBounds(o)
      /\ o.recent = old.recent /\ o.waiters = old.waiters \cup {w0}
  BY <1>2, ObserverSet DEF AddWaiter
<1> DEFINE k == [Idle EXCEPT !.op = "wait_for_network_record", !.at = "waiting", !.id = id,
                             !.page = pages[id]]
<1>4. k \in JobType /\ k.at = "waiting" /\ k.id = id /\ k.op = "wait_for_network_record"
  <2>1. /\ "waiting" \in Stages /\ pages[id] \in Chrome \cup {None}
        /\ "wait_for_network_record" \in Calls \cup OwnOps
    BY Labels DEF OwnOps, IInv, TypeOK
  <2>2. QED
    BY <2>1, IdleJob DEF JobType
<1> HIDE DEF k, o, w0
<1>5. Moves({t}) /\ job'[t] = k /\ \A s \in Tasks : s # t => job'[s] = job[s]
  BY <1>1, <1>4, SetJob DEF k, IInv, JobsOK
<1>6. None \notin Observers(Waiter)
  BY PagesAssumption DEF Waiter
<1>7. \A i \in Ids : observers'[i] = IF i = id THEN o ELSE observers[i]
  BY <1>1 DEF IInv, TypeOK
<1>8. WaiterInv'
  <2> SUFFICES ASSUME NEW i \in Ids, observers'[i] # None, NEW w \in observers'[i].waiters
               PROVE  /\ job'[w.task].at = "waiting" /\ job'[w.task].id = i
                      /\ \A v \in observers'[i].waiters : v.task = w.task => v = w
    BY DEF WaiterInv, At
  <2>1. CASE i = id
    <3>1. observers'[i].waiters = old.waiters \cup {w0}
      BY <1>3, <1>7, <2>1
    <3>2. /\ \A v \in old.waiters : /\ v.task # t /\ job[v.task].at = "waiting" /\ job[v.task].id = id
                                   /\ v.task \in Tasks
          /\ \A v, u \in old.waiters : v.task = u.task => v = u
      BY <1>1, <1>2, ObserverAt
    <3>3. w0.task = t
      BY <1>2
    <3>4. QED
      BY <1>4, <1>5, <2>1, <3>1, <3>2, <3>3
  <2>2. CASE i # id
    <3>1. observers'[i] = observers[i]
      BY <1>7, <2>2
    <3>2. /\ w.task \in Tasks /\ job[w.task].at = "waiting" /\ job[w.task].id = i
          /\ \A v \in observers[i].waiters : v.task = w.task => v = w
      BY <3>1, ObserverAt
    <3>3. QED
      BY <1>1, <1>5, <3>1, <3>2
  <2>3. QED
    BY <2>1, <2>2
<1>9. NobodyMissesARecord'
  <2> SUFFICES ASSUME NEW s \in Tasks, job'[s].at = "waiting", job'[s].id \notin strays
               PROVE  /\ observers'[job'[s].id] # None
                      /\ \E w \in observers'[job'[s].id].waiters :
                             w.task = s /\ ~Found(observers'[job'[s].id], w.filter)
    BY <1>1 DEF NobodyMissesARecord, At
  <2>1. CASE s = t
    BY <1>1, <1>2, <1>3, <1>4, <1>5, <1>6, <1>7, <2>1 DEF Found
  <2>2. CASE s # t
    <3>1. job'[s] = job[s]
      BY <1>5, <2>2
    <3>2. /\ observers[job[s].id] # None /\ job[s].id \in Ids
          /\ \E w \in observers[job[s].id].waiters :
                 w.task = s /\ ~Found(observers[job[s].id], w.filter)
      BY <3>1, Labels DEF IInv, NobodyMissesARecord, At, StageInv, StageOf
    <3>3. QED
      BY <1>3, <1>6, <1>7, <3>1, <3>2 DEF Found
  <2>3. QED
    BY <2>1, <2>2
<1>10. StageOf(t)'
  BY <1>4, <1>5, Labels DEF StageOf
<1>11. IdsMove({t})
  BY <1>1, <1>4, <1>5 DEF IdsMove
<1>12. QED
  BY <1>1, <1>3, <1>4, <1>5, <1>8, <1>9, <1>10, <1>11, ObserverStep

LEMMA WaitTimesOutStep ==
    ASSUME IInv, NEW t \in Tasks, WaitTimesOut(t) PROVE IInv'
<1> DEFINE id == job[t].id
           old == observers[id]
           o == IF old = None THEN None ELSE DropWaiter(old, t)
<1>1. /\ job[t].at = "waiting" /\ Done(t) /\ observers' = [observers EXCEPT ![id] = o]
      /\ UNCHANGED <<context, open, pages, reusable, kept, createLock, known, strays, doomed>>
  BY DEF WaitTimesOut, At
<1>2. id \in Ids
  BY <1>1, Labels DEF IInv, StageInv, StageOf
<1>3. old # None => /\ o \in Observers(Waiter) /\ InBounds(o)
                    /\ o.recent = old.recent /\ o.waiters = {w \in old.waiters : w.task # t}
  <2> HAVE old # None
  <2>1. old \in Observers(Waiter) /\ InBounds(old) /\ {w \in old.waiters : w.task # t} \in SUBSET Waiter
    BY <1>2, ObserverAt
  <2>2. QED
    BY <2>1, ObserverSet DEF DropWaiter
<1>4. old = None => o = None
  OBVIOUS
<1> HIDE DEF o
<1>5. Moves({t}) /\ job'[t] = Idle /\ \A s \in Tasks : s # t => job'[s] = job[s]
  BY <1>1, DoneJob DEF IInv, JobsOK
<1>6. None \notin Observers(Waiter)
  BY PagesAssumption DEF Waiter
<1>7. \A i \in Ids : observers'[i] = IF i = id THEN o ELSE observers[i]
  BY <1>1 DEF IInv, TypeOK
<1>8. WaiterInv'
  <2> SUFFICES ASSUME NEW i \in Ids, observers'[i] # None, NEW w \in observers'[i].waiters
               PROVE  /\ job'[w.task].at = "waiting" /\ job'[w.task].id = i
                      /\ \A v \in observers'[i].waiters : v.task = w.task => v = w
    BY DEF WaiterInv, At
  <2>1. /\ observers[i] # None /\ w \in observers[i].waiters /\ (i = id => w.task # t)
        /\ observers'[i].waiters \subseteq observers[i].waiters
    BY <1>3, <1>4, <1>7
  <2>2. /\ w.task \in Tasks /\ job[w.task].at = "waiting" /\ job[w.task].id = i
        /\ \A v \in observers[i].waiters : v.task = w.task => v = w
    BY <2>1, ObserverAt
  <2>3. QED
    BY <1>5, <2>1, <2>2
<1>9. NobodyMissesARecord'
  <2> SUFFICES ASSUME NEW s \in Tasks, job'[s].at = "waiting", job'[s].id \notin strays
               PROVE  /\ observers'[job'[s].id] # None
                      /\ \E w \in observers'[job'[s].id].waiters :
                             w.task = s /\ ~Found(observers'[job'[s].id], w.filter)
    BY <1>1 DEF NobodyMissesARecord, At
  <2>1. s # t /\ job'[s] = job[s]
    BY <1>5, IdleJob
  <2>2. /\ observers[job[s].id] # None /\ job[s].id \in Ids
        /\ \E w \in observers[job[s].id].waiters :
               w.task = s /\ ~Found(observers[job[s].id], w.filter)
    BY <2>1, Labels DEF IInv, NobodyMissesARecord, At, StageInv, StageOf
  <2>3. QED
    BY <1>3, <1>6, <1>7, <2>1, <2>2 DEF Found
<1>10. StageOf(t)'
  BY <1>5, AtRest
<1>11. IdsMove({t})
  BY <1>5, IdleJob DEF IdsMove
<1>12. QED
  BY <1>1, <1>2, <1>3, <1>4, <1>5, <1>8, <1>9, <1>10, <1>11, IdleJob, ObserverStep

LEMMA FinalizedStep ==
    ASSUME IInv, NEW id \in Ids, NEW type \in Types, Finalized(id, type) PROVE IInv'
<1> DEFINE old == observers[id]
           rest == [old EXCEPT !.finalizing = old.finalizing \ {type}]
           served == Served(old, type)
<1>1. /\ old # None /\ type \in old.finalizing
      /\ UNCHANGED <<context, open, pages, reusable, kept, createLock, known, strays, doomed>>
  BY DEF Finalized
<1>2. \/ /\ observers' = [observers EXCEPT ![id] = AddRecord(rest, type)]
         /\ job' = [t \in Tasks |-> IF t \in served THEN Idle ELSE job[t]]
      \/ observers' = [observers EXCEPT ![id] = rest] /\ job' = job
  BY DEF Finalized, FinalizeRequest, FinalizeFails
<1>3. /\ old \in Observers(Waiter) /\ InBounds(old) /\ old.finalizing \ {type} \subseteq Types
      /\ \A w \in old.waiters :
             /\ w.task \in Tasks /\ job[w.task].at = "waiting" /\ job[w.task].id = id
             /\ \A v \in old.waiters : v.task = w.task => v = w
  BY <1>1, ObserverAt
<1>4. /\ rest \in Observers(Waiter) /\ InBounds(rest)
      /\ rest.recent = old.recent /\ rest.waiters = old.waiters
  BY <1>3, ObserverSet
<1> HIDE DEF rest
<1>5. None \notin Observers(Waiter)
  BY PagesAssumption DEF Waiter
<1>6. served = {w.task : w \in {v \in old.waiters : Matches(v.filter, type)}}
  BY DEF Served
<1> HIDE DEF served
<1>7. \A s \in Tasks : job[s].at = "waiting" /\ job[s].id \notin strays =>
          /\ observers[job[s].id] # None /\ job[s].id \in Ids
          /\ \E w \in observers[job[s].id].waiters :
                 w.task = s /\ ~Found(observers[job[s].id], w.filter)
  BY Labels DEF IInv, NobodyMissesARecord, At, StageInv, StageOf
<1>8. CASE /\ observers' = [observers EXCEPT ![id] = AddRecord(rest, type)]
           /\ job' = [t \in Tasks |-> IF t \in served THEN Idle ELSE job[t]]
  <2> DEFINE o == AddRecord(rest, type)
  <2>1. /\ o \in Observers(Waiter) /\ InBounds(o)
        /\ Range(o.recent) \subseteq Range(old.recent) \cup {type}
        /\ o.waiters = {w \in old.waiters : ~Matches(w.filter, type)}
    BY <1>4, AddRecordOK
  <2> HIDE DEF o
  <2>2. \A i \in Ids : observers'[i] = IF i = id THEN o ELSE observers[i]
    BY <1>8 DEF o, IInv, TypeOK
  <2>3. \A s \in Tasks : job'[s] = IF s \in served THEN Idle ELSE job[s]
    BY <1>8
  <2>4. Moves({})
    <3>1. \A s \in served : job[s].at = "waiting"
      BY <1>3, <1>6
    <3>2. job' \in [Tasks -> JobType]
      BY <1>8, IdleJob DEF IInv, JobsOK
    <3>3. QED
      BY <2>3, <3>1, <3>2 DEF Moves, At
  <2>5. WaiterInv'
    <3> SUFFICES ASSUME NEW i \in Ids, observers'[i] # None, NEW w \in observers'[i].waiters
                 PROVE  /\ job'[w.task].at = "waiting" /\ job'[w.task].id = i
                        /\ \A v \in observers'[i].waiters : v.task = w.task => v = w
      BY DEF WaiterInv, At
    <3>1. /\ observers[i] # None /\ w \in observers[i].waiters
          /\ i = id => ~Matches(w.filter, type)
          /\ observers'[i].waiters \subseteq observers[i].waiters
      BY <1>1, <2>1, <2>2
    <3>2. /\ w.task \in Tasks /\ job[w.task].at = "waiting" /\ job[w.task].id = i
          /\ \A v \in observers[i].waiters : v.task = w.task => v = w
      BY <3>1, ObserverAt
    <3>3. w.task \notin served
      <4> SUFFICES ASSUME w.task \in served PROVE FALSE
        OBVIOUS
      <4>1. i = id
        BY <1>3, <1>6, <3>2
      <4>2. QED
        BY <1>3, <1>6, <3>1, <4>1
    <3>4. QED
      BY <2>3, <3>1, <3>2, <3>3
  <2>6. NobodyMissesARecord'
    <3> SUFFICES ASSUME NEW s \in Tasks, job'[s].at = "waiting", job'[s].id \notin strays
                 PROVE  /\ observers'[job'[s].id] # None
                        /\ \E w \in observers'[job'[s].id].waiters :
                               w.task = s /\ ~Found(observers'[job'[s].id], w.filter)
      BY <1>1 DEF NobodyMissesARecord, At
    <3>1. s \notin served /\ job'[s] = job[s]
      BY <2>3, IdleJob
    <3>2. PICK w \in observers[job[s].id].waiters :
              w.task = s /\ ~Found(observers[job[s].id], w.filter)
      BY <1>7, <3>1
    <3>3. observers[job[s].id] # None /\ job[s].id \in Ids
      BY <1>7, <3>1
    <3>4. CASE job[s].id # id
      BY <2>2, <3>1, <3>2, <3>3, <3>4 DEF Found
    <3>5. CASE job[s].id = id
      <4>1. ~Matches(w.filter, type) /\ w \in o.waiters
        BY <1>6, <2>1, <3>1, <3>2, <3>5
      <4>2. ~Found(o, w.filter)
        BY <2>1, <3>2, <3>5, <4>1 DEF Found
      <4>3. QED
        BY <1>5, <2>1, <2>2, <3>1, <3>2, <3>3, <3>5, <4>1, <4>2
    <3>6. QED
      BY <3>4, <3>5
  <2>7. IdsMove({})
    BY DEF IdsMove
  <2>8. QED
    BY <1>1, <1>8, <2>1, <2>4, <2>5, <2>6, <2>7, ObserverStep DEF o
<1>9. CASE observers' = [observers EXCEPT ![id] = rest] /\ job' = job
  <2>1. \A i \in Ids : observers'[i] = IF i = id THEN rest ELSE observers[i]
    BY <1>9 DEF IInv, TypeOK
  <2>2. WaiterInv'
    <3> SUFFICES ASSUME NEW i \in Ids, observers'[i] # None, NEW w \in observers'[i].waiters
                 PROVE  /\ job[w.task].at = "waiting" /\ job[w.task].id = i
                        /\ \A v \in observers'[i].waiters : v.task = w.task => v = w
      BY <1>9 DEF WaiterInv, At
    <3>1. observers[i] # None /\ observers'[i].waiters = observers[i].waiters
      BY <1>1, <1>4, <2>1
    <3>2. QED
      BY <3>1, ObserverAt
  <2>3. NobodyMissesARecord'
    <3> SUFFICES ASSUME NEW s \in Tasks, job[s].at = "waiting", job[s].id \notin strays
                 PROVE  /\ observers'[job[s].id] # None
                        /\ \E w \in observers'[job[s].id].waiters :
                               w.task = s /\ ~Found(observers'[job[s].id], w.filter)
      BY <1>1, <1>9 DEF NobodyMissesARecord, At
    <3>1. QED
      BY <1>4, <1>5, <1>7, <2>1 DEF Found
  <2>4. Moves({}) /\ IdsMove({})
    BY <1>9 DEF Moves, IdsMove, IInv, JobsOK
  <2>5. QED
    BY <1>1, <1>4, <1>9, <2>2, <2>3, <2>4, ObserverStep
<1>10. QED
  BY <1>2, <1>8, <1>9

-----------------------------------------------------------------------------
LEMMA InitInvariant == Init => IInv
<1> SUFFICES ASSUME Init PROVE IInv
  OBVIOUS
<1>1. /\ context = "none" /\ open = {} /\ reusable = << >> /\ kept = {}
      /\ pages = [i \in Ids |-> None] /\ observers = [i \in Ids |-> None]
      /\ createLock = None /\ known = {} /\ strays = {} /\ doomed = {}
      /\ job = [t \in Tasks |-> Idle]
  BY DEF Init
<1>2. TypeOK /\ JobsOK
  BY <1>1, IdleJob, FS_EmptySet DEF TypeOK, JobsOK
<1>3. \A t \in Tasks : job[t] = Idle
  BY <1>1
<1>4. StageInv
  BY <1>3, IdleJob, Labels DEF StageInv, StageOf
<1>5. LocalInv
  BY <1>3, IdleJob, Labels DEF LocalInv, LocalOf, EarlyOf, LateOf, CloseOf, DestroyOf, CallOf, At
<1>6. Registered = {}
  BY <1>1 DEF Registered
<1>7. ContextInv
  BY <1>1, <1>3, <1>6, IdleJob DEF ContextInv, At
<1>8. WaiterInv /\ NeverWithoutPage /\ PagesOwnedOnce /\ KnownOpen
  BY <1>1, <1>6 DEF WaiterInv, NeverWithoutPage, PagesOwnedOnce, KnownOpen
<1>9. NothingKeptForTheGone /\ NobodyMissesARecord
  BY <1>1, <1>3, IdleJob DEF NothingKeptForTheGone, NobodyMissesARecord, At
<1>10. QED
  BY <1>2, <1>4, <1>5, <1>7, <1>8, <1>9 DEF IInv

LEMMA ProgressPreserves ==
    ASSUME IInv, NEW t \in Tasks, Progress(t) PROVE IInv'
<1>1. CASE EnsureStarted(t) \/ Launched(t) \/ LaunchFails(t)
  BY <1>1, EnsureStartedStep, LaunchStep, LaunchedStep, LaunchFailsStep
<1>2. CASE AcquirePage(t) \/ NewPage(t) \/ Navigated(t) \/ Opened(t) \/ OpenFails(t)
  BY <1>2, AcquirePageStep, NewPageStep, NavigatedStep, OpenedStep, OpenFailsStep
<1>3. CASE GetCloseLock(t) \/ Replaced(t) \/ Destroyed(t) \/ VideoSaved(t) \/ VideoFails(t)
           \/ CloseFails(t)
  BY <1>3, GetCloseLockStep, ReplacedStep, DestroyedStep, VideoStep, CloseFailsStep
<1>4. CASE TraceSaved(t) \/ StopNext(t) \/ StopContext(t) \/ ContextClosed(t)
           \/ ContextCloseFails(t) \/ Stopped(t)
  BY <1>4, TraceSavedStep, StopNextStep, StopContextStep, ContextClosedStep,
     ContextCloseFailsStep, StoppedStep
<1>5. CASE Answered(t) \/ CallFails(t) \/ WaitTimesOut(t)
  BY <1>5, AnsweredStep, CallFailsStep, WaitTimesOutStep
<1>6. QED
  BY <1>1, <1>2, <1>3, <1>4, <1>5 DEF Progress

LEMMA StutterPreserves == IInv /\ UNCHANGED vars => IInv'
<1> SUFFICES ASSUME IInv, UNCHANGED vars PROVE IInv'
  OBVIOUS
<1>1. UNCHANGED <<context, open, pages, reusable, kept, observers, createLock, known, strays, doomed, job>>
  BY DEF vars
<1>2. TypeOK' /\ JobsOK'
  BY <1>1 DEF IInv, TypeOK, JobsOK
<1>3. StageInv' /\ ContextInv'
  BY <1>1 DEF IInv, StageInv, StageOf, ContextInv, At, Registered
<1>4. LocalInv' /\ WaiterInv'
  BY <1>1 DEF IInv, LocalInv, LocalOf, EarlyOf, LateOf, CloseOf, DestroyOf, CallOf, WaiterInv, At
<1>5. NeverWithoutPage' /\ PagesOwnedOnce' /\ KnownOpen'
  BY <1>1 DEF IInv, NeverWithoutPage, PagesOwnedOnce, KnownOpen, Registered, Alive
<1>6. NothingKeptForTheGone' /\ NobodyMissesARecord'
  BY <1>1 DEF IInv, NothingKeptForTheGone, NobodyMissesARecord, Registered, At, Found
<1>7. QED
  BY <1>2, <1>3, <1>4, <1>5, <1>6 DEF IInv

LEMMA NextPreserves == IInv /\ [Next]_vars => IInv'
<1> SUFFICES ASSUME IInv, Next PROVE IInv'
  BY StutterPreserves
<1>1. CASE \E t \in Tasks : Progress(t)
  BY <1>1, ProgressPreserves
<1>2. CASE \E t \in Tasks : BringStop(t)
  BY <1>2, BringStopStep
<1>3. CASE \E t \in Tasks, id \in Ids : BringOpen(t, id) \/ BringClose(t, id)
  BY <1>3, BringOpenStep, BringCloseStep
<1>4. CASE \E t \in Tasks, id \in Ids : \E op \in Calls : BringCall(t, id, op)
  BY <1>4, BringCallStep
<1>5. CASE \E t \in Tasks, id \in Ids : \E op \in Notes : Note(t, id, op)
  BY <1>5, NoteStep
<1>6. CASE \E t \in Tasks, id \in Ids : \E f \in WaitFilters : BringWait(t, id, f)
  BY <1>6, BringWaitStep
<1>7. CASE \E id \in Ids, type \in Types : RequestFinished(id, type) \/ Finalized(id, type)
  BY <1>7, RequestFinishedStep, FinalizedStep
<1>8. QED
  BY <1>1, <1>2, <1>3, <1>4, <1>5, <1>6, <1>7 DEF Next

THEOREM Invariance == Spec => []IInv
BY InitInvariant, NextPreserves, PTL DEF Spec

(* The tables keep their types, no buffer of records outgrows its bound, and *)
(* the page lock is only held between its acquisition and its release,       *)
(* whatever fails meanwhile, for any number of tasks, ids and pages.         *)
THEOREM TypeCorrect == Spec => []TypeOK
BY Invariance, PTL DEF IInv

(* _ensure_reusable_page_before_last_close: the closers share the page lock, *)
(* so none of them destroys the page that another has counted on, and a      *)
(* context that is up keeps a page.                                          *)
THEOREM AlwaysAPage == Spec => []NeverWithoutPage
BY Invariance, PTL DEF IInv

(* _acquire_page never hands out a page twice: neither two ids nor an id and *)
(* the list of the startup pages share one.                                  *)
THEOREM PagesHaveOneOwner == Spec => []PagesOwnedOnce
BY Invariance, PTL DEF IInv

(* A page whose id new_tab has returned is registered and open until         *)
(* close_tab has returned, however opens, closes, failures and a stop        *)
(* interleave; what is excepted is a page that Chrome destroyed for a close  *)
(* that raised afterwards or has not ended (the video is saved then), and    *)
(* what stop has closed or forgotten.  No failure leaves the page lock       *)
(* behind.                                                                   *)
THEOREM ReturnedPagesStay == Spec => []KnownPagesOpen
<1>1. IInv => KnownPagesOpen
  BY DEF IInv, KnownOpen, KnownPagesOpen
<1>2. QED
  BY <1>1, Invariance, PTL

(* _close_page and stop leave no handler, session, video or observer behind  *)
(* for an id that is gone, but for what stop could not close.                *)
THEOREM TablesAreCleared == Spec => []NothingKeptForTheGone
BY Invariance, PTL DEF IInv

(* wait_for_record: the look at the buffer and the entry among the waiters   *)
(* are one step, so no record falls between them, and whoever removes the    *)
(* observer cancels those who wait at it.                                    *)
THEOREM WaitersAreServed == Spec => []NobodyMissesARecord
BY Invariance, PTL DEF IInv
=============================================================================
