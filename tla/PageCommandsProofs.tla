------------------------- MODULE PageCommandsProofs -------------------------
(* Proofs about PageCommands, for any number of tasks, agents and pages and  *)
(* any programs.                                                             *)
(*                                                                           *)
(* Five inductive invariants. AtTheGate ties the await that a command is at  *)
(* to the place of its request in the gate: with it every step of a command  *)
(* is a step of the gate or leaves the gate alone, and the isolation of the  *)
(* gate is that of the commands. ClaimInv ties the tabs and the claims to    *)
(* the awaits; the exact correspondence is not inductive by itself, since a  *)
(* page just opened must be known to be nobody else's, and a claim to be of  *)
(* a page of the agent that holds it. ReservedThere says that no reservation *)
(* is lost before its close-tab is done: nobody removes the tab that another *)
(* one has reserved, and a rebuild of the workspace, which forgets them all, *)
(* is alone at the gate (RebuildsAlone). TabsInv is about the registry by    *)
(* itself: each of its methods leaves a sound one if it is called with a     *)
(* page that is there, or that the caller owns, and what the handlers know   *)
(* under their claims and reservations says that it is. Together they say    *)
(* enough of every step for the refinement of PageLeases. InterruptInv is    *)
(* about closures: a close-tab knows who works on its page, so nobody is     *)
(* left working on a page that is gone without having been asked to stop.    *)
EXTENDS PageCommands, FiniteSetTheorems, SequenceTheorems, WellFoundedInduction, TLAPS

GateProofs == INSTANCE ExecutionGateProofs WITH Requests <- Tasks

-----------------------------------------------------------------------------
(* Records.  A job is updated field by field; what a step leaves of it.      *)
IsJob(j) ==
    j = [prog |-> j.prog, step |-> j.step, at |-> j.at, page |-> j.page,
         target |-> j.target, todo |-> j.todo]

JobShape == job = [t \in Tasks |-> job[t]] /\ \A t \in Tasks : IsJob(job[t])

(* The step is that of task t, and leaves its job so. *)
Moves(t, j) ==
    /\ JobShape'
    /\ \A u \in Tasks \ {t} : job'[u] = job[u]
    /\ job'[t] = j

Job(pr, st, a, pg, tg, td) ==
    [prog |-> pr, step |-> st, at |-> a, page |-> pg, target |-> tg, todo |-> td]

LEMMA JobFields ==
    ASSUME NEW pr, NEW st, NEW a, NEW pg, NEW tg, NEW td
    PROVE  LET j == Job(pr, st, a, pg, tg, td)
           IN  /\ IsJob(j) /\ j.prog = pr /\ j.step = st /\ j.at = a
               /\ j.page = pg /\ j.target = tg /\ j.todo = td
BY DEF Job, IsJob

LEMMA MovedFields ==
    ASSUME NEW t \in Tasks, NEW pr, NEW st, NEW a, NEW pg, NEW tg, NEW td,
           Moves(t, Job(pr, st, a, pg, tg, td))
    PROVE  /\ JobShape' /\ \A u \in Tasks \ {t} : job'[u] = job[u]
           /\ job'[t].prog = pr /\ job'[t].step = st /\ job'[t].at = a
           /\ job'[t].page = pg /\ job'[t].target = tg /\ job'[t].todo = td
BY JobFields DEF Moves

LEMMA WholeJob ==
    ASSUME JobShape, NEW t \in Tasks, NEW j, IsJob(j), job' = [job EXCEPT ![t] = j]
    PROVE  Moves(t, j)
BY DEF JobShape, Moves

LEMMA AtOnly ==
    ASSUME JobShape, NEW t \in Tasks, NEW a, job' = [job EXCEPT ![t].at = a]
    PROVE  Moves(t, Job(job[t].prog, job[t].step, a, job[t].page, job[t].target, job[t].todo))
<1> DEFINE j == [job[t] EXCEPT !.at = a]
<1>1. IsJob(job[t])
  BY DEF JobShape
<1>2. j = Job(job[t].prog, job[t].step, a, job[t].page, job[t].target, job[t].todo)
  BY <1>1 DEF IsJob, Job
<1>3. /\ job' = [u \in Tasks |-> job'[u]]
      /\ job'[t] = j
      /\ \A u \in Tasks \ {t} : job'[u] = job[u]
  BY DEF JobShape
<1> HIDE DEF j
<1>4. QED
  BY <1>2, <1>3, JobFields DEF JobShape, Moves

LEMMA AtAndPage ==
    ASSUME JobShape, NEW t \in Tasks, NEW a, NEW p,
           job' = [job EXCEPT ![t].at = a, ![t].page = p]
    PROVE  Moves(t, Job(job[t].prog, job[t].step, a, p, job[t].target, job[t].todo))
<1> DEFINE i == [job[t] EXCEPT !.at = a]
           j == [i EXCEPT !.page = p]
<1>1. IsJob(job[t])
  BY DEF JobShape
<1>2. i = Job(job[t].prog, job[t].step, a, job[t].page, job[t].target, job[t].todo)
  BY <1>1 DEF IsJob, Job
<1>3. /\ job' = [u \in Tasks |-> job'[u]]
      /\ job'[t] = j
      /\ \A u \in Tasks \ {t} : job'[u] = job[u]
  BY DEF JobShape
<1> HIDE DEF i
<1>4. j = Job(job[t].prog, job[t].step, a, p, job[t].target, job[t].todo)
  BY <1>2 DEF Job
<1> HIDE DEF j
<1>5. QED
  BY <1>3, <1>4, JobFields DEF JobShape, Moves

LEMMA AtAndTodo ==
    ASSUME JobShape, NEW t \in Tasks, NEW a, NEW d,
           job' = [job EXCEPT ![t].at = a, ![t].todo = d]
    PROVE  Moves(t, Job(job[t].prog, job[t].step, a, job[t].page, job[t].target, d))
<1> DEFINE i == [job[t] EXCEPT !.at = a]
           j == [i EXCEPT !.todo = d]
<1>1. IsJob(job[t])
  BY DEF JobShape
<1>2. i = Job(job[t].prog, job[t].step, a, job[t].page, job[t].target, job[t].todo)
  BY <1>1 DEF IsJob, Job
<1>3. /\ job' = [u \in Tasks |-> job'[u]]
      /\ job'[t] = j
      /\ \A u \in Tasks \ {t} : job'[u] = job[u]
  BY DEF JobShape
<1> HIDE DEF i
<1>4. j = Job(job[t].prog, job[t].step, a, job[t].page, job[t].target, d)
  BY <1>2 DEF Job
<1> HIDE DEF j
<1>5. QED
  BY <1>3, <1>4, JobFields DEF JobShape, Moves

LEMMA ProgAndAt ==
    ASSUME JobShape, NEW t \in Tasks, NEW r, NEW a,
           job' = [job EXCEPT ![t].prog = r, ![t].at = a]
    PROVE  Moves(t, Job(r, job[t].step, a, job[t].page, job[t].target, job[t].todo))
<1> DEFINE i == [job[t] EXCEPT !.prog = r]
           j == [i EXCEPT !.at = a]
<1>1. IsJob(job[t])
  BY DEF JobShape
<1>2. i = Job(r, job[t].step, job[t].at, job[t].page, job[t].target, job[t].todo)
  BY <1>1 DEF IsJob, Job
<1>3. /\ job' = [u \in Tasks |-> job'[u]]
      /\ job'[t] = j
      /\ \A u \in Tasks \ {t} : job'[u] = job[u]
  BY DEF JobShape
<1> HIDE DEF i
<1>4. j = Job(r, job[t].step, a, job[t].page, job[t].target, job[t].todo)
  BY <1>2 DEF Job
<1> HIDE DEF j
<1>5. QED
  BY <1>3, <1>4, JobFields DEF JobShape, Moves

LEMMA AtPageAndTarget ==
    ASSUME JobShape, NEW t \in Tasks, NEW a, NEW p, NEW c,
           job' = [job EXCEPT ![t].at = a, ![t].page = p, ![t].target = c]
    PROVE  Moves(t, Job(job[t].prog, job[t].step, a, p, c, job[t].todo))
<1> DEFINE h == [job[t] EXCEPT !.at = a]
           i == [h EXCEPT !.page = p]
           j == [i EXCEPT !.target = c]
<1>1. IsJob(job[t])
  BY DEF JobShape
<1>2. h = Job(job[t].prog, job[t].step, a, job[t].page, job[t].target, job[t].todo)
  BY <1>1 DEF IsJob, Job
<1>3. /\ job' = [u \in Tasks |-> job'[u]]
      /\ job'[t] = j
      /\ \A u \in Tasks \ {t} : job'[u] = job[u]
  BY DEF JobShape
<1> HIDE DEF h
<1>4. i = Job(job[t].prog, job[t].step, a, p, job[t].target, job[t].todo)
  BY <1>2 DEF Job
<1> HIDE DEF i
<1>5. j = Job(job[t].prog, job[t].step, a, p, c, job[t].todo)
  BY <1>4 DEF Job
<1> HIDE DEF j
<1>6. QED
  BY <1>3, <1>5, JobFields DEF JobShape, Moves

(* What follows the end of a command. *)
NextCommand(t) == Job(job[t].prog, job[t].step + 1, "begin", None, NoClaimant, << >>)
Done == Job(None, 1, "over", None, NoClaimant, << >>)

LEMMA IdleVariants ==
    ASSUME NEW r, NEW n
    PROVE  /\ [Idle EXCEPT !.at = "over"] = Done
           /\ [Idle EXCEPT !.prog = r, !.step = n, !.at = "begin"]
                 = Job(r, n, "begin", None, NoClaimant, << >>)
<1>1. [Idle EXCEPT !.at = "over"] = Done
  BY DEF Idle, Done, Job
<1> DEFINE i == [Idle EXCEPT !.prog = r]
           k == [i EXCEPT !.step = n]
<1>2. i = Job(r, 1, "idle", None, NoClaimant, << >>)
  BY DEF Idle, Job
<1> HIDE DEF i
<1>3. k = Job(r, n, "idle", None, NoClaimant, << >>)
  BY <1>2 DEF Job
<1> HIDE DEF k
<1>4. [k EXCEPT !.at = "begin"] = Job(r, n, "begin", None, NoClaimant, << >>)
  BY <1>3 DEF Job
<1>5. QED
  BY <1>1, <1>4 DEF i, k
-----------------------------------------------------------------------------
(* The gate.  Which jobs the gate has let in, and for which mode.            *)
Sees(t) ==
    /\ job[t].at \in Awaits \cup Nowhere
    /\ Running(t) => pc[t] = "inside"
    /\ job[t].at = "gate" => pc[t] \in {"sleeping", "notified"}
    /\ job[t].at \in {"idle", "over"} => pc[t] = "outside"
    /\ job[t].at \in Awaits \cup {"gate"} => kind[t] = job[t].prog.mode

AtTheGate ==
    /\ JobShape
    /\ pc \in [Tasks -> Gate!Places]
    /\ kind \in [Tasks -> Gate!Kinds]
    /\ \A t \in Tasks : Sees(t)

LEMMA OfferedModes ==
    ASSUME NEW t \in Tasks, NEW r \in Programs[t]
    PROVE  r.mode \in Gate!Kinds
BY CommandAssumption DEF ModeOf, Gate!Kinds, Gate!Shared, Gate!Exclusives

(* A running command goes on, or its request leaves the gate.  A stop or a   *)
(* rebuild is its request's first await, and its only one.                   *)
Onward == Awaits \ {"stopping", "rebuilding"}
Continues(t) ==
    /\ Running(t)
    /\ JobShape' /\ \A u \in Tasks \ {t} : job'[u] = job[u]
    /\ job'[t].at \in Onward /\ job'[t].prog = job[t].prog
    /\ UNCHANGED gateVars

Finishes(t) == Running(t) /\ Gate!Leave(t) /\ Moves(t, Done)

LEMMA AnswerMoves ==
    ASSUME JobShape, NEW t \in Tasks, NEW ok, Answer(t, ok)
    PROVE  \/ Moves(t, NextCommand(t)) /\ UNCHANGED <<gateVars, asked>>
           \/ Gate!Leave(t) /\ Moves(t, Done) /\ asked' = asked \ {t}
<1>1. CASE job[t].step < Len(job[t].prog.steps) /\ (ok \/ ~job[t].prog.stop)
  <2>1. /\ job' = [job EXCEPT ![t] = NextCommand(t)]
        /\ UNCHANGED <<gateVars, asked>>
    BY <1>1, IdleVariants DEF Answer, NextCommand
  <2>2. IsJob(NextCommand(t))
    BY JobFields DEF NextCommand
  <2>3. QED
    BY <2>1, <2>2, WholeJob
<1>2. CASE ~(job[t].step < Len(job[t].prog.steps) /\ (ok \/ ~job[t].prog.stop))
  <2>1. /\ Gate!Leave(t) /\ asked' = asked \ {t}
        /\ job' = [job EXCEPT ![t] = Done]
    BY <1>2, IdleVariants DEF Answer, Over
  <2>2. IsJob(Done)
    BY JobFields DEF Done
  <2>3. QED
    BY <2>1, <2>2, WholeJob
<1>3. QED
  BY <1>1, <1>2

LEMMA StaysAwaiting ==
    ASSUME NEW t \in Tasks, Running(t), NEW a \in Onward, NEW st, NEW pg, NEW tg, NEW td,
           Moves(t, Job(job[t].prog, st, a, pg, tg, td)), UNCHANGED gateVars
    PROVE  Continues(t)
BY JobFields DEF Moves, Continues

LEMMA AnswerStays ==
    ASSUME JobShape, NEW t \in Tasks, Running(t), NEW ok, Answer(t, ok)
    PROVE  Continues(t) \/ Finishes(t)
<1>1. "begin" \in Onward
  BY DEF Onward, Awaits, AtTheDriver
<1>2. Moves(t, NextCommand(t)) /\ UNCHANGED gateVars => Continues(t)
  BY <1>1, StaysAwaiting DEF NextCommand
<1>3. QED
  BY <1>2, AnswerMoves DEF Finishes

(* A step of a command without an answer goes on at another await. *)
LEMMA AtStays ==
    ASSUME JobShape, NEW t \in Tasks, Running(t), NEW a \in Onward,
           job' = [job EXCEPT ![t].at = a], UNCHANGED gateVars
    PROVE  Continues(t)
BY AtOnly, StaysAwaiting

LEMMA AtAndPageStays ==
    ASSUME JobShape, NEW t \in Tasks, Running(t), NEW a \in Onward, NEW p,
           job' = [job EXCEPT ![t].at = a, ![t].page = p], UNCHANGED gateVars
    PROVE  Continues(t)
<1>1. Moves(t, Job(job[t].prog, job[t].step, a, p, job[t].target, job[t].todo))
  BY AtAndPage
<1>2. QED
  BY <1>1, StaysAwaiting

LEMMA AtAndTodoStays ==
    ASSUME JobShape, NEW t \in Tasks, Running(t), NEW a \in Onward, NEW d,
           job' = [job EXCEPT ![t].at = a, ![t].todo = d], UNCHANGED gateVars
    PROVE  Continues(t)
<1>1. Moves(t, Job(job[t].prog, job[t].step, a, job[t].page, job[t].target, d))
  BY AtAndTodo
<1>2. QED
  BY <1>1, StaysAwaiting

LEMMA AtPageAndTargetStays ==
    ASSUME JobShape, NEW t \in Tasks, Running(t), NEW a \in Onward, NEW p, NEW c,
           job' = [job EXCEPT ![t].at = a, ![t].page = p, ![t].target = c], UNCHANGED gateVars
    PROVE  Continues(t)
<1>1. Moves(t, Job(job[t].prog, job[t].step, a, p, c, job[t].todo))
  BY AtPageAndTarget
<1>2. QED
  BY <1>1, StaysAwaiting

LEMMA StartsStay ==
    ASSUME JobShape, NEW t \in Tasks, Starts(t)
    PROVE  Continues(t) \/ Finishes(t)
<1> USE DEF Onward, Awaits, AtTheDriver, Claiming, Reserving
<1>1. Running(t)
  BY DEF Starts, ClaimActive, ClaimNamed, StartOpen, StartRead, StartList, ReservePage,
         Resumes, Running
<1>2. CASE \E ok : Answer(t, ok)
  BY <1>1, <1>2, AnswerStays
<1>3. CASE ClaimActive(t)
  <2>1. \/ Answer(t, FALSE)
        \/ \E p : job' = [job EXCEPT ![t].at = "op", ![t].page = p] /\ UNCHANGED gateVars
    BY <1>3 DEF ClaimActive
  <2>2. QED
    BY <1>1, <1>2, <2>1, AtAndPageStays
<1>4. CASE ClaimNamed(t)
  <2>1. \/ Answer(t, FALSE)
        \/ \E p : job' = [job EXCEPT ![t].at = "switching", ![t].page = p] /\ UNCHANGED gateVars
    BY <1>4 DEF ClaimNamed
  <2>2. QED
    BY <1>1, <1>2, <2>1, AtAndPageStays
<1>5. CASE StartOpen(t) \/ StartRead(t)
  BY <1>1, <1>5, AtStays DEF StartOpen, StartRead
<1>6. CASE StartList(t)
  <2>1. \/ Answer(t, TRUE)
        \/ \E d : job' = [job EXCEPT ![t].at = "listing", ![t].todo = d] /\ UNCHANGED gateVars
    BY <1>6 DEF StartList, ListNext
  <2>2. QED
    BY <1>1, <1>2, <2>1, AtAndTodoStays
<1>7. CASE ReservePage(t)
  <2>1. \/ Answer(t, FALSE)
        \/ /\ \E p, c : job' = [job EXCEPT ![t].at = "closing", ![t].page = p, ![t].target = c]
           /\ UNCHANGED gateVars
    BY <1>7 DEF ReservePage
  <2>2. QED
    BY <1>1, <1>2, <2>1, AtPageAndTargetStays
<1>8. QED
  BY <1>3, <1>4, <1>5, <1>6, <1>7 DEF Starts

LEMMA EndsStay ==
    ASSUME JobShape, NEW t \in Tasks, Ends(t)
    PROVE  Continues(t) \/ Finishes(t)
<1> USE DEF Onward, Awaits, AtTheDriver, Claiming, Reserving
<1>1. Running(t)
  BY DEF Ends, BeginFails, OperationDone, SummaryDone, SwitchDone, OperationFails, OpenDone,
         OpenFails, ReadEnds, ListFails, StopDone, RebuildFails,
         ListSummary, CloseUnconfirmed, CloseConfirmed, Drained, RebuildDone,
         Resumes, Running
<1>2. CASE \E ok : Answer(t, ok)
  BY <1>1, <1>2, AnswerStays
<1>3. CASE OperationDone(t)
  <2>1. \/ Answer(t, FALSE)
        \/ job' = [job EXCEPT ![t].at = "summary"] /\ UNCHANGED gateVars
    BY <1>3 DEF OperationDone
  <2>2. QED
    BY <1>1, <1>2, <2>1, AtStays
<1>4. CASE ListSummary(t)
  <2>1. \/ Answer(t, TRUE)
        \/ \E d : job' = [job EXCEPT ![t].at = "listing", ![t].todo = d] /\ UNCHANGED gateVars
    BY <1>4 DEF ListSummary, ListNext
  <2>2. QED
    BY <1>1, <1>2, <2>1, AtAndTodoStays
<1>5. CASE CloseConfirmed(t)
  <2>1. \/ Answer(t, TRUE)
        \/ job' = [job EXCEPT ![t].at = "draining"] /\ UNCHANGED gateVars
    BY <1>5 DEF CloseConfirmed
  <2>2. QED
    BY <1>1, <1>2, <2>1, AtStays
<1>6. QED
  BY <1>2, <1>3, <1>4, <1>5 DEF Ends, BeginFails, SummaryDone, SwitchDone,
     OperationFails, OpenDone, OpenFails, ReadEnds, ListFails, StopDone, RebuildFails,
     CloseUnconfirmed, Drained, RebuildDone

LEMMA BrowserStays ==
    ASSUME JobShape, NEW t \in Tasks, PageAppears(t) \/ PageDestroyed(t)
    PROVE  Continues(t)
<1> USE DEF Onward, Awaits, AtTheDriver, Claiming, Reserving
<1>1. CASE PageAppears(t)
  BY <1>1, AtAndPageStays DEF PageAppears, Running
<1>2. CASE PageDestroyed(t)
  BY <1>2, AtStays DEF PageDestroyed, Running
<1>3. QED
  BY <1>1, <1>2

LEMMA CancelledFinishes ==
    ASSUME JobShape, NEW t \in Tasks, MeetsCancel(t)
    PROVE  Finishes(t)
<1>1. Running(t) /\ Gate!Leave(t) /\ job' = [job EXCEPT ![t] = Done]
  BY IdleVariants DEF MeetsCancel, Over
<1>2. IsJob(Done)
  BY JobFields DEF Done
<1>3. QED
  BY <1>1, <1>2, WholeJob DEF Finishes

(* What notify_all leaves alone. *)
LEMMA NotifyAllKeeps ==
    ASSUME pc \in [Tasks -> Gate!Places]
    PROVE  /\ Gate!NotifyAll(pc) \in [Tasks -> Gate!Places]
           /\ \A u \in Tasks :
                 /\ pc[u] \in {"inside", "outside"} => Gate!NotifyAll(pc)[u] = pc[u]
                 /\ pc[u] \in {"sleeping", "notified"}
                       => Gate!NotifyAll(pc)[u] \in {"sleeping", "notified"}
BY DEF Gate!NotifyAll, Gate!Places

(* A task enters, queues or leaves: what the others see of it. *)
LEMMA AdmitSeen ==
    ASSUME AtTheGate, NEW t \in Tasks, NEW k, NEW n, Gate!Admit(t, k, n)
    PROVE  /\ pc' \in [Tasks -> Gate!Places] /\ pc'[t] = "inside"
           /\ \A u \in Tasks \ {t} :
                 /\ pc[u] \in {"inside", "outside"} => pc'[u] = pc[u]
                 /\ pc[u] \in {"sleeping", "notified"} => pc'[u] \in {"sleeping", "notified"}
<1>1. pc \in [Tasks -> Gate!Places] /\ "inside" \in Gate!Places
  BY DEF AtTheGate, Gate!Places
<1>2. \/ pc' = [Gate!NotifyAll(pc) EXCEPT ![t] = "inside"]
      \/ pc' = [pc EXCEPT ![t] = "inside"]
  BY DEF Gate!Admit
<1>3. QED
  BY <1>1, <1>2, NotifyAllKeeps

LEMMA LeaveSeen ==
    ASSUME AtTheGate, NEW t \in Tasks, Gate!Leave(t)
    PROVE  /\ pc' \in [Tasks -> Gate!Places] /\ pc'[t] = "outside"
           /\ \A u \in Tasks \ {t} :
                 /\ pc[u] \in {"inside", "outside"} => pc'[u] = pc[u]
                 /\ pc[u] \in {"sleeping", "notified"} => pc'[u] \in {"sleeping", "notified"}
           /\ kind' \in [Tasks -> Gate!Kinds]
           /\ \A u \in Tasks \ {t} : kind'[u] = kind[u]
<1>1. pc \in [Tasks -> Gate!Places] /\ "outside" \in Gate!Places
  BY DEF AtTheGate, Gate!Places
<1>2. kind \in [Tasks -> Gate!Kinds] /\ "shared" \in Gate!Kinds
  BY DEF AtTheGate, Gate!Kinds, Gate!Shared
<1>3. QED
  BY <1>1, <1>2, NotifyAllKeeps DEF Gate!Leave

LEMMA InitAtTheGate == Init => AtTheGate
<1> SUFFICES ASSUME Init PROVE AtTheGate
  OBVIOUS
<1>1. Idle = Job(None, 1, "idle", None, NoClaimant, << >>)
  BY DEF Idle, Job
<1>2. job = [t \in Tasks |-> Idle] /\ \A t \in Tasks : job[t] = Idle
  BY DEF Init
<1>3. JobShape /\ \A t \in Tasks : job[t].at = "idle"
  BY <1>1, <1>2, JobFields DEF JobShape
<1>4. /\ pc \in [Tasks -> Gate!Places] /\ \A t \in Tasks : pc[t] = "outside"
      /\ kind \in [Tasks -> Gate!Kinds]
  BY DEF Init, Gate!Init, Gate!Places, Gate!Kinds, Gate!Shared
<1>5. QED
  BY <1>3, <1>4 DEF AtTheGate, Sees, Running, Nowhere, Awaits, AtTheDriver, Claiming, Reserving

LEMMA ContinuesSeen ==
    ASSUME AtTheGate, NEW t \in Tasks, Continues(t)
    PROVE  AtTheGate'
<1>1. pc' = pc /\ kind' = kind
  BY DEF Continues, gateVars
<1>2. ASSUME NEW u \in Tasks, u # t PROVE Sees(u)'
  BY <1>1, <1>2 DEF Continues, AtTheGate, Sees, Running
<1>3. Sees(t)'
  BY <1>1 DEF Continues, Onward, AtTheGate, Sees, Running, Awaits, AtTheDriver, Nowhere,
       Claiming, Reserving
<1>4. QED
  BY <1>1, <1>2, <1>3 DEF AtTheGate, Continues

LEMMA FinishesSeen ==
    ASSUME AtTheGate, NEW t \in Tasks, Finishes(t)
    PROVE  AtTheGate'
<1>1. /\ JobShape' /\ \A u \in Tasks \ {t} : job'[u] = job[u]
      /\ job'[t].at = "over"
  BY JobFields DEF Finishes, Moves, Done
<1>2. ASSUME NEW u \in Tasks, u # t PROVE Sees(u)'
  <2>1. job'[u] = job[u] /\ kind'[u] = kind[u] /\ Sees(u)
    BY <1>1, <1>2, LeaveSeen DEF Finishes, AtTheGate
  <2>2. /\ pc[u] \in {"inside", "outside"} => pc'[u] = pc[u]
        /\ pc[u] \in {"sleeping", "notified"} => pc'[u] \in {"sleeping", "notified"}
    BY <1>2, LeaveSeen DEF Finishes
  <2>3. QED
    BY <2>1, <2>2 DEF Sees, Running
<1>3. Sees(t)'
  BY <1>1, LeaveSeen DEF Finishes, Sees, Running, Awaits, AtTheDriver, Nowhere, Claiming,
       Reserving
<1>4. QED
  BY <1>1, <1>2, <1>3, LeaveSeen DEF AtTheGate, Finishes

(* A task that comes to the gate, is let in or goes back to sleep. *)
FirstAwaits == {"stopping", "rebuilding", "begin"}

LEMMA ArriveSeen ==
    ASSUME AtTheGate, NEW t \in Tasks, Arrive(t)
    PROVE  AtTheGate' /\ Gate!Enter(t)
<1> PICK r \in Programs[t] :
         \/ /\ Gate!EnterAtOnce(t, r.mode)
            /\ job' = [job EXCEPT ![t].prog = r, ![t].at = FirstAwait(r)]
         \/ /\ Gate!EnterAndWait(t, r.mode)
            /\ job' = [job EXCEPT ![t].prog = r, ![t].at = "gate"]
  BY DEF Arrive
<1>1. JobShape /\ r.mode \in Gate!Kinds
  BY OfferedModes DEF AtTheGate
<1>2. FirstAwait(r) \in FirstAwaits
  BY DEF FirstAwait, FirstAwaits
<1>3. CASE /\ Gate!EnterAtOnce(t, r.mode)
           /\ job' = [job EXCEPT ![t].prog = r, ![t].at = FirstAwait(r)]
  <2>1. /\ JobShape' /\ \A u \in Tasks \ {t} : job'[u] = job[u]
        /\ job'[t].at \in FirstAwaits /\ job'[t].prog = r
    <3>1. Moves(t, Job(r, job[t].step, FirstAwait(r), job[t].page, job[t].target, job[t].todo))
      BY <1>1, <1>3, ProgAndAt
    <3>2. QED
      BY <1>2, <3>1, MovedFields
  <2>2. /\ pc' \in [Tasks -> Gate!Places] /\ pc'[t] = "inside"
        /\ \A u \in Tasks \ {t} :
              /\ pc[u] \in {"inside", "outside"} => pc'[u] = pc[u]
              /\ pc[u] \in {"sleeping", "notified"} => pc'[u] \in {"sleeping", "notified"}
    BY <1>3, AdmitSeen DEF Gate!EnterAtOnce
  <2>3. /\ kind' \in [Tasks -> Gate!Kinds] /\ kind'[t] = r.mode
        /\ \A u \in Tasks \ {t} : kind'[u] = kind[u]
    BY <1>1, <1>3 DEF Gate!EnterAtOnce, AtTheGate
  <2>4. Sees(t)'
    BY <2>1, <2>2, <2>3
       DEF Sees, Running, FirstAwaits, Awaits, AtTheDriver, Nowhere, Claiming, Reserving
  <2>5. ASSUME NEW u \in Tasks, u # t PROVE Sees(u)'
    BY <2>1, <2>2, <2>3, <2>5 DEF AtTheGate, Sees, Running
  <2>6. QED
    BY <1>1, <1>3, <2>1, <2>2, <2>3, <2>4, <2>5 DEF AtTheGate, Gate!Enter
<1>4. CASE /\ Gate!EnterAndWait(t, r.mode)
           /\ job' = [job EXCEPT ![t].prog = r, ![t].at = "gate"]
  <2>1. /\ JobShape' /\ \A u \in Tasks \ {t} : job'[u] = job[u]
        /\ job'[t].at = "gate" /\ job'[t].prog = r
    <3>1. Moves(t, Job(r, job[t].step, "gate", job[t].page, job[t].target, job[t].todo))
      BY <1>1, <1>4, ProgAndAt
    <3>2. QED
      BY <3>1, MovedFields
  <2>2. /\ pc' \in [Tasks -> Gate!Places] /\ pc'[t] = "sleeping"
        /\ \A u \in Tasks \ {t} : pc'[u] = pc[u]
    BY <1>4 DEF Gate!EnterAndWait, AtTheGate, Gate!Places
  <2>3. /\ kind' \in [Tasks -> Gate!Kinds] /\ kind'[t] = r.mode
        /\ \A u \in Tasks \ {t} : kind'[u] = kind[u]
    BY <1>1, <1>4 DEF Gate!EnterAndWait, AtTheGate
  <2>4. Sees(t)'
    BY <2>1, <2>2, <2>3 DEF Sees, Running, Awaits, AtTheDriver, Nowhere, Claiming, Reserving
  <2>5. ASSUME NEW u \in Tasks, u # t PROVE Sees(u)'
    BY <2>1, <2>2, <2>3, <2>5 DEF AtTheGate, Sees, Running
  <2>6. QED
    BY <1>1, <1>4, <2>1, <2>2, <2>3, <2>4, <2>5 DEF AtTheGate, Gate!Enter
<1>5. QED
  BY <1>3, <1>4

LEMMA LeaveQueueSeen ==
    ASSUME AtTheGate, NEW t \in Tasks, LeaveQueue(t)
    PROVE  AtTheGate'
<1>1. FirstAwait(job[t].prog) \in FirstAwaits
  BY DEF FirstAwait, FirstAwaits
<1>2. /\ JobShape' /\ \A u \in Tasks \ {t} : job'[u] = job[u]
      /\ job'[t].at \in FirstAwaits /\ job'[t].prog = job[t].prog
  <2>1. Moves(t, Job(job[t].prog, job[t].step, FirstAwait(job[t].prog), job[t].page,
                     job[t].target, job[t].todo))
    BY AtOnly DEF AtTheGate, LeaveQueue
  <2>2. QED
    BY <1>1, <2>1, MovedFields
<1>3. /\ pc' \in [Tasks -> Gate!Places] /\ pc'[t] = "inside"
      /\ \A u \in Tasks \ {t} :
            /\ pc[u] \in {"inside", "outside"} => pc'[u] = pc[u]
            /\ pc[u] \in {"sleeping", "notified"} => pc'[u] \in {"sleeping", "notified"}
      /\ kind' = kind /\ pc[t] = "notified"
  BY AdmitSeen DEF LeaveQueue, Gate!WakeAndEnter
<1>4. kind[t] = job[t].prog.mode
  BY <1>3 DEF AtTheGate, Sees, Running, Awaits, AtTheDriver, Nowhere, Claiming, Reserving
<1>5. Sees(t)'
  BY <1>2, <1>3, <1>4 DEF Sees, Running, FirstAwaits, Awaits, AtTheDriver, Nowhere, Claiming,
       Reserving
<1>6. ASSUME NEW u \in Tasks, u # t PROVE Sees(u)'
  BY <1>2, <1>3, <1>6 DEF AtTheGate, Sees, Running
<1>7. QED
  BY <1>2, <1>3, <1>5, <1>6 DEF AtTheGate

LEMMA StayQueuedSeen ==
    ASSUME AtTheGate, NEW t \in Tasks, StayQueued(t)
    PROVE  AtTheGate'
<1>1. /\ job' = job /\ kind' = kind
      /\ pc' \in [Tasks -> Gate!Places]
      /\ pc[t] = "notified" /\ pc'[t] = "sleeping"
      /\ \A u \in Tasks \ {t} : pc'[u] = pc[u]
  BY DEF StayQueued, Gate!WakeAndSleep, AtTheGate, Gate!Places
<1>2. ASSUME NEW u \in Tasks PROVE Sees(u)'
  BY <1>1 DEF AtTheGate, Sees, Running
<1>3. QED
  BY <1>1, <1>2 DEF AtTheGate, JobShape

(* Every step of the handlers is a step of the gate, or one that the gate    *)
(* does not see.                                                             *)
LEMMA StepAtTheGate ==
    ASSUME AtTheGate, [Next]_vars
    PROVE  AtTheGate' /\ [Gate!Next]_(Gate!vars)
<1>1. ASSUME NEW t \in Tasks, Arrive(t)
      PROVE  AtTheGate' /\ [Gate!Next]_(Gate!vars)
  BY <1>1, ArriveSeen DEF Gate!Next
<1>2. ASSUME NEW t \in Tasks, LeaveQueue(t)
      PROVE  AtTheGate' /\ [Gate!Next]_(Gate!vars)
  BY <1>2, LeaveQueueSeen DEF LeaveQueue, Gate!Next, Gate!Wake
<1>3. ASSUME NEW t \in Tasks, StayQueued(t)
      PROVE  AtTheGate' /\ [Gate!Next]_(Gate!vars)
  BY <1>3, StayQueuedSeen DEF StayQueued, Gate!Next, Gate!Wake
<1>4. ASSUME NEW t \in Tasks, Continues(t)
      PROVE  AtTheGate' /\ [Gate!Next]_(Gate!vars)
  BY <1>4, ContinuesSeen DEF Continues, gateVars, Gate!vars
<1>5. ASSUME NEW t \in Tasks, Finishes(t)
      PROVE  AtTheGate' /\ [Gate!Next]_(Gate!vars)
  BY <1>5, FinishesSeen DEF Finishes, Gate!Next
<1>6. ASSUME UNCHANGED <<gateVars, job>>
      PROVE  AtTheGate' /\ [Gate!Next]_(Gate!vars)
  <2>1. pc' = pc /\ kind' = kind /\ job' = job
    BY <1>6 DEF gateVars
  <2>2. AtTheGate'
    BY <2>1 DEF AtTheGate, JobShape, Sees, Running
  <2>3. QED
    BY <1>6, <2>2 DEF gateVars, Gate!vars
<1>7. CASE Next
  <2> PICK t \in Tasks :
          \/ Arrive(t) \/ LeaveQueue(t) \/ StayQueued(t)
          \/ Starts(t) \/ Ends(t)
          \/ PageAppears(t) \/ PageDestroyed(t)
          \/ MeetsCancel(t) \/ SwallowsCancel(t)
    BY <1>7 DEF Next
  <2>1. JobShape
    BY DEF AtTheGate
  <2>2. SwallowsCancel(t) => UNCHANGED <<gateVars, job>>
    BY DEF SwallowsCancel
  <2>3. QED
    BY <1>1, <1>2, <1>3, <1>4, <1>5, <1>6, <2>1, <2>2,
       StartsStay, EndsStay, BrowserStays, CancelledFinishes
<1>8. CASE UNCHANGED vars
  BY <1>6, <1>8 DEF vars, gateVars
<1>9. QED
  BY <1>7, <1>8

LEMMA AlwaysAtTheGate == Spec => []AtTheGate
BY InitAtTheGate, StepAtTheGate, PTL DEF Spec

(* The requests of the daemon, whatever their commands do, use the gate as   *)
(* its specification says: no handler enters twice, leaves without having    *)
(* entered, or changes the kind of its request on the way.                   *)
THEOREM CommandsUseTheGate == Spec => Gate!Spec
<1>1. Init => Gate!Init
  BY DEF Init
<1>2. QED
  BY <1>1, StepAtTheGate, AlwaysAtTheGate, PTL DEF Spec, Gate!Spec

(* ... and so its isolation holds of them. *)
LEMMA SameGate ==
    /\ Gate!Spec <=> GateProofs!Spec
    /\ [](Gate!ExclusiveIsolation <=> GateProofs!ExclusiveIsolation)
<1>1. Gate!Init <=> GateProofs!Init
  BY DEF Gate!Init, GateProofs!Init
<1>3. Gate!Next <=> GateProofs!Next
  BY DEF Gate!Next, GateProofs!Next, Gate!Enter, GateProofs!Enter, Gate!Wake, GateProofs!Wake,
     Gate!EnterAtOnce, GateProofs!EnterAtOnce, Gate!EnterAndWait, GateProofs!EnterAndWait,
     Gate!WakeAndEnter, GateProofs!WakeAndEnter, Gate!WakeAndSleep, GateProofs!WakeAndSleep,
     Gate!CancelQueued, GateProofs!CancelQueued, Gate!Leave, GateProofs!Leave,
     Gate!Admit, GateProofs!Admit, Gate!MayEnter, GateProofs!MayEnter,
     Gate!NotifyAll, GateProofs!NotifyAll, Gate!Queued, GateProofs!Queued,
     Gate!Kinds, GateProofs!Kinds, Gate!Exclusives, GateProofs!Exclusives,
     Gate!Shared, GateProofs!Shared
<1>4. Gate!ExclusiveIsolation <=> GateProofs!ExclusiveIsolation
  BY DEF Gate!ExclusiveIsolation, GateProofs!ExclusiveIsolation, Gate!Inside, GateProofs!Inside,
     Gate!Exclusives, GateProofs!Exclusives
<1>5. [Gate!Next]_(Gate!vars) <=> [GateProofs!Next]_(GateProofs!vars)
  BY <1>3 DEF Gate!vars, GateProofs!vars
<1>6. QED
  BY <1>1, <1>4, <1>5, PTL DEF Gate!Spec, GateProofs!Spec

LEMMA AlwaysIsolated == Spec => []Gate!ExclusiveIsolation
<1>1. GateProofs!GateAssumption
  BY CommandAssumption DEF GateProofs!GateAssumption, IsFiniteSet, GateProofs!IsFiniteSet,
     GateProofs!Kinds, GateProofs!Shared, GateProofs!Exclusives, Modes
<1>2. GateProofs!Spec => []GateProofs!ExclusiveIsolation
  BY <1>1, GateProofs!Isolation
<1>3. QED
  BY <1>2, CommandsUseTheGate, SameGate, PTL

(* Two running tasks, one of them a batch: the other one is page cleanup.    *)
LEMMA BesideABatch ==
    ASSUME AtTheGate, Gate!ExclusiveIsolation, NEW t \in Tasks, NEW u \in Tasks,
           t # u, Running(t), Running(u), job[t].prog.mode = "batch"
    PROVE  job[u].prog.mode = "cleanup"
<1>1. /\ pc[t] = "inside" /\ pc[u] = "inside"
      /\ kind[t] = "batch" /\ kind[u] = job[u].prog.mode
  BY DEF AtTheGate, Sees, Running
<1>2. t \in Gate!Inside /\ u \in Gate!Inside /\ kind[t] \in Gate!Exclusives
  BY <1>1 DEF Gate!Inside, Gate!Exclusives
<1>3. QED
  BY <1>1, <1>2 DEF Gate!ExclusiveIsolation

(* Whoever changes the registry is a task that runs a command. *)
LEMMA RegistryChangesByCommands ==
    ASSUME AtTheGate, Next, reg' # reg, NEW u \in Tasks, job'[u] # job[u]
    PROVE  Running(u)
<1> PICK t \in Tasks :
        \/ Arrive(t) \/ LeaveQueue(t) \/ StayQueued(t)
        \/ Starts(t) \/ Ends(t)
        \/ PageAppears(t) \/ PageDestroyed(t)
        \/ MeetsCancel(t) \/ SwallowsCancel(t)
  BY DEF Next
<1>1. Starts(t) \/ Ends(t) \/ MeetsCancel(t)
  BY DEF Arrive, LeaveQueue, StayQueued, PageAppears, PageDestroyed, SwallowsCancel
<1>2. Continues(t) \/ Finishes(t)
  BY <1>1, StartsStay, EndsStay, CancelledFinishes DEF AtTheGate
<1>3. Running(t) /\ \A v \in Tasks \ {t} : job'[v] = job[v]
  BY <1>2 DEF Continues, Finishes, Moves
<1>4. QED
  BY <1>3

(* While a batch is under way only page cleanup touches the registry, for    *)
(* any number of tasks, agents and pages.                                    *)
THEOREM BatchesUndisturbed == Spec => BatchUndisturbed
<1> DEFINE Undisturbed ==
        \A t, u \in Tasks :
           (t # u /\ Running(t) /\ job[t].prog.mode = "batch" /\ job'[u] # job[u] /\ reg' # reg)
               => Running(u) /\ job[u].prog.mode = "cleanup"
<1>1. AtTheGate /\ Gate!ExclusiveIsolation /\ [Next]_vars => [Undisturbed]_vars
  BY RegistryChangesByCommands, BesideABatch
<1>2. QED
  BY <1>1, AlwaysAtTheGate, AlwaysIsolated, PTL DEF Spec, BatchUndisturbed

-----------------------------------------------------------------------------
(* The registry: what its methods do to the tabs and to the claims. *)
IsReg(r) ==
    r = [tabs |-> r.tabs, active |-> r.active, claims |-> r.claims,
         used |-> r.used, made |-> r.made]

(* The active pages and the two orders stay as they are. *)
SameOrders(r, s) == s.active = r.active /\ s.used = r.used /\ s.made = r.made

(* What the methods do to the tabs and to the claims. *)
TabsAdded(f, p, a) ==
    [q \in DOMAIN f \cup {p} |->
        IF q = p THEN [owner |-> a, busy |-> None, closing |-> None] ELSE f[q]]
TabsBusy(f, p, id) == [f EXCEPT ![p].busy = id]
TabsIdle(f, p, id) ==
    IF p \in DOMAIN f /\ f[p].busy = id THEN [f EXCEPT ![p].busy = None] ELSE f
TabsClosing(f, p, id) == [f EXCEPT ![p].closing = id]
TabsOpen(f, p, id) ==
    IF p \in DOMAIN f /\ f[p].closing = id THEN [f EXCEPT ![p].closing = None] ELSE f
Activated(f, a, p) == [f EXCEPT ![a] = p]
TabsWithout(f, p) == [q \in DOMAIN f \ {p} |-> f[q]]
Claimed(g, p, id, t) ==
    [c \in DOMAIN g \cup {<<p, id>>} |-> IF c = <<p, id>> THEN t ELSE g[c]]
Unclaimed(g, p, id) == [c \in DOMAIN g \ {<<p, id>>} |-> g[c]]

LEMMA TouchKeeps ==
    ASSUME NEW r, IsReg(r), NEW p
    PROVE  LET s == Touch(r, p)
           IN  /\ IsReg(s) /\ s.tabs = r.tabs /\ s.claims = r.claims
               /\ s.active = r.active /\ s.made = r.made
               /\ s.used = Append(Without(r.used, p), p)
<1> DEFINE u == Append(Without(r.used, p), p)
           s1 == [r EXCEPT !.used = u]
<1>1. Touch(r, p) = s1
  BY DEF Touch
<1> HIDE DEF u
<1>2. /\ IsReg(s1) /\ s1.tabs = r.tabs /\ s1.claims = r.claims
      /\ s1.active = r.active /\ s1.made = r.made /\ s1.used = u
  BY DEF IsReg
<1>3. QED
  BY <1>1, <1>2 DEF u

LEMMA AddTabDoes ==
    ASSUME NEW r, IsReg(r), NEW a, NEW p
    PROVE  LET s == AddTab(r, a, p)
           IN  /\ IsReg(s) /\ s.claims = r.claims
               /\ s.tabs = TabsAdded(r.tabs, p, a)
               /\ s.active = Activated(r.active, a, p)
               /\ s.used = Append(Without(r.used, p), p)
               /\ s.made = Append(Without(r.made, p), p)
<1> DEFINE tb == [q \in DOMAIN r.tabs \cup {p} |->
                     IF q = p THEN [owner |-> a, busy |-> None, closing |-> None]
                              ELSE r.tabs[q]]
           us == Append(Without(r.used, p), p)
           md == Append(Without(r.made, p), p)
           s0 == Touch(r, p)
           s1 == [s0 EXCEPT !.tabs = tb]
           s2 == [s1 EXCEPT !.made = Append(Without(s0.made, p), p)]
           s3 == [s2 EXCEPT !.active[a] = p]
<1>1. /\ IsReg(s0) /\ s0.tabs = r.tabs /\ s0.claims = r.claims
      /\ s0.active = r.active /\ s0.made = r.made /\ s0.used = us
  BY TouchKeeps
<1>2. AddTab(r, a, p) = s3
  BY <1>1 DEF AddTab
<1>0. Append(Without(s0.made, p), p) = md
  BY <1>1
<1> HIDE DEF tb, us, md, s0
<1>3. /\ IsReg(s1) /\ s1.tabs = tb /\ s1.claims = r.claims
      /\ s1.active = r.active /\ s1.made = r.made /\ s1.used = us
  BY <1>1 DEF IsReg
<1> HIDE DEF s1
<1>4. /\ IsReg(s2) /\ s2.tabs = tb /\ s2.claims = r.claims
      /\ s2.active = r.active /\ s2.made = md /\ s2.used = us
  BY <1>0, <1>3 DEF IsReg
<1> HIDE DEF s2
<1>5. /\ IsReg(s3) /\ s3.tabs = tb /\ s3.claims = r.claims
      /\ s3.active = [r.active EXCEPT ![a] = p] /\ s3.made = md /\ s3.used = us
  BY <1>4 DEF IsReg
<1>6. QED
  BY <1>2, <1>5 DEF tb, us, md, TabsAdded, Activated

LEMMA SetActiveKeeps ==
    ASSUME NEW r, IsReg(r), NEW a, NEW p
    PROVE  LET s == SetActiveTab(r, a, p)
           IN  /\ IsReg(s) /\ s.tabs = r.tabs /\ s.claims = r.claims
               /\ s.active = Activated(r.active, a, p) /\ s.made = r.made
               /\ s.used = Append(Without(r.used, p), p)
<1> DEFINE s0 == Touch(r, p)
           s1 == [s0 EXCEPT !.active[a] = p]
           us == Append(Without(r.used, p), p)
<1>1. /\ IsReg(s0) /\ s0.tabs = r.tabs /\ s0.claims = r.claims
      /\ s0.active = r.active /\ s0.made = r.made /\ s0.used = us
  BY TouchKeeps
<1>2. SetActiveTab(r, a, p) = s1
  BY DEF SetActiveTab
<1> HIDE DEF s0, us
<1>3. /\ IsReg(s1) /\ s1.tabs = r.tabs /\ s1.claims = r.claims
      /\ s1.active = [r.active EXCEPT ![a] = p] /\ s1.made = r.made /\ s1.used = us
  BY <1>1 DEF IsReg
<1>4. QED
  BY <1>2, <1>3 DEF us, Activated

LEMMA ClaimPageDoes ==
    ASSUME NEW r, IsReg(r), NEW p, NEW id, NEW t
    PROVE  LET s == ClaimPage(r, p, id, t)
           IN  /\ IsReg(s)
               /\ s.tabs = TabsBusy(r.tabs, p, id)
               /\ s.claims = Claimed(r.claims, p, id, t)
               /\ s.active = r.active /\ s.made = r.made
               /\ s.used = Append(Without(r.used, p), p)
<1> DEFINE us == Append(Without(r.used, p), p)
           s0 == Touch(r, p)
           s1 == [s0 EXCEPT !.tabs[p].busy = id]
           s2 == [s1 EXCEPT !.claims = Claimed(r.claims, p, id, t)]
<1>1. /\ IsReg(s0) /\ s0.tabs = r.tabs /\ s0.claims = r.claims
      /\ s0.active = r.active /\ s0.made = r.made /\ s0.used = us
  BY TouchKeeps
<1> HIDE DEF s0, us
<1>2. /\ IsReg(s1) /\ s1.tabs = TabsBusy(r.tabs, p, id) /\ s1.claims = r.claims
      /\ s1.active = r.active /\ s1.made = r.made /\ s1.used = us
  BY <1>1 DEF IsReg, TabsBusy
<1>3. ClaimPage(r, p, id, t) = s2
  BY <1>2 DEF ClaimPage, Claimed, s0
<1> HIDE DEF s1
<1>4. /\ IsReg(s2) /\ s2.tabs = TabsBusy(r.tabs, p, id)
      /\ s2.claims = Claimed(r.claims, p, id, t)
      /\ s2.active = r.active /\ s2.made = r.made /\ s2.used = us
  BY <1>2 DEF IsReg
<1>5. QED
  BY <1>3, <1>4 DEF us

LEMMA ReleaseTabDoes ==
    ASSUME NEW r, IsReg(r), NEW p, NEW id
    PROVE  LET s == ReleaseTab(r, p, id)
           IN  /\ IsReg(s)
               /\ s.tabs = TabsIdle(r.tabs, p, id)
               /\ s.claims = Unclaimed(r.claims, p, id)
               /\ SameOrders(r, s)
<1> DEFINE s1 == [r EXCEPT !.claims = [c \in DOMAIN @ \ {<<p, id>>} |-> @[c]]]
           tb == IF Has(r, p) /\ r.tabs[p].busy = id
                 THEN [r.tabs EXCEPT ![p].busy = None] ELSE r.tabs
           s2 == [s1 EXCEPT !.tabs = tb]
<1>1. /\ IsReg(s1) /\ s1.tabs = r.tabs /\ SameOrders(r, s1)
      /\ s1.claims = [c \in DOMAIN r.claims \ {<<p, id>>} |-> r.claims[c]]
  BY DEF IsReg, SameOrders
<1>2. ReleaseTab(r, p, id) = s2
  BY <1>1 DEF ReleaseTab
<1> HIDE DEF s1, tb
<1>3. IsReg(s2) /\ s2.tabs = tb /\ s2.claims = s1.claims /\ SameOrders(r, s2)
  BY <1>1 DEF IsReg, SameOrders
<1>4. QED
  BY <1>1, <1>2, <1>3 DEF tb, TabsIdle, Unclaimed, Has

LEMMA BeginCloseDoes ==
    ASSUME NEW r, IsReg(r), NEW p, NEW id
    PROVE  LET s == BeginClose(r, p, id)
           IN  /\ IsReg(s) /\ s.claims = r.claims
               /\ s.tabs = TabsClosing(r.tabs, p, id) /\ SameOrders(r, s)
BY DEF BeginClose, IsReg, TabsClosing, SameOrders

LEMMA EndCloseDoes ==
    ASSUME NEW r, IsReg(r), NEW p, NEW id
    PROVE  LET s == EndClose(r, p, id)
           IN  /\ IsReg(s) /\ s.claims = r.claims
               /\ s.tabs = TabsOpen(r.tabs, p, id) /\ SameOrders(r, s)
BY DEF EndClose, IsReg, TabsOpen, Has, SameOrders

(* The page that becomes active when the agent's active one goes. *)
FallBack(r, a, p) ==
    LET left == Without(r.used, p)
        mine == {i \in DOMAIN left : r.tabs[left[i]].owner = a}
    IN  IF mine = {} THEN None ELSE left[Newest(mine)]
FellBack(r, a, p) == [r.active EXCEPT ![a] = IF @ # p THEN @ ELSE FallBack(r, a, p)]

LEMMA RemoveTabDoes ==
    ASSUME NEW r, IsReg(r), NEW a, NEW p
    PROVE  LET s == RemoveTab(r, a, p)
           IN  /\ IsReg(s) /\ s.claims = r.claims
               /\ s.tabs = TabsWithout(r.tabs, p)
               /\ s.active = FellBack(r, a, p)
               /\ s.used = Without(r.used, p) /\ s.made = Without(r.made, p)
<1> DEFINE left == Without(r.used, p)
           md == Without(r.made, p)
           tb == [q \in DOMAIN r.tabs \ {p} |-> r.tabs[q]]
           other == FallBack(r, a, p)
           s1 == [r EXCEPT !.tabs = tb]
           s2 == [s1 EXCEPT !.used = left]
           s3 == [s2 EXCEPT !.made = Without(@, p)]
           s4 == [s3 EXCEPT !.active[a] = IF @ # p THEN @ ELSE other]
<1>1. RemoveTab(r, a, p) = s4
  BY DEF RemoveTab, FallBack
<1>0. Without(r.made, p) = md
  OBVIOUS
<1> HIDE DEF left, md, tb, other
<1>2. IsReg(s1) /\ s1.tabs = tb /\ s1.claims = r.claims /\ SameOrders(r, s1)
  BY DEF IsReg, SameOrders
<1> HIDE DEF s1
<1>3. /\ IsReg(s2) /\ s2.tabs = tb /\ s2.claims = r.claims
      /\ s2.active = r.active /\ s2.made = r.made /\ s2.used = left
  BY <1>2 DEF IsReg, SameOrders
<1> HIDE DEF s2
<1>4. /\ IsReg(s3) /\ s3.tabs = tb /\ s3.claims = r.claims
      /\ s3.active = r.active /\ s3.made = md /\ s3.used = left
  BY <1>0, <1>3 DEF IsReg
<1> HIDE DEF s3
<1>5. /\ IsReg(s4) /\ s4.tabs = tb /\ s4.claims = r.claims
      /\ s4.active = [r.active EXCEPT ![a] = IF @ # p THEN @ ELSE other]
      /\ s4.made = md /\ s4.used = left
  BY <1>4 DEF IsReg
<1>6. QED
  BY <1>1, <1>5 DEF tb, left, md, other, TabsWithout, FellBack

LEMMA ClearTabsDoes ==
    ASSUME NEW r, IsReg(r)
    PROVE  LET s == ClearTabs(r)
           IN  /\ IsReg(s) /\ s.claims = r.claims /\ s.tabs = << >>
               /\ s.active = [a \in Agents |-> None] /\ s.used = << >> /\ s.made = << >>
BY DEF ClearTabs, EmptyRegistry, IsReg

-----------------------------------------------------------------------------
(* Claims and reservations.                                                  *)
Ids == Tasks \X Nat
TabType == [owner : Agents, busy : Ids \cup {None}, closing : Ids \cup {None}]

At(t, S) == job[t].at \in S
Tabs == DOMAIN reg.tabs
Holding == Claiming \cup Reserving \cup {"opened"}

Shapes ==
    /\ JobShape /\ IsReg(reg)
    /\ reg.tabs \in [Tabs -> TabType]
    /\ Tabs \subseteq born /\ alive \subseteq born
    /\ \A t \in Tasks : job[t].step \in Nat

(* A page that was opened and is not registered yet is nobody else's. *)
HeldPages ==
    /\ \A t \in Tasks : At(t, Holding) => job[t].page \in born
    /\ \A t \in Tasks : At(t, {"opened"}) =>
          /\ job[t].page \notin Tabs
          /\ \A u \in Tasks \ {t} : At(u, Holding) => job[u].page # job[t].page

(* A claim names its task, and is of a page of the agent of that task. *)
ClaimsOwn ==
    \A t \in Tasks : At(t, Claiming) =>
        /\ reg.claims[<<job[t].page, Id(t)>>] = t
        /\ job[t].page \in Tabs => reg.tabs[job[t].page].owner = AgentOf[t]

TargetsOwn ==
    \A t \in Tasks : At(t, Reserving) /\ job[t].target.task # None
        => AgentOf[job[t].target.task] = AgentOf[t]

DestroyedGone == \A t \in Tasks : At(t, {"destroyed"}) => job[t].page \notin alive

(* The parts of ClaimsExact. *)
ClaimsListed ==
    /\ \A t \in Tasks : At(t, Claiming) => <<job[t].page, Id(t)>> \in DOMAIN reg.claims
    /\ \A c \in DOMAIN reg.claims :
          \E t \in Tasks : At(t, Claiming) /\ c = <<job[t].page, Id(t)>>

BusyExact ==
    /\ \A p \in Tabs : reg.tabs[p].busy # None =>
          \E t \in Tasks : At(t, Claiming) /\ job[t].page = p /\ reg.tabs[p].busy = Id(t)
    /\ \A t \in Tasks : At(t, Claiming) /\ job[t].page \in Tabs
          => reg.tabs[job[t].page].busy = Id(t)

ClosingExact ==
    \A p \in Tabs : reg.tabs[p].closing # None =>
        \E t \in Tasks : At(t, Reserving) /\ job[t].page = p /\ reg.tabs[p].closing = Id(t)

ClaimInv ==
    /\ Shapes /\ HeldPages /\ ClaimsOwn /\ TargetsOwn /\ DestroyedGone
    /\ ClaimsListed /\ BusyExact /\ ClosingExact

LEMMA IdsAreIds ==
    ASSUME Shapes, NEW t \in Tasks
    PROVE  Id(t) \in Ids /\ Id(t) # None
BY CommandAssumption DEF Shapes, Id, Ids

(* The step is that of t, which holds nothing afterwards. *)
Frees(t) ==
    /\ JobShape' /\ \A u \in Tasks \ {t} : job'[u] = job[u]
    /\ ~At(t, Holding)' /\ job'[t].step \in Nat

SameClaims == IsReg(reg') /\ reg'.tabs = reg.tabs /\ reg'.claims = reg.claims

(* A step that neither takes nor gives back anything. *)
LEMMA NothingHeld ==
    ASSUME ClaimInv, NEW t \in Tasks, Frees(t), ~At(t, Claiming \cup Reserving),
           SameClaims, alive' \subseteq alive, born' = born
    PROVE  ClaimInv'
<1> USE DEF ClaimInv, Frees, SameClaims
<1>1. /\ \A u \in Tasks \ {t} : job'[u] = job[u] /\ Id(u)' = Id(u)
      /\ Tabs' = Tabs
  BY DEF Id, Tabs
<1>2. \A u \in Tasks : At(u, Holding)' => u # t /\ At(u, Holding)
  BY <1>1 DEF At
<1>3. Shapes'
  BY <1>1 DEF Shapes, Tabs
<1>4. HeldPages'
  BY <1>1, <1>2 DEF HeldPages, At, Holding
<1>5. ClaimsOwn'
  BY <1>1, <1>2 DEF ClaimsOwn, At, Holding
<1>6. TargetsOwn'
  BY <1>1, <1>2 DEF TargetsOwn, At, Holding
<1>7. DestroyedGone'
  BY <1>1, <1>2 DEF DestroyedGone, At, Holding, Reserving
<1>8. ClaimsListed'
  BY <1>1, <1>2 DEF ClaimsListed, At, Holding
<1>9. BusyExact'
  BY <1>1, <1>2 DEF BusyExact, At, Holding
<1>10. ClosingExact'
  BY <1>1, <1>2 DEF ClosingExact, At, Holding
<1>11. QED
  BY <1>3, <1>4, <1>5, <1>6, <1>7, <1>8, <1>9, <1>10

SameId == \A t, u \in Tasks : Id(t) = Id(u) => t = u

LEMMA IdsDiffer == SameId
BY DEF SameId, Id

(* claim_page and claim_active_tab grant a page that nobody works on. *)
LEMMA MayClaimMeans ==
    ASSUME ClaimInv, NEW t \in Tasks, ~At(t, Claiming \cup Reserving), NEW a, NEW p,
           MayClaim(reg, a, p, Id(t))
    PROVE  /\ p \in Tabs /\ reg.tabs[p].owner = a
           /\ reg.tabs[p].busy = None /\ reg.tabs[p].closing = None
<1>1. p \in Tabs /\ reg.tabs[p].owner = a /\ Blocker(reg, p) \in {None, Id(t)}
  BY DEF MayClaim, Owns, Has, Tabs
<1>2. reg.tabs[p].closing = None
  BY <1>1, IdsDiffer DEF Blocker, ClaimInv, ClosingExact, SameId, At
<1>3. reg.tabs[p].busy = None
  BY <1>1, <1>2, IdsDiffer DEF Blocker, ClaimInv, BusyExact, SameId, At
<1>4. QED
  BY <1>1, <1>2, <1>3

LEMMA PageClaimed ==
    ASSUME ClaimInv, NEW t \in Tasks, ~At(t, Holding),
           NEW p \in Tabs, reg.tabs[p].owner = AgentOf[t], reg.tabs[p].busy = None,
           JobShape', \A u \in Tasks \ {t} : job'[u] = job[u],
           job'[t].at \in Claiming, job'[t].page = p, job'[t].step = job[t].step,
           IsReg(reg'), reg'.tabs = TabsBusy(reg.tabs, p, Id(t)),
           reg'.claims = Claimed(reg.claims, p, Id(t), t), UNCHANGED <<alive, born>>
    PROVE  ClaimInv'
<1> USE DEF ClaimInv
<1>1. /\ \A u \in Tasks : Id(u)' = Id(u)
      /\ \A u \in Tasks : At(u, Holding)' => u = t \/ (At(u, Holding) /\ job'[u] = job[u])
      /\ At(t, Claiming)' /\ ~At(t, Reserving \cup {"opened"})'
  BY DEF Id, At, Holding, Claiming, Reserving
<1>2. Id(t) \in Ids /\ Id(t) # None
  BY IdsAreIds
<1>3. /\ Tabs' = Tabs
      /\ reg'.tabs \in [Tabs -> TabType]
      /\ reg'.tabs[p].busy = Id(t)
      /\ reg'.tabs[p].owner = reg.tabs[p].owner /\ reg'.tabs[p].closing = reg.tabs[p].closing
      /\ \A q \in Tabs \ {p} : reg'.tabs[q] = reg.tabs[q]
  BY <1>2 DEF Tabs, Shapes, TabType, TabsBusy
<1>4. /\ DOMAIN reg'.claims = DOMAIN reg.claims \cup {<<p, Id(t)>>}
      /\ reg'.claims[<<p, Id(t)>>] = t
      /\ \A c \in DOMAIN reg.claims : c # <<p, Id(t)>> => reg'.claims[c] = reg.claims[c]
  BY DEF Claimed
<1>5. Shapes'
  BY <1>3 DEF Shapes, Tabs
<1>6. HeldPages'
  BY <1>1, <1>3 DEF HeldPages, At, Holding, Shapes
<1>7. ClaimsOwn'
  <2>1. SUFFICES ASSUME NEW u \in Tasks, At(u, Claiming)'
                 PROVE  /\ reg'.claims[<<job'[u].page, Id(u)>>] = u
                        /\ job'[u].page \in Tabs => reg'.tabs[job'[u].page].owner = AgentOf[u]
    BY <1>1, <1>3 DEF ClaimsOwn
  <2>2. CASE u = t
    BY <1>3, <1>4, <2>2
  <2>3. CASE u # t
    <3>1. At(u, Claiming) /\ job'[u] = job[u]
      BY <2>1, <2>3 DEF At
    <3>2. Id(u) # Id(t)
      BY <2>3, IdsDiffer DEF SameId
    <3>3. <<job[u].page, Id(u)>> \in DOMAIN reg.claims /\ <<job[u].page, Id(u)>> # <<p, Id(t)>>
      BY <3>1, <3>2 DEF ClaimsListed
    <3>4. QED
      BY <1>3, <1>4, <3>1, <3>3 DEF ClaimsOwn
  <2>4. QED
    BY <2>2, <2>3
<1>8. TargetsOwn'
  BY <1>1 DEF TargetsOwn, At, Holding
<1>9. DestroyedGone'
  BY <1>1 DEF DestroyedGone, At, Holding, Reserving
<1>10. ClaimsListed'
  BY <1>1, <1>4 DEF ClaimsListed, At, Holding
<1>11. BusyExact'
  <2>1. ASSUME NEW q \in Tabs, reg'.tabs[q].busy # None
        PROVE  \E u \in Tasks : /\ At(u, Claiming)' /\ job'[u].page = q
                               /\ reg'.tabs[q].busy = Id(u)'
    <3>1. CASE q = p
      BY <1>1, <1>3, <3>1
    <3>2. CASE q # p
      <4>1. PICK u \in Tasks : At(u, Claiming) /\ job[u].page = q /\ reg.tabs[q].busy = Id(u)
        BY <1>3, <2>1, <3>2 DEF BusyExact
      <4>2. u # t
        BY <4>1 DEF At, Holding
      <4>3. QED
        BY <1>1, <1>3, <3>2, <4>1, <4>2 DEF At
    <3>3. QED
      BY <3>1, <3>2
  <2>2. ASSUME NEW u \in Tasks, At(u, Claiming)', job'[u].page \in Tabs
        PROVE  reg'.tabs[job'[u].page].busy = Id(u)'
    <3>1. CASE u = t
      BY <1>1, <1>3, <3>1
    <3>2. CASE u # t
      <4>1. At(u, Claiming) /\ job'[u] = job[u] /\ Id(u)' = Id(u)
        BY <1>1, <2>2, <3>2 DEF At
      <4>2. reg.tabs[job[u].page].busy = Id(u) /\ Id(u) # None
        BY <2>2, <4>1, IdsAreIds DEF BusyExact
      <4>3. job[u].page # p
        BY <4>2
      <4>4. QED
        BY <1>3, <2>2, <4>1, <4>2, <4>3
    <3>3. QED
      BY <3>1, <3>2
  <2>3. QED
    BY <1>3, <2>1, <2>2 DEF BusyExact
<1>12. ClosingExact'
  BY <1>1, <1>3 DEF ClosingExact, At, Holding
<1>13. QED
  BY <1>5, <1>6, <1>7, <1>8, <1>9, <1>10, <1>11, <1>12

(* The work on a claimed page goes on at another await. *)
LEMMA ClaimKept ==
    ASSUME ClaimInv, NEW t \in Tasks, At(t, Claiming), At(t, Claiming)',
           JobShape', \A u \in Tasks \ {t} : job'[u] = job[u],
           job'[t].page = job[t].page, job'[t].step = job[t].step,
           SameClaims, UNCHANGED <<alive, born>>
    PROVE  ClaimInv'
<1> USE DEF ClaimInv, SameClaims
<1>1. /\ \A u \in Tasks : job'[u].page = job[u].page /\ Id(u)' = Id(u)
      /\ \A u \in Tasks : At(u, Claiming)' = At(u, Claiming)
      /\ \A u \in Tasks : At(u, Reserving)' => At(u, Reserving) /\ job'[u] = job[u]
      /\ \A u \in Tasks : At(u, Reserving) => At(u, Reserving)'
      /\ \A u \in Tasks : At(u, {"opened"})' = At(u, {"opened"})
      /\ Tabs' = Tabs
  BY DEF Id, At, Claiming, Reserving, Tabs
<1>2. Shapes'
  BY <1>1 DEF Shapes, Tabs
<1>3. HeldPages'
  BY <1>1 DEF HeldPages, At, Holding
<1>4. ClaimsOwn'
  BY <1>1 DEF ClaimsOwn
<1>5. TargetsOwn'
  BY <1>1 DEF TargetsOwn
<1>6. DestroyedGone'
  BY <1>1 DEF DestroyedGone, At, Reserving
<1>7. ClaimsListed'
  BY <1>1 DEF ClaimsListed
<1>8. BusyExact'
  BY <1>1 DEF BusyExact
<1>9. ClosingExact'
  BY <1>1 DEF ClosingExact
<1>10. QED
  BY <1>2, <1>3, <1>4, <1>5, <1>6, <1>7, <1>8, <1>9

(* release_tab, when the command ends. *)
LEMMA PageReleased ==
    ASSUME ClaimInv, NEW t \in Tasks, At(t, Claiming), Frees(t),
           IsReg(reg'),
           reg'.tabs = TabsIdle(reg.tabs, job[t].page, Id(t)),
           reg'.claims = Unclaimed(reg.claims, job[t].page, Id(t)),
           UNCHANGED <<alive, born>>
    PROVE  ClaimInv'
<1> USE DEF ClaimInv, Frees
<1> DEFINE p == job[t].page
<1>1. /\ \A u \in Tasks \ {t} : job'[u] = job[u] /\ Id(u)' = Id(u)
      /\ \A u \in Tasks : At(u, Holding)' => u # t /\ At(u, Holding)
      /\ \A u \in Tasks : At(u, Reserving)' = At(u, Reserving)
  BY DEF Id, At, Holding, Claiming, Reserving
<1>2. p \in Tabs => reg.tabs[p].busy = Id(t)
  BY DEF BusyExact
<1>3. /\ Tabs' = Tabs
      /\ reg'.tabs \in [Tabs -> TabType]
      /\ p \in Tabs => reg'.tabs[p].busy = None
      /\ \A q \in Tabs : /\ reg'.tabs[q].owner = reg.tabs[q].owner
                         /\ reg'.tabs[q].closing = reg.tabs[q].closing
                         /\ q # p => reg'.tabs[q].busy = reg.tabs[q].busy
  <2>1. CASE p \in Tabs
    <3>1. reg'.tabs = [reg.tabs EXCEPT ![p].busy = None]
      BY <1>2, <2>1 DEF TabsIdle, Tabs
    <3>2. QED
      BY <2>1, <3>1, SMTT(30) DEF Tabs, Shapes, TabType
  <2>2. CASE p \notin Tabs
    <3>1. reg'.tabs = reg.tabs
      BY <2>2 DEF Tabs, TabsIdle
    <3>2. QED
      BY <2>2, <3>1 DEF Tabs, Shapes
  <2>3. QED
    BY <2>1, <2>2
<1>4. /\ DOMAIN reg'.claims = DOMAIN reg.claims \ {<<p, Id(t)>>}
      /\ \A c \in DOMAIN reg'.claims : reg'.claims[c] = reg.claims[c]
  BY DEF Unclaimed
<1>5. Shapes'
  BY <1>3 DEF Shapes, Tabs
<1>6. HeldPages'
  BY <1>1, <1>3 DEF HeldPages, At, Holding
<1>7. \A u \in Tasks \ {t} : At(u, Claiming) => <<job[u].page, Id(u)>> \in DOMAIN reg'.claims
  BY <1>4, IdsDiffer DEF ClaimsListed, SameId
<1>8. ClaimsOwn'
  BY <1>1, <1>3, <1>4, <1>7 DEF ClaimsOwn, At, Holding
<1>9. TargetsOwn'
  BY <1>1 DEF TargetsOwn, At, Holding
<1>10. DestroyedGone'
  BY <1>1 DEF DestroyedGone, At, Holding, Reserving
<1>11. ClaimsListed'
  <2>1. \A u \in Tasks : At(u, Claiming)' => <<job'[u].page, Id(u)'>> \in DOMAIN reg'.claims
    BY <1>1, <1>7 DEF At, Holding
  <2>2. ASSUME NEW c \in DOMAIN reg'.claims
        PROVE  \E u \in Tasks : At(u, Claiming)' /\ c = <<job'[u].page, Id(u)'>>
    <3>1. PICK u \in Tasks : At(u, Claiming) /\ c = <<job[u].page, Id(u)>>
      BY <1>4 DEF ClaimsListed
    <3>2. u # t
      BY <1>4, <3>1
    <3>3. QED
      BY <1>1, <3>1, <3>2 DEF At
  <2>3. QED
    BY <2>1, <2>2 DEF ClaimsListed
<1>12. BusyExact'
  <2>1. ASSUME NEW q \in Tabs, reg'.tabs[q].busy # None
        PROVE  \E u \in Tasks : /\ At(u, Claiming)' /\ job'[u].page = q
                               /\ reg'.tabs[q].busy = Id(u)'
    <3>1. q # p /\ reg'.tabs[q].busy = reg.tabs[q].busy
      BY <1>3, <2>1
    <3>2. PICK u \in Tasks : At(u, Claiming) /\ job[u].page = q /\ reg.tabs[q].busy = Id(u)
      BY <2>1, <3>1 DEF BusyExact
    <3>3. QED
      BY <1>1, <3>1, <3>2 DEF At
  <2>2. ASSUME NEW u \in Tasks, At(u, Claiming)', job'[u].page \in Tabs
        PROVE  reg'.tabs[job'[u].page].busy = Id(u)'
    <3>1. u # t /\ At(u, Claiming) /\ job'[u] = job[u] /\ Id(u)' = Id(u)
      BY <1>1, <2>2 DEF At, Holding
    <3>2. reg.tabs[job[u].page].busy = Id(u) /\ Id(u) # Id(t)
      BY <2>2, <3>1, IdsDiffer DEF BusyExact, SameId
    <3>3. job[u].page # p
      BY <1>2, <2>2, <3>1, <3>2
    <3>4. QED
      BY <1>3, <2>2, <3>1, <3>2, <3>3
  <2>3. QED
    BY <1>3, <2>1, <2>2 DEF BusyExact
<1>13. ClosingExact'
  BY <1>1, <1>3 DEF ClosingExact, At, Holding
<1>14. QED
  BY <1>5, <1>6, <1>8, <1>9, <1>10, <1>11, <1>12, <1>13

(* The page of an `open' exists, and nobody else has it. *)
LEMMA PageAppeared ==
    ASSUME ClaimInv, NEW t \in Tasks, ~At(t, Holding), NEW p, p \notin born,
           JobShape', \A u \in Tasks \ {t} : job'[u] = job[u],
           job'[t].at = "opened", job'[t].page = p, job'[t].step = job[t].step,
           reg' = reg, born' = born \cup {p}, alive' = alive \cup {p}
    PROVE  ClaimInv'
<1> USE DEF ClaimInv
<1>1. /\ \A u \in Tasks : Id(u)' = Id(u)
      /\ \A u \in Tasks : u # t => At(u, Holding)' = At(u, Holding)
      /\ \A u \in Tasks : At(u, Claiming \cup Reserving)' => u # t /\ job'[u] = job[u]
      /\ \A u \in Tasks : At(u, Claiming \cup Reserving) => u # t
      /\ Tabs' = Tabs
  BY DEF Id, At, Holding, Claiming, Reserving, Tabs
<1>2. Shapes'
  BY <1>1 DEF Shapes
<1>3. HeldPages'
  <2>1. \A u \in Tasks : u # t /\ At(u, Holding)' => job'[u].page \in born
    BY <1>1 DEF HeldPages, At
  <2>2. p \notin Tabs
    BY DEF Shapes
  <2>3. QED
    BY <1>1, <2>1, <2>2 DEF HeldPages, At, Holding
<1>4. ClaimsOwn'
  BY <1>1 DEF ClaimsOwn, At
<1>5. TargetsOwn'
  BY <1>1 DEF TargetsOwn, At
<1>6. DestroyedGone'
  BY <1>1 DEF DestroyedGone, HeldPages, At, Reserving, Holding
<1>7. ClaimsListed'
  BY <1>1 DEF ClaimsListed, At
<1>8. BusyExact'
  BY <1>1 DEF BusyExact, At
<1>9. ClosingExact'
  BY <1>1 DEF ClosingExact, At
<1>10. QED
  BY <1>2, <1>3, <1>4, <1>5, <1>6, <1>7, <1>8, <1>9

(* add_tab, when `open' is over. *)
LEMMA PageAdded ==
    ASSUME ClaimInv, NEW t \in Tasks, At(t, {"opened"}), Frees(t),
           AgentOf[t] \in Agents, IsReg(reg'),
           reg'.tabs = TabsAdded(reg.tabs, job[t].page, AgentOf[t]),
           reg'.claims = reg.claims, UNCHANGED <<alive, born>>
    PROVE  ClaimInv'
<1> USE DEF ClaimInv, Frees
<1> DEFINE p == job[t].page
<1>1. /\ \A u \in Tasks \ {t} : job'[u] = job[u] /\ Id(u)' = Id(u)
      /\ \A u \in Tasks : At(u, Holding)' => u # t /\ At(u, Holding)
      /\ \A u \in Tasks : At(u, Claiming \cup Reserving) => u # t
  BY DEF Id, At, Holding, Claiming, Reserving
<1>2. p \in born /\ p \notin Tabs /\ \A u \in Tasks \ {t} : At(u, Holding) => job[u].page # p
  BY DEF HeldPages, At, Holding
<1>3. /\ Tabs' = Tabs \cup {p}
      /\ reg'.tabs \in [Tabs' -> TabType]
      /\ reg'.tabs[p].busy = None /\ reg'.tabs[p].closing = None
      /\ \A q \in Tabs : reg'.tabs[q] = reg.tabs[q]
  BY <1>2 DEF Tabs, Shapes, TabType, TabsAdded
<1>4. Shapes'
  BY <1>2, <1>3 DEF Shapes
<1>5. HeldPages'
  BY <1>1, <1>2, <1>3 DEF HeldPages, At, Holding
<1>6. ClaimsOwn'
  BY <1>1, <1>2, <1>3 DEF ClaimsOwn, At, Holding
<1>7. TargetsOwn'
  BY <1>1 DEF TargetsOwn, At, Holding
<1>8. DestroyedGone'
  BY <1>1 DEF DestroyedGone, At, Holding, Reserving
<1>9. ClaimsListed'
  BY <1>1 DEF ClaimsListed, At, Holding
<1>10. BusyExact'
  BY <1>1, <1>2, <1>3 DEF BusyExact, At, Holding
<1>11. ClosingExact'
  BY <1>1, <1>3 DEF ClosingExact, At, Holding
<1>12. QED
  BY <1>4, <1>5, <1>6, <1>7, <1>8, <1>9, <1>10, <1>11

(* begin_close: the page is reserved, and whoever works on it is noted. *)
LEMMA PageReserved ==
    ASSUME ClaimInv, NEW t \in Tasks, ~At(t, Holding),
           NEW p \in Tabs, reg.tabs[p].owner = AgentOf[t],
           JobShape', \A u \in Tasks \ {t} : job'[u] = job[u],
           job'[t].at = "closing", job'[t].page = p, job'[t].step = job[t].step,
           job'[t].target = Claimant(reg, p),
           IsReg(reg'), reg'.tabs = TabsClosing(reg.tabs, p, Id(t)),
           reg'.claims = reg.claims, UNCHANGED <<alive, born>>
    PROVE  ClaimInv'
<1> USE DEF ClaimInv
<1>1. /\ \A u \in Tasks : Id(u)' = Id(u)
      /\ \A u \in Tasks : At(u, Holding)' => u = t \/ (At(u, Holding) /\ job'[u] = job[u])
      /\ At(t, Reserving)' /\ ~At(t, Claiming \cup {"opened", "destroyed"})'
      /\ \A u \in Tasks : At(u, Claiming) => u # t /\ At(u, Claiming)' /\ job'[u] = job[u]
      /\ \A u \in Tasks : At(u, Reserving) => u # t /\ At(u, Reserving)' /\ job'[u] = job[u]
  BY DEF Id, At, Holding, Claiming, Reserving
<1>2. Id(t) \in Ids
  BY IdsAreIds
<1>3. /\ Tabs' = Tabs
      /\ reg'.tabs \in [Tabs -> TabType]
      /\ reg'.tabs[p].closing = Id(t)
      /\ \A q \in Tabs : /\ reg'.tabs[q].owner = reg.tabs[q].owner
                         /\ reg'.tabs[q].busy = reg.tabs[q].busy
                         /\ q # p => reg'.tabs[q].closing = reg.tabs[q].closing
  BY <1>2 DEF Tabs, Shapes, TabType, TabsClosing
<1>4. Shapes'
  BY <1>3 DEF Shapes, Tabs
<1>5. HeldPages'
  BY <1>1, <1>3 DEF HeldPages, At, Holding, Shapes
<1>6. ClaimsOwn'
  BY <1>1, <1>3 DEF ClaimsOwn, At, Holding
<1>7. TargetsOwn'
  <2>1. job'[t].target.task # None => AgentOf[job'[t].target.task] = AgentOf[t]
    <3>1. /\ job'[t].target.task # None
             => /\ <<p, reg.tabs[p].busy>> \in DOMAIN reg.claims
                /\ job'[t].target.task = reg.claims[<<p, reg.tabs[p].busy>>]
      BY DEF Claimant
    <3>2. \A u \in Tasks : At(u, Claiming) /\ job[u].page = p
              => reg.claims[<<p, Id(u)>>] = u /\ AgentOf[u] = AgentOf[t]
      BY DEF ClaimsOwn
    <3>3. QED
      BY <3>1, <3>2 DEF ClaimsListed
  <2>2. QED
    BY <1>1, <2>1 DEF TargetsOwn, At, Holding
<1>8. DestroyedGone'
  BY <1>1 DEF DestroyedGone, At, Holding, Reserving
<1>9. ClaimsListed'
  BY <1>1 DEF ClaimsListed, At, Holding
<1>10. BusyExact'
  BY <1>1, <1>3 DEF BusyExact, At, Holding
<1>11. ClosingExact'
  BY <1>1, <1>3 DEF ClosingExact, At, Holding
<1>12. QED
  BY <1>4, <1>5, <1>6, <1>7, <1>8, <1>9, <1>10, <1>11

(* The browser destroys a reserved page. *)
LEMMA PageGone ==
    ASSUME ClaimInv, NEW t \in Tasks, At(t, Reserving),
           JobShape', \A u \in Tasks \ {t} : job'[u] = job[u],
           job'[t].at = "destroyed", job'[t].page = job[t].page, job'[t].step = job[t].step,
           job'[t].target = job[t].target,
           reg' = reg, born' = born, alive' = alive \ {job[t].page}
    PROVE  ClaimInv'
<1> USE DEF ClaimInv
<1>1. /\ \A u \in Tasks : /\ Id(u)' = Id(u) /\ job'[u].page = job[u].page
                          /\ job'[u].target = job[u].target
      /\ \A u \in Tasks : /\ At(u, Claiming)' = At(u, Claiming)
                          /\ At(u, Reserving)' = At(u, Reserving)
                          /\ At(u, {"opened"})' = At(u, {"opened"})
                          /\ u # t => At(u, {"destroyed"})' = At(u, {"destroyed"})
      /\ Tabs' = Tabs
  BY DEF Id, At, Claiming, Reserving, Tabs
<1>2. \A u \in Tasks : At(u, Holding)' = At(u, Holding)
  BY <1>1 DEF At, Holding
<1>3. Shapes' /\ HeldPages'
  BY <1>1, <1>2 DEF Shapes, HeldPages
<1>4. ClaimsOwn' /\ TargetsOwn' /\ ClaimsListed'
  BY <1>1 DEF ClaimsOwn, TargetsOwn, ClaimsListed
<1>5. DestroyedGone'
  BY <1>1 DEF DestroyedGone
<1>6. BusyExact' /\ ClosingExact'
  BY <1>1 DEF BusyExact, ClosingExact
<1>7. QED
  BY <1>3, <1>4, <1>5, <1>6

(* end_close: the reservation is taken back. *)
LEMMA PageUnreserved ==
    ASSUME ClaimInv, NEW t \in Tasks, At(t, Reserving), Frees(t),
           IsReg(reg'), reg'.claims = reg.claims,
           reg'.tabs = TabsOpen(reg.tabs, job[t].page, Id(t)),
           UNCHANGED <<alive, born>>
    PROVE  ClaimInv'
<1> USE DEF ClaimInv, Frees
<1> DEFINE p == job[t].page
<1>1. /\ \A u \in Tasks \ {t} : job'[u] = job[u] /\ Id(u)' = Id(u)
      /\ \A u \in Tasks : At(u, Holding)' => u # t /\ At(u, Holding)
      /\ \A u \in Tasks : At(u, Claiming)' = At(u, Claiming)
      /\ \A u \in Tasks : At(u, Claiming) => job'[u] = job[u] /\ Id(u)' = Id(u)
  BY DEF Id, At, Holding, Claiming, Reserving
<1>2. /\ Tabs' = Tabs
      /\ reg'.tabs \in [Tabs -> TabType]
      /\ \A q \in Tabs : /\ reg'.tabs[q].owner = reg.tabs[q].owner
                         /\ reg'.tabs[q].busy = reg.tabs[q].busy
                         /\ reg'.tabs[q].closing # None =>
                               /\ reg'.tabs[q].closing = reg.tabs[q].closing
                               /\ q = p => reg.tabs[q].closing # Id(t)
  <2>1. CASE p \in Tabs /\ reg.tabs[p].closing = Id(t)
    <3>1. reg'.tabs = [reg.tabs EXCEPT ![p].closing = None]
      BY <2>1 DEF Tabs, TabsOpen
    <3>2. QED
      BY <2>1, <3>1, SMTT(30) DEF Tabs, Shapes, TabType
  <2>2. CASE ~(p \in Tabs /\ reg.tabs[p].closing = Id(t))
    <3>1. reg'.tabs = reg.tabs
      BY <2>2 DEF Tabs, TabsOpen
    <3>2. QED
      BY <2>2, <3>1 DEF Tabs, Shapes
  <2>3. QED
    BY <2>1, <2>2
<1>3. Shapes'
  BY <1>2 DEF Shapes, Tabs
<1>4. HeldPages'
  BY <1>1, <1>2 DEF HeldPages, At, Holding
<1>5. ClaimsOwn'
  BY <1>1, <1>2 DEF ClaimsOwn, At, Holding
<1>6. TargetsOwn'
  BY <1>1 DEF TargetsOwn, At, Holding
<1>7. DestroyedGone'
  BY <1>1 DEF DestroyedGone, At, Holding, Reserving
<1>8. ClaimsListed'
  BY <1>1 DEF ClaimsListed, At, Holding
<1>9. BusyExact'
  BY <1>1, <1>2 DEF BusyExact
<1>10. ClosingExact'
  <2>1. SUFFICES ASSUME NEW q \in Tabs, reg'.tabs[q].closing # None
                 PROVE  \E u \in Tasks : /\ At(u, Reserving)' /\ job'[u].page = q
                                        /\ reg'.tabs[q].closing = Id(u)'
    BY <1>2 DEF ClosingExact
  <2>2. PICK u \in Tasks : At(u, Reserving) /\ job[u].page = q /\ reg.tabs[q].closing = Id(u)
    BY <1>2, <2>1 DEF ClosingExact
  <2>3. u # t
    BY <1>2, <2>1, <2>2
  <2>4. QED
    BY <1>1, <1>2, <2>1, <2>2, <2>3 DEF At
<1>11. QED
  BY <1>3, <1>4, <1>5, <1>6, <1>7, <1>8, <1>9, <1>10

(* remove_tab and clear: fewer tabs, the same claims. *)
LEMMA FewerTabs ==
    ASSUME ClaimInv, NEW t \in Tasks, ~At(t, Claiming), Frees(t),
           IsReg(reg'), reg'.claims = reg.claims, NEW S, S \subseteq Tabs,
           At(t, Reserving) => job[t].page \notin S,
           reg'.tabs = [q \in S |-> reg.tabs[q]],
           born' = born, alive' \subseteq alive
    PROVE  ClaimInv'
<1> USE DEF ClaimInv, Frees
<1>1. /\ \A u \in Tasks \ {t} : job'[u] = job[u] /\ Id(u)' = Id(u)
      /\ \A u \in Tasks : At(u, Holding)' => u # t /\ At(u, Holding)
      /\ \A u \in Tasks : At(u, Claiming) => u # t /\ At(u, Claiming)'
  BY DEF Id, At, Holding, Claiming, Reserving
<1>2. /\ Tabs' = S
      /\ reg'.tabs \in [S -> TabType]
      /\ \A q \in S : reg'.tabs[q] = reg.tabs[q]
  BY DEF Tabs, Shapes, TabType
<1>3. Shapes'
  BY <1>2 DEF Shapes, Tabs
<1>4. HeldPages'
  BY <1>1, <1>2 DEF HeldPages, At, Holding
<1>5. ClaimsOwn'
  BY <1>1, <1>2 DEF ClaimsOwn, At, Holding
<1>6. TargetsOwn'
  BY <1>1 DEF TargetsOwn, At, Holding
<1>7. DestroyedGone'
  BY <1>1 DEF DestroyedGone, At, Holding, Reserving
<1>8. ClaimsListed'
  BY <1>1 DEF ClaimsListed, At, Holding
<1>9. BusyExact'
  BY <1>1, <1>2 DEF BusyExact, At, Holding
<1>10. ClosingExact'
  BY <1>1, <1>2 DEF ClosingExact, At, Holding
<1>11. QED
  BY <1>3, <1>4, <1>5, <1>6, <1>7, <1>8, <1>9, <1>10

-----------------------------------------------------------------------------
(* The actions.                                                              *)
LEMMA AnswerFrees ==
    ASSUME Shapes, NEW t \in Tasks, NEW ok, Answer(t, ok)
    PROVE  Frees(t)
<1>1. JobShape /\ job[t].step \in Nat
  BY DEF Shapes
<1>2. CASE Moves(t, NextCommand(t))
  BY <1>1, <1>2, MovedFields DEF NextCommand, Frees, At, Holding, Claiming, Reserving
<1>3. CASE Moves(t, Done)
  BY <1>1, <1>3, MovedFields DEF Done, Frees, At, Holding, Claiming, Reserving
<1>4. QED
  BY <1>1, <1>2, <1>3, AnswerMoves

LEMMA UpdateKeeps ==
    ASSUME IsReg(reg), NEW p, NEW seen, NEW c \in BOOLEAN,
           seen = IF c THEN UpdateTab(reg, p) ELSE reg
    PROVE  IsReg(seen) /\ seen.tabs = reg.tabs /\ seen.claims = reg.claims
BY TouchKeeps DEF UpdateTab

(* end_close finds no reservation of this request. *)
LEMMA NothingToEnd ==
    ASSUME IsReg(reg), NEW p, NEW id, p \in Tabs => reg.tabs[p].closing # id,
           reg' = EndClose(reg, p, id)
    PROVE  SameClaims
<1>1. /\ IsReg(reg') /\ reg'.claims = reg.claims
      /\ reg'.tabs = TabsOpen(reg.tabs, p, id)
  BY EndCloseDoes
<1>2. TabsOpen(reg.tabs, p, id) = reg.tabs
  BY DEF TabsOpen, Tabs
<1>3. QED
  BY <1>1, <1>2 DEF SameClaims

(* The registry at the start. *)
FirstTabs == [p \in {PageAt(i) : i \in OpenedAt} |->
                 [owner |-> InitialTabs[CHOOSE i \in OpenedAt : PageAt(i) = p][1],
                  busy |-> None, closing |-> None]]
FirstActive == [a \in Agents |->
                   LET mine == {i \in OpenedAt : InitialTabs[i][1] = a}
                   IN  IF mine = {} THEN None ELSE PageAt(Newest(mine))]
FirstOrder == [i \in OpenedAt |-> PageAt(i)]

LEMMA InitialRegistryIs ==
    LET r == InitialRegistry
    IN  /\ IsReg(r) /\ r.tabs = FirstTabs /\ r.claims = << >>
        /\ r.active = FirstActive /\ r.used = FirstOrder /\ r.made = FirstOrder
<1> DEFINE r1 == [EmptyRegistry EXCEPT !.tabs = FirstTabs]
           r2 == [r1 EXCEPT !.active = FirstActive]
           r3 == [r2 EXCEPT !.used = FirstOrder]
           r4 == [r3 EXCEPT !.made = FirstOrder]
<1>1. InitialRegistry = r4
  BY DEF InitialRegistry, FirstTabs, FirstActive, FirstOrder
<1>2. IsReg(r1) /\ r1.tabs = FirstTabs /\ r1.claims = << >>
  BY DEF EmptyRegistry, IsReg
<1> HIDE DEF r1
<1>3. IsReg(r2) /\ r2.tabs = FirstTabs /\ r2.claims = << >> /\ r2.active = FirstActive
  BY <1>2 DEF IsReg
<1> HIDE DEF r2
<1>4. /\ IsReg(r3) /\ r3.tabs = FirstTabs /\ r3.claims = << >>
      /\ r3.active = FirstActive /\ r3.used = FirstOrder
  BY <1>3 DEF IsReg
<1> HIDE DEF r3
<1>5. /\ IsReg(r4) /\ r4.tabs = FirstTabs /\ r4.claims = << >>
      /\ r4.active = FirstActive /\ r4.used = FirstOrder /\ r4.made = FirstOrder
  BY <1>4 DEF IsReg
<1> HIDE DEF r4
<1>6. QED
  BY <1>1, <1>5

LEMMA InitClaims == Init => ClaimInv
<1> SUFFICES ASSUME Init PROVE ClaimInv
  OBVIOUS
<1>1. Idle = Job(None, 1, "idle", None, NoClaimant, << >>)
  BY DEF Idle, Job
<1>2. job = [t \in Tasks |-> Idle] /\ \A t \in Tasks : job[t] = Idle
  BY DEF Init
<1>3. JobShape /\ \A t \in Tasks : job[t].at = "idle" /\ job[t].step = 1
  BY <1>1, <1>2, JobFields DEF JobShape
<1>4. \A t \in Tasks : ~At(t, Holding) /\ ~At(t, Claiming) /\ ~At(t, Reserving)
                       /\ ~At(t, {"opened"}) /\ ~At(t, {"destroyed"})
  BY <1>3 DEF At, Holding, Claiming, Reserving
<1> DEFINE tb == FirstTabs
<1>5. /\ IsReg(reg) /\ reg.tabs = tb /\ reg.claims = << >>
       /\ Tabs = {PageAt(i) : i \in OpenedAt}
  <2>1. IsReg(reg) /\ reg.tabs = tb /\ reg.claims = << >>
    BY InitialRegistryIs DEF Init
  <2>2. QED
    BY <2>1 DEF Tabs, FirstTabs
<1> HIDE DEF tb
<1>6. ASSUME NEW p \in Tabs PROVE tb[p] \in TabType /\ tb[p].busy = None /\ tb[p].closing = None
  <2>1. PICK i \in OpenedAt : PageAt(i) = p
    BY <1>5
  <2> DEFINE k == CHOOSE j \in OpenedAt : PageAt(j) = p
  <2>2. k \in OpenedAt
    BY <2>1
  <2>3. InitialTabs[k] \in Agents \X Pages
    BY <2>2, CommandAssumption DEF OpenedAt
  <2>4. InitialTabs[k][1] \in Agents
    BY <2>3
  <2>5. tb[p] = [owner |-> InitialTabs[k][1], busy |-> None, closing |-> None]
    BY <1>5 DEF tb, FirstTabs
  <2> HIDE DEF k
  <2>6. QED
    BY <2>4, <2>5 DEF TabType
<1>7. tb \in [Tabs -> TabType]
  BY <1>5, <1>6 DEF tb, FirstTabs
<1>8. alive = Tabs /\ born = Tabs
  BY <1>5 DEF Init
<1>9. Shapes
  BY <1>3, <1>5, <1>7, <1>8 DEF Shapes
<1>10. HeldPages /\ ClaimsOwn /\ TargetsOwn /\ DestroyedGone
  BY <1>4 DEF HeldPages, ClaimsOwn, TargetsOwn, DestroyedGone
<1>11. ClaimsListed
  BY <1>4, <1>5 DEF ClaimsListed
<1>12. BusyExact /\ ClosingExact
  BY <1>4, <1>5, <1>6 DEF BusyExact, ClosingExact
<1>13. QED
  BY <1>9, <1>10, <1>11, <1>12 DEF ClaimInv

LEMMA UnchangedClaims ==
    ASSUME ClaimInv, UNCHANGED <<job, reg, alive, born>>
    PROVE  ClaimInv'
<1>1. \A t \in Tasks : Id(t)' = Id(t)
  BY DEF Id
<1>2. QED
  BY <1>1 DEF ClaimInv, Shapes, JobShape, HeldPages, ClaimsOwn, TargetsOwn, DestroyedGone,
     ClaimsListed, BusyExact, ClosingExact, At, Tabs

(* The steps at the gate, and those of commands that hold nothing. *)
LEMMA ArrivalFrees ==
    ASSUME Shapes, AtTheGate, NEW t \in Tasks, Arrive(t) \/ LeaveQueue(t)
    PROVE  /\ Frees(t) /\ ~At(t, Claiming \cup Reserving)
           /\ UNCHANGED <<reg, alive, born, asked>>
<1>1. JobShape /\ job[t].step \in Nat
  BY DEF Shapes
<1>2. \A r : FirstAwait(r) \in FirstAwaits
  BY DEF FirstAwait, FirstAwaits
<1>3. /\ ~At(t, Claiming \cup Reserving)
      /\ UNCHANGED <<reg, alive, born, asked>>
      /\ \/ \E r, a : /\ job' = [job EXCEPT ![t].prog = r, ![t].at = a]
                      /\ a \in FirstAwaits \cup {"gate"}
         \/ \E a : job' = [job EXCEPT ![t].at = a] /\ a \in FirstAwaits
  <2>1. CASE Arrive(t)
    BY <1>2, <2>1 DEF Arrive, At, Claiming, Reserving
  <2>2. CASE LeaveQueue(t)
    <3>1. pc[t] = "notified"
      BY <2>2 DEF LeaveQueue, Gate!WakeAndEnter
    <3>2. ~At(t, Claiming \cup Reserving)
      BY <3>1 DEF AtTheGate, Sees, Running, Awaits, AtTheDriver, At
    <3>3. QED
      BY <1>2, <2>2, <3>2 DEF LeaveQueue
  <2>3. QED
    BY <2>1, <2>2
<1>4. ASSUME NEW r, NEW a \in FirstAwaits \cup {"gate"},
             job' = [job EXCEPT ![t].prog = r, ![t].at = a]
      PROVE  Frees(t)
  <2>1. Moves(t, Job(r, job[t].step, a, job[t].page, job[t].target, job[t].todo))
    BY <1>1, <1>4, ProgAndAt
  <2>2. QED
    BY <1>1, <2>1, MovedFields DEF Frees, At, Holding, Claiming, Reserving, FirstAwaits
<1>5. ASSUME NEW a \in FirstAwaits, job' = [job EXCEPT ![t].at = a]
      PROVE  Frees(t)
  <2>1. Moves(t, Job(job[t].prog, job[t].step, a, job[t].page, job[t].target, job[t].todo))
    BY <1>1, <1>5, AtOnly
  <2>2. QED
    BY <1>1, <2>1, MovedFields DEF Frees, At, Holding, Claiming, Reserving, FirstAwaits
<1>6. QED
  BY <1>3, <1>4, <1>5

LEMMA ArrivalClaims ==
    ASSUME ClaimInv, AtTheGate, NEW t \in Tasks, Arrive(t) \/ LeaveQueue(t)
    PROVE  ClaimInv'
<1>1. Shapes /\ IsReg(reg)
  BY DEF ClaimInv, Shapes
<1>2. /\ Frees(t) /\ ~At(t, Claiming \cup Reserving)
      /\ UNCHANGED <<reg, alive, born>>
  BY <1>1, ArrivalFrees
<1>3. SameClaims
  BY <1>1, <1>2 DEF SameClaims
<1>4. QED
  BY <1>2, <1>3, NothingHeld

(* A command that holds nothing goes on, or is answered. *)
LEMMA HandsFree ==
    ASSUME Shapes, NEW t \in Tasks,
           \/ BeginFails(t) \/ OpenFails(t) \/ ReadEnds(t)
           \/ ListFails(t) \/ StopDone(t) \/ RebuildFails(t)
           \/ StartOpen(t) \/ StartRead(t) \/ StartList(t) \/ ListSummary(t)
    PROVE  Frees(t)
<1>0. JobShape /\ job[t].step \in Nat
  BY DEF Shapes
<1>1. ASSUME NEW a \in {"opening", "reading"}, job' = [job EXCEPT ![t].at = a]
      PROVE  Frees(t)
  <2>1. Moves(t, Job(job[t].prog, job[t].step, a, job[t].page, job[t].target, job[t].todo))
    BY <1>0, <1>1, AtOnly
  <2>2. QED
    BY <1>0, <2>1, MovedFields DEF Frees, At, Holding, Claiming, Reserving
<1>2. ASSUME NEW d, job' = [job EXCEPT ![t].at = "listing", ![t].todo = d]
      PROVE  Frees(t)
  <2>1. Moves(t, Job(job[t].prog, job[t].step, "listing", job[t].page, job[t].target, d))
    BY <1>0, <1>2, AtAndTodo
  <2>2. QED
    BY <1>0, <2>1, MovedFields DEF Frees, At, Holding, Claiming, Reserving
<1>3. \/ \E ok : Answer(t, ok)
      \/ \E a \in {"opening", "reading"} : job' = [job EXCEPT ![t].at = a]
      \/ \E d : job' = [job EXCEPT ![t].at = "listing", ![t].todo = d]
  BY DEF BeginFails, OpenFails, ReadEnds, ListFails, StopDone, RebuildFails, StartOpen,
       StartRead, StartList, ListSummary, ListNext
<1>4. QED
  BY <1>0, <1>1, <1>2, <1>3, AnswerFrees

LEMMA HandsFreeSame ==
    ASSUME Shapes, NEW t \in Tasks,
           \/ BeginFails(t) \/ OpenFails(t) \/ ReadEnds(t)
           \/ ListFails(t) \/ StopDone(t) \/ RebuildFails(t)
           \/ StartOpen(t) \/ StartRead(t) \/ StartList(t) \/ ListSummary(t)
    PROVE  SameClaims
<1>1. IsReg(reg)
  BY DEF Shapes
<1>2. CASE ListSummary(t)
  <2>1. PICK answered \in BOOLEAN :
           reg' = IF answered /\ CanUpdate(reg, Head(job[t].todo))
                  THEN UpdateTab(reg, Head(job[t].todo)) ELSE reg
    BY <1>2 DEF ListSummary
  <2> DEFINE c == answered /\ CanUpdate(reg, Head(job[t].todo))
  <2>2. c \in BOOLEAN
    BY DEF CanUpdate, Has
  <2>3. reg' = IF c THEN UpdateTab(reg, Head(job[t].todo)) ELSE reg
    BY <2>1
  <2> HIDE DEF c
  <2>4. QED
    BY <1>1, <2>2, <2>3, UpdateKeeps DEF SameClaims
<1>3. CASE reg' = reg
  BY <1>1, <1>3 DEF SameClaims
<1>4. QED
  BY <1>2, <1>3 DEF BeginFails, OpenFails, ReadEnds, ListFails, StopDone, RebuildFails,
       StartOpen, StartRead, StartList

LEMMA HandsFreeClaims ==
    ASSUME ClaimInv, NEW t \in Tasks,
           \/ BeginFails(t) \/ OpenFails(t) \/ ReadEnds(t)
           \/ ListFails(t) \/ StopDone(t) \/ RebuildFails(t)
           \/ StartOpen(t) \/ StartRead(t) \/ StartList(t) \/ ListSummary(t)
    PROVE  ClaimInv'
<1>1. Frees(t) /\ SameClaims
  BY HandsFree, HandsFreeSame DEF ClaimInv
<1>2. ~At(t, Claiming \cup Reserving) /\ alive' \subseteq alive /\ born' = born
  BY DEF BeginFails, OpenFails, ReadEnds, ListFails, StopDone, RebuildFails, StartOpen,
       StartRead, StartList, ListSummary,
         Resumes, At, Claiming, Reserving
<1>3. QED
  BY <1>1, <1>2, NothingHeld

(* Answering a request that took nothing. *)
LEMMA RefusedClaims ==
    ASSUME ClaimInv, NEW t \in Tasks, ~At(t, Claiming \cup Reserving), NEW ok, Answer(t, ok),
           UNCHANGED <<reg, alive, born>>
    PROVE  ClaimInv'
<1>1. Shapes /\ IsReg(reg)
  BY DEF ClaimInv, Shapes
<1>2. Frees(t) /\ SameClaims
  BY <1>1, AnswerFrees DEF SameClaims
<1>3. QED
  BY <1>2, NothingHeld

LEMMA ClaimActionClaims ==
    ASSUME ClaimInv, NEW t \in Tasks, ClaimActive(t) \/ ClaimNamed(t)
    PROVE  ClaimInv'
<1>1. JobShape /\ IsReg(reg) /\ Shapes
  BY DEF ClaimInv, Shapes
<1>2. /\ ~At(t, Claiming \cup Reserving) /\ ~At(t, Holding)
      /\ UNCHANGED <<alive, born>>
  BY DEF ClaimActive, ClaimNamed, Resumes, At, Holding, Claiming, Reserving
<1>3. CASE reg' = reg /\ Answer(t, FALSE)
  BY <1>2, <1>3, RefusedClaims
<1>4. ASSUME NEW p, NEW a \in Claiming, MayClaim(reg, AgentOf[t], p, Id(t)),
             IsReg(reg'), reg'.tabs = TabsBusy(reg.tabs, p, Id(t)),
             reg'.claims = Claimed(reg.claims, p, Id(t), t),
             job' = [job EXCEPT ![t].at = a, ![t].page = p]
      PROVE  ClaimInv'
  <2>1. Moves(t, Job(job[t].prog, job[t].step, a, p, job[t].target, job[t].todo))
    BY <1>1, <1>4, AtAndPage
  <2>2. /\ JobShape' /\ \A u \in Tasks \ {t} : job'[u] = job[u]
        /\ job'[t].at = a /\ job'[t].page = p /\ job'[t].step = job[t].step
    BY <2>1, MovedFields
  <2>3. p \in Tabs /\ reg.tabs[p].owner = AgentOf[t] /\ reg.tabs[p].busy = None
    <3>1. /\ p \in Tabs /\ reg.tabs[p].owner = AgentOf[t]
          /\ reg.tabs[p].busy = None /\ reg.tabs[p].closing = None
      BY <1>2, <1>4, MayClaimMeans
    <3>2. QED
      BY <3>1
  <2>4. QED
    BY <1>2, <1>4, <2>2, <2>3, PageClaimed
<1>5. CASE ClaimActive(t)
  <2> DEFINE p == ActiveTab(reg, AgentOf[t])
  <2>1. \/ reg' = reg /\ Answer(t, FALSE)
        \/ /\ MayClaim(reg, AgentOf[t], p, Id(t))
           /\ reg' = ClaimPage(reg, p, Id(t), t)
           /\ job' = [job EXCEPT ![t].at = "op", ![t].page = p]
    BY <1>5 DEF ClaimActive
  <2> HIDE DEF p
  <2>2. CASE /\ MayClaim(reg, AgentOf[t], p, Id(t))
             /\ reg' = ClaimPage(reg, p, Id(t), t)
             /\ job' = [job EXCEPT ![t].at = "op", ![t].page = p]
    <3>1. /\ IsReg(reg') /\ reg'.tabs = TabsBusy(reg.tabs, p, Id(t))
          /\ reg'.claims = Claimed(reg.claims, p, Id(t), t)
      BY <1>1, <2>2, ClaimPageDoes
    <3>2. "op" \in Claiming
      BY DEF Claiming
    <3>3. QED
      BY <1>4, <2>2, <3>1, <3>2
  <2>3. QED
    BY <1>3, <2>1, <2>2
<1>6. CASE ClaimNamed(t)
  <2> DEFINE p == Command(t).page
             r == ClaimPage(reg, p, Id(t), t)
  <2>1. \/ reg' = reg /\ Answer(t, FALSE)
        \/ /\ MayClaim(reg, AgentOf[t], p, Id(t))
           /\ reg' = SetActiveTab(r, AgentOf[t], p)
           /\ job' = [job EXCEPT ![t].at = "switching", ![t].page = p]
    BY <1>6 DEF ClaimNamed
  <2> HIDE DEF p
  <2>2. /\ IsReg(r) /\ r.tabs = TabsBusy(reg.tabs, p, Id(t))
        /\ r.claims = Claimed(reg.claims, p, Id(t), t)
    BY <1>1, ClaimPageDoes
  <2> HIDE DEF r
  <2>3. LET s == SetActiveTab(r, AgentOf[t], p)
        IN  IsReg(s) /\ s.tabs = r.tabs /\ s.claims = r.claims
    <3> HIDE DEF p
    <3>1. QED
      BY <2>2, SetActiveKeeps
  <2>4. QED
    BY <1>3, <1>4, <2>1, <2>2, <2>3 DEF Claiming
<1>7. QED
  BY <1>5, <1>6

(* A command that held a claim ends: whatever it has seen of the page, and   *)
(* however it ends, the claim is released.                                   *)
LEMMA ReleaseClaims ==
    ASSUME ClaimInv, NEW t \in Tasks, At(t, Claiming), Frees(t),
           NEW seen, IsReg(seen), seen.tabs = reg.tabs, seen.claims = reg.claims,
           reg' = ReleaseTab(seen, job[t].page, Id(t)), UNCHANGED <<alive, born>>
    PROVE  ClaimInv'
<1> DEFINE p == job[t].page
<1>1. /\ IsReg(reg')
      /\ reg'.tabs = TabsIdle(reg.tabs, p, Id(t))
      /\ reg'.claims = Unclaimed(reg.claims, p, Id(t))
  BY ReleaseTabDoes
<1>2. QED
  BY <1>1, PageReleased

LEMMA OperationClaims ==
    ASSUME ClaimInv, NEW t \in Tasks,
           OperationDone(t) \/ SummaryDone(t) \/ SwitchDone(t) \/ OperationFails(t)
    PROVE  ClaimInv'
<1>1. JobShape /\ IsReg(reg) /\ Shapes
  BY DEF ClaimInv, Shapes
<1>2. At(t, Claiming) /\ UNCHANGED <<alive, born>>
  BY DEF OperationDone, SummaryDone, SwitchDone, OperationFails, Resumes, At, Claiming
<1>3. CASE /\ job' = [job EXCEPT ![t].at = "summary"]
           /\ reg' = reg
  <2>1. Moves(t, Job(job[t].prog, job[t].step, "summary", job[t].page, job[t].target, job[t].todo))
    BY <1>1, <1>3, AtOnly
  <2>2. /\ JobShape' /\ \A u \in Tasks \ {t} : job'[u] = job[u]
        /\ job'[t].at = "summary" /\ job'[t].page = job[t].page /\ job'[t].step = job[t].step
    BY <2>1, MovedFields
  <2>3. At(t, Claiming)' /\ SameClaims
    BY <1>1, <1>3, <2>2 DEF At, Claiming, SameClaims
  <2>4. QED
    BY <1>2, <2>2, <2>3, ClaimKept
<1>4. CASE \E ok : Answer(t, ok) /\ reg' = ReleaseTab(reg, job[t].page, Id(t))
  BY <1>1, <1>2, <1>4, AnswerFrees, ReleaseClaims
<1>5. CASE SummaryDone(t)
  <2> DEFINE p == job[t].page
  <2>1. PICK answered \in BOOLEAN :
           LET seen == IF answered /\ CanUpdate(reg, p) THEN UpdateTab(reg, p) ELSE reg
           IN  /\ reg' = ReleaseTab(seen, p, Id(t))
               /\ Answer(t, HoldsClaim(seen, p, Id(t)))
    BY <1>5 DEF SummaryDone
  <2> DEFINE c == answered /\ CanUpdate(reg, p)
             seen == IF c THEN UpdateTab(reg, p) ELSE reg
  <2>2. c \in BOOLEAN
    BY DEF CanUpdate, Has
  <2> HIDE DEF c
  <2>3. IsReg(seen) /\ seen.tabs = reg.tabs /\ seen.claims = reg.claims
    BY <1>1, <2>2, UpdateKeeps
  <2>4. reg' = ReleaseTab(seen, p, Id(t)) /\ Frees(t)
    BY <1>1, <2>1, AnswerFrees DEF c
  <2> HIDE DEF seen
  <2>5. QED
    BY <1>2, <2>3, <2>4, ReleaseClaims
<1>6. QED
  BY <1>3, <1>4, <1>5 DEF OperationDone, SwitchDone, OperationFails

LEMMA OpenClaims ==
    ASSUME ClaimInv, NEW t \in Tasks, PageAppears(t) \/ OpenDone(t)
    PROVE  ClaimInv'
<1>1. JobShape /\ IsReg(reg) /\ Shapes
  BY DEF ClaimInv, Shapes
<1>2. CASE PageAppears(t)
  <2>1. PICK p \in Pages \ born :
           /\ born' = born \cup {p} /\ alive' = alive \cup {p}
           /\ job' = [job EXCEPT ![t].at = "opened", ![t].page = p]
    BY <1>2 DEF PageAppears
  <2>2. Moves(t, Job(job[t].prog, job[t].step, "opened", p, job[t].target, job[t].todo))
    BY <1>1, <2>1, AtAndPage
  <2>3. /\ JobShape' /\ \A u \in Tasks \ {t} : job'[u] = job[u]
        /\ job'[t].at = "opened" /\ job'[t].page = p /\ job'[t].step = job[t].step
    BY <2>2, MovedFields
  <2>4. ~At(t, Holding) /\ reg' = reg
    BY <1>2 DEF PageAppears, At, Holding, Claiming, Reserving
  <2>5. QED
    BY <2>1, <2>3, <2>4, PageAppeared
<1>3. CASE OpenDone(t)
  <2>1. /\ At(t, {"opened"}) /\ Frees(t) /\ UNCHANGED <<alive, born>>
        /\ reg' = AddTab(reg, AgentOf[t], job[t].page)
    BY <1>1, <1>3, AnswerFrees DEF OpenDone, Resumes, At
  <2>2. AgentOf[t] \in Agents
    BY CommandAssumption
  <2>3. /\ IsReg(reg') /\ reg'.claims = reg.claims
        /\ reg'.tabs = TabsAdded(reg.tabs, job[t].page, AgentOf[t])
    BY <1>1, <2>1, AddTabDoes
  <2>4. QED
    BY <1>1, <2>1, <2>2, <2>3, PageAdded
<1>4. QED
  BY <1>2, <1>3

LEMMA ConfirmedFrees ==
    ASSUME Shapes, NEW t \in Tasks, CloseConfirmed(t)
    PROVE  Frees(t)
<1>0. JobShape /\ job[t].step \in Nat
  BY DEF Shapes
<1>1. (\E ok : Answer(t, ok)) \/ job' = [job EXCEPT ![t].at = "draining"]
  BY DEF CloseConfirmed
<1>2. CASE job' = [job EXCEPT ![t].at = "draining"]
  <2>1. Moves(t, Job(job[t].prog, job[t].step, "draining", job[t].page, job[t].target,
                     job[t].todo))
    BY <1>0, <1>2, AtOnly
  <2>2. QED
    BY <1>0, <2>1, MovedFields DEF Frees, At, Holding, Claiming, Reserving
<1>3. QED
  BY <1>1, <1>2, AnswerFrees

LEMMA CloseClaims ==
    ASSUME ClaimInv, NEW t \in Tasks,
           \/ ReservePage(t) \/ PageDestroyed(t) \/ CloseUnconfirmed(t)
           \/ CloseConfirmed(t) \/ Drained(t) \/ RebuildDone(t)
    PROVE  ClaimInv'
<1>1. JobShape /\ IsReg(reg) /\ Shapes /\ job[t].step \in Nat
  BY DEF ClaimInv, Shapes
<1>2. CASE ReservePage(t)
  <2> DEFINE a == AgentOf[t]
             p == IF Command(t).page = None THEN ActiveTab(reg, a) ELSE Command(t).page
  <2>1. ~At(t, Holding) /\ ~At(t, Claiming \cup Reserving) /\ UNCHANGED <<alive, born>>
    BY <1>2 DEF ReservePage, Resumes, At, Holding, Claiming, Reserving
  <2>2. \/ reg' = reg /\ Answer(t, FALSE)
        \/ /\ MayBeginClose(reg, a, p)
           /\ reg' = BeginClose(reg, p, Id(t))
           /\ job' = [job EXCEPT ![t].at = "closing", ![t].page = p,
                                 ![t].target = Claimant(reg, p)]
    BY <1>2 DEF ReservePage
  <2> HIDE DEF p
  <2>3. CASE reg' = reg /\ Answer(t, FALSE)
    BY <2>1, <2>3, RefusedClaims
  <2>4. CASE /\ MayBeginClose(reg, a, p)
             /\ reg' = BeginClose(reg, p, Id(t))
             /\ job' = [job EXCEPT ![t].at = "closing", ![t].page = p,
                                   ![t].target = Claimant(reg, p)]
    <3>1. p \in Tabs /\ reg.tabs[p].owner = AgentOf[t]
      BY <2>4 DEF MayBeginClose, Owns, Has, Tabs
    <3>2. Moves(t, Job(job[t].prog, job[t].step, "closing", p, Claimant(reg, p), job[t].todo))
      BY <1>1, <2>4, AtPageAndTarget
    <3>3. /\ JobShape' /\ \A u \in Tasks \ {t} : job'[u] = job[u]
          /\ job'[t].at = "closing" /\ job'[t].page = p /\ job'[t].step = job[t].step
          /\ job'[t].target = Claimant(reg, p)
      BY <3>2, MovedFields
    <3>4. /\ IsReg(reg') /\ reg'.claims = reg.claims
          /\ reg'.tabs = TabsClosing(reg.tabs, p, Id(t))
      BY <1>1, <2>4, BeginCloseDoes
    <3>5. QED
      BY <2>1, <3>1, <3>3, <3>4, PageReserved
  <2>5. QED
    BY <2>2, <2>3, <2>4
<1>3. CASE PageDestroyed(t)
  <2>1. Moves(t, Job(job[t].prog, job[t].step, "destroyed", job[t].page, job[t].target, job[t].todo))
    BY <1>1, <1>3, AtOnly DEF PageDestroyed
  <2>2. /\ JobShape' /\ \A u \in Tasks \ {t} : job'[u] = job[u]
        /\ job'[t].at = "destroyed" /\ job'[t].page = job[t].page /\ job'[t].step = job[t].step
        /\ job'[t].target = job[t].target
    BY <2>1, MovedFields
  <2>3. /\ At(t, Reserving) /\ reg' = reg /\ born' = born
        /\ alive' = alive \ {job[t].page}
    BY <1>3 DEF PageDestroyed, At, Reserving
  <2>4. QED
    BY <2>2, <2>3, PageGone
<1>4. CASE CloseUnconfirmed(t)
  <2>1. /\ At(t, Reserving) /\ Frees(t) /\ UNCHANGED <<alive, born>>
        /\ reg' = EndClose(reg, job[t].page, Id(t))
    BY <1>1, <1>4, AnswerFrees DEF CloseUnconfirmed, Resumes, At, Reserving
  <2>2. QED
    BY <1>1, <2>1, EndCloseDoes, PageUnreserved
<1>5. CASE CloseConfirmed(t)
  <2>1. /\ At(t, Reserving) /\ ~At(t, Claiming) /\ UNCHANGED <<alive, born>>
        /\ reg' = RemoveTab(reg, AgentOf[t], job[t].page)
    BY <1>5 DEF CloseConfirmed, Resumes, At, Claiming, Reserving
  <2>2. Frees(t)
    BY <1>1, <1>5, ConfirmedFrees
  <2>3. /\ IsReg(reg') /\ reg'.claims = reg.claims
        /\ reg'.tabs = TabsWithout(reg.tabs, job[t].page)
    <3> DEFINE s == RemoveTab(reg, AgentOf[t], job[t].page)
    <3>1. IsReg(s) /\ s.claims = reg.claims /\ s.tabs = TabsWithout(reg.tabs, job[t].page)
      BY <1>1, RemoveTabDoes
    <3> HIDE DEF s
    <3>2. QED
      BY <2>1, <3>1 DEF s
  <2> DEFINE S == Tabs \ {job[t].page}
  <2>4. S \subseteq Tabs /\ job[t].page \notin S /\ reg'.tabs = [q \in S |-> reg.tabs[q]]
    BY <2>3 DEF TabsWithout, Tabs
  <2> HIDE DEF S
  <2>5. QED
    BY <2>1, <2>2, <2>3, <2>4, FewerTabs
<1>6. CASE Drained(t)
  <2>1. /\ ~At(t, Claiming \cup Reserving) /\ ~At(t, Reserving)
        /\ Frees(t) /\ UNCHANGED <<alive, born>>
        /\ reg' = EndClose(reg, job[t].page, Id(t))
    BY <1>1, <1>6, AnswerFrees DEF Drained, Resumes, At, Claiming, Reserving
  <2>2. job[t].page \in Tabs => reg.tabs[job[t].page].closing # Id(t)
    BY <1>1, <2>1, IdsAreIds, IdsDiffer DEF ClaimInv, ClosingExact, SameId
  <2>3. SameClaims
    BY <1>1, <2>1, <2>2, NothingToEnd
  <2>4. QED
    BY <2>1, <2>3, NothingHeld
<1>7. CASE RebuildDone(t)
  <2>1. /\ ~At(t, Claiming) /\ ~At(t, Reserving) /\ Frees(t)
        /\ born' = born /\ alive' = {} /\ reg' = ClearTabs(reg)
    BY <1>1, <1>7, AnswerFrees DEF RebuildDone, Resumes, At, Claiming, Reserving
  <2>2. IsReg(reg') /\ reg'.claims = reg.claims /\ reg'.tabs = << >>
    BY <1>1, <2>1, ClearTabsDoes
  <2>3. reg'.tabs = [q \in {} |-> reg.tabs[q]]
    BY <2>2
  <2>4. QED
    BY <2>1, <2>2, <2>3, FewerTabs
<1>8. QED
  BY <1>2, <1>3, <1>4, <1>5, <1>6, <1>7

LEMMA CancelledFrees ==
    ASSUME Shapes, NEW t \in Tasks, MeetsCancel(t)
    PROVE  Frees(t)
<1>1. Moves(t, Done)
  BY CancelledFinishes DEF Finishes, Shapes
<1>2. QED
  BY <1>1, MovedFields DEF Done, Frees, At, Holding, Claiming, Reserving

LEMMA CancelClaims ==
    ASSUME ClaimInv, NEW t \in Tasks, MeetsCancel(t)
    PROVE  ClaimInv'
<1>1. JobShape /\ IsReg(reg) /\ Shapes
  BY DEF ClaimInv, Shapes
<1>2. Frees(t) /\ UNCHANGED <<alive, born>>
  BY <1>1, CancelledFrees DEF MeetsCancel
<1>3. CASE At(t, Claiming)
  <2>1. reg' = ReleaseTab(reg, job[t].page, Id(t))
    BY <1>3 DEF MeetsCancel, At, Claiming, Reserving
  <2>2. QED
    BY <1>1, <1>2, <1>3, <2>1, ReleaseClaims
<1>4. CASE At(t, Reserving)
  <2>1. reg' = EndClose(reg, job[t].page, Id(t))
    BY <1>4 DEF MeetsCancel, At, Claiming, Reserving
  <2>2. QED
    BY <1>1, <1>2, <1>4, <2>1, EndCloseDoes, PageUnreserved
<1>5. CASE ~At(t, Claiming) /\ ~At(t, Reserving)
  <2>1. ~At(t, Claiming \cup Reserving)
    BY <1>5 DEF At
  <2>2. \/ reg' = EndClose(reg, job[t].page, Id(t))
        \/ reg' = reg
    BY <1>5 DEF MeetsCancel, At
  <2>3. job[t].page \in Tabs => reg.tabs[job[t].page].closing # Id(t)
    BY <1>1, <1>5, IdsAreIds, IdsDiffer DEF ClaimInv, ClosingExact, SameId
  <2>4. SameClaims
    BY <1>1, <2>2, <2>3, NothingToEnd DEF SameClaims
  <2>5. QED
    BY <1>2, <2>1, <2>4, NothingHeld
<1>6. QED
  BY <1>3, <1>4, <1>5

LEMMA StepClaims == ClaimInv /\ AtTheGate /\ [Next]_vars => ClaimInv'
<1> SUFFICES ASSUME ClaimInv, AtTheGate, [Next]_vars PROVE ClaimInv'
  OBVIOUS
<1>1. CASE Next
  <2> PICK t \in Tasks :
          \/ Arrive(t) \/ LeaveQueue(t) \/ StayQueued(t)
          \/ Starts(t) \/ Ends(t)
          \/ PageAppears(t) \/ PageDestroyed(t)
          \/ MeetsCancel(t) \/ SwallowsCancel(t)
    BY <1>1 DEF Next
  <2>1. StayQueued(t) \/ SwallowsCancel(t) => ClaimInv'
    BY UnchangedClaims DEF StayQueued, SwallowsCancel
  <2>2. Starts(t) => ClaimInv'
    BY HandsFreeClaims, ClaimActionClaims, CloseClaims DEF Starts
  <2>3. Ends(t) => ClaimInv'
    BY HandsFreeClaims, OperationClaims, OpenClaims, CloseClaims DEF Ends
  <2>4. QED
    BY <2>1, <2>2, <2>3, ArrivalClaims, OpenClaims, CloseClaims, CancelClaims
<1>2. CASE UNCHANGED vars
  BY <1>2, UnchangedClaims DEF vars
<1>3. QED
  BY <1>1, <1>2

LEMMA AlwaysClaims == Spec => []ClaimInv
BY InitClaims, StepClaims, AlwaysAtTheGate, PTL DEF Spec

-----------------------------------------------------------------------------
(* Reservations.  Whoever closes a page finds its tab, reserved by itself,   *)
(* until it is done: the others leave a reserved tab where it is, and a      *)
(* rebuild of the workspace, which forgets them all, runs alone.             *)
ReservedThere ==
    \A t \in Tasks : At(t, Reserving) =>
        job[t].page \in Tabs /\ reg.tabs[job[t].page].closing = Id(t)

RebuildsAlone ==
    \A t \in Tasks :
        /\ At(t, {"gate"}) => job[t].prog \in Programs[t]
        /\ At(t, {"rebuilding"}) => job[t].prog.mode = "exclusive"

(* The step of t leaves the tabs that the others have reserved. *)
KeepsReserved(t) ==
    \A p \in Tabs : reg.tabs[p].closing \notin {None, Id(t)} =>
        p \in Tabs' /\ reg'.tabs[p].closing = reg.tabs[p].closing

LEMMA RebuildIsExclusive ==
    ASSUME NEW t \in Tasks, NEW r \in Programs[t], FirstAwait(r) = "rebuilding"
    PROVE  r.mode = "exclusive"
<1>1. r.steps[1].op = "rebuild"
  BY DEF FirstAwait
<1>2. 1 \in DOMAIN r.steps
  BY CommandAssumption
<1>3. QED
  BY <1>1, <1>2, CommandAssumption DEF ModeOf

(* The other tasks' reservations after a step of t. *)
LEMMA OthersReserved ==
    ASSUME ReservedThere, Shapes, NEW t \in Tasks, KeepsReserved(t),
           \A u \in Tasks \ {t} : job'[u] = job[u],
           At(t, Reserving)' => job'[t].page \in Tabs' /\ reg'.tabs[job'[t].page].closing = Id(t)'
    PROVE  ReservedThere'
<1> SUFFICES ASSUME NEW u \in Tasks, At(u, Reserving)', u # t
             PROVE  job'[u].page \in Tabs' /\ reg'.tabs[job'[u].page].closing = Id(u)'
  BY DEF ReservedThere
<1>1. At(u, Reserving) /\ job'[u] = job[u] /\ Id(u)' = Id(u)
  BY DEF At, Id
<1>2. job[u].page \in Tabs /\ reg.tabs[job[u].page].closing = Id(u)
  BY <1>1 DEF ReservedThere
<1>3. Id(u) # None /\ Id(u) # Id(t)
  BY IdsAreIds, IdsDiffer DEF SameId
<1>4. QED
  BY <1>1, <1>2, <1>3 DEF KeepsReserved

(* What the methods leave of the reservations. *)
LEMMA SameTabsKeep ==
    ASSUME NEW t \in Tasks, reg'.tabs = reg.tabs
    PROVE  KeepsReserved(t)
BY DEF KeepsReserved, Tabs

LEMMA BusyKeeps ==
    ASSUME Shapes, NEW t \in Tasks, NEW p, NEW id,
           reg'.tabs \in {TabsBusy(reg.tabs, p, id), TabsIdle(reg.tabs, p, id)}
    PROVE  KeepsReserved(t)
BY DEF KeepsReserved, Tabs, TabsBusy, TabsIdle, Shapes, TabType

LEMMA ClosingKeeps ==
    ASSUME Shapes, NEW t \in Tasks, NEW p, p \in Tabs => reg.tabs[p].closing = None,
           reg'.tabs = TabsClosing(reg.tabs, p, Id(t))
    PROVE  /\ KeepsReserved(t)
           /\ p \in Tabs => p \in Tabs' /\ reg'.tabs[p].closing = Id(t)
BY DEF KeepsReserved, Tabs, TabsClosing, Shapes, TabType

LEMMA OpenKeeps ==
    ASSUME Shapes, NEW t \in Tasks, NEW p, reg'.tabs = TabsOpen(reg.tabs, p, Id(t))
    PROVE  KeepsReserved(t)
BY DEF KeepsReserved, Tabs, TabsOpen, Shapes, TabType

LEMMA AddedKeeps ==
    ASSUME NEW t \in Tasks, NEW p, p \notin Tabs, NEW a, reg'.tabs = TabsAdded(reg.tabs, p, a)
    PROVE  KeepsReserved(t)
BY DEF KeepsReserved, Tabs, TabsAdded

LEMMA RemovedKeeps ==
    ASSUME NEW t \in Tasks, NEW p, p \in Tabs => reg.tabs[p].closing = Id(t),
           reg'.tabs = TabsWithout(reg.tabs, p)
    PROVE  KeepsReserved(t)
BY DEF KeepsReserved, Tabs, TabsWithout

(* A command that holds nothing afterwards. *)
LEMMA FreesReserved ==
    ASSUME ReservedThere, Shapes, NEW t \in Tasks, Frees(t), KeepsReserved(t)
    PROVE  ReservedThere'
<1>1. /\ \A u \in Tasks \ {t} : job'[u] = job[u]
      /\ ~At(t, Reserving)'
  BY DEF Frees, At, Holding
<1>2. QED
  BY <1>1, OthersReserved

LEMMA RefusedReserved ==
    ASSUME ReservedThere, Shapes, NEW t \in Tasks, NEW ok, Answer(t, ok), reg' = reg
    PROVE  ReservedThere'
BY AnswerFrees, SameTabsKeep, FreesReserved

(* A command that goes on, under a claim or with a page just opened. *)
LEMMA GoesOnReserved ==
    ASSUME ReservedThere, Shapes, NEW t \in Tasks, NEW a, a \notin Reserving, NEW p,
           \/ job' = [job EXCEPT ![t].at = a, ![t].page = p]
           \/ job' = [job EXCEPT ![t].at = a],
           KeepsReserved(t)
    PROVE  ReservedThere'
<1>1. JobShape
  BY DEF Shapes
<1>2. (\A u \in Tasks \ {t} : job'[u] = job[u]) /\ job'[t].at = a
  <2>1. CASE job' = [job EXCEPT ![t].at = a, ![t].page = p]
    <3>1. Moves(t, Job(job[t].prog, job[t].step, a, p, job[t].target, job[t].todo))
      BY <1>1, <2>1, AtAndPage
    <3>2. QED
      BY <3>1, MovedFields
  <2>2. CASE job' = [job EXCEPT ![t].at = a]
    <3>1. Moves(t, Job(job[t].prog, job[t].step, a, job[t].page, job[t].target, job[t].todo))
      BY <1>1, <2>2, AtOnly
    <3>2. QED
      BY <3>1, MovedFields
  <2>3. QED
    BY <2>1, <2>2
<1>3. ~At(t, Reserving)'
  BY <1>2 DEF At
<1>4. QED
  BY <1>2, <1>3, OthersReserved

LEMMA ClaimActionReserved ==
    ASSUME ReservedThere, Shapes, NEW t \in Tasks, ClaimActive(t) \/ ClaimNamed(t)
    PROVE  ReservedThere'
<1>1. IsReg(reg)
  BY DEF Shapes
<1>2. CASE reg' = reg /\ Answer(t, FALSE)
  BY <1>2, RefusedReserved
<1>3. CASE ClaimActive(t)
  <2> DEFINE p == ActiveTab(reg, AgentOf[t])
  <2>1. \/ reg' = reg /\ Answer(t, FALSE)
        \/ /\ reg' = ClaimPage(reg, p, Id(t), t)
           /\ job' = [job EXCEPT ![t].at = "op", ![t].page = p]
    BY <1>3 DEF ClaimActive
  <2> HIDE DEF p
  <2>2. CASE /\ reg' = ClaimPage(reg, p, Id(t), t)
             /\ job' = [job EXCEPT ![t].at = "op", ![t].page = p]
    <3>1. reg'.tabs = TabsBusy(reg.tabs, p, Id(t))
      BY <1>1, <2>2, ClaimPageDoes
    <3>2. KeepsReserved(t) /\ "op" \notin Reserving
      BY <3>1, BusyKeeps DEF Reserving
    <3>3. QED
      BY <2>2, <3>2, GoesOnReserved
  <2>3. QED
    BY <1>2, <2>1, <2>2
<1>4. CASE ClaimNamed(t)
  <2> DEFINE p == Command(t).page
             r == ClaimPage(reg, p, Id(t), t)
  <2>1. \/ reg' = reg /\ Answer(t, FALSE)
        \/ /\ reg' = SetActiveTab(r, AgentOf[t], p)
           /\ job' = [job EXCEPT ![t].at = "switching", ![t].page = p]
    BY <1>4 DEF ClaimNamed
  <2> HIDE DEF p
  <2>2. IsReg(r) /\ r.tabs = TabsBusy(reg.tabs, p, Id(t))
    BY <1>1, ClaimPageDoes
  <2> HIDE DEF r
  <2>3. CASE /\ reg' = SetActiveTab(r, AgentOf[t], p)
             /\ job' = [job EXCEPT ![t].at = "switching", ![t].page = p]
    <3>1. reg'.tabs = TabsBusy(reg.tabs, p, Id(t))
      BY <2>2, <2>3, SetActiveKeeps
    <3>2. KeepsReserved(t) /\ "switching" \notin Reserving
      BY <3>1, BusyKeeps DEF Reserving
    <3>3. QED
      BY <2>3, <3>2, GoesOnReserved
  <2>4. QED
    BY <1>2, <2>1, <2>3
<1>5. QED
  BY <1>3, <1>4

LEMMA OperationReserved ==
    ASSUME ReservedThere, Shapes, NEW t \in Tasks,
           OperationDone(t) \/ SummaryDone(t) \/ SwitchDone(t) \/ OperationFails(t)
    PROVE  ReservedThere'
<1>1. IsReg(reg)
  BY DEF Shapes
<1>2. CASE job' = [job EXCEPT ![t].at = "summary"] /\ reg' = reg
  <2>1. KeepsReserved(t) /\ "summary" \notin Reserving
    BY <1>2, SameTabsKeep DEF Reserving
  <2>2. QED
    BY <1>2, <2>1, GoesOnReserved
<1>3. ASSUME NEW seen, IsReg(seen), seen.tabs = reg.tabs,
             reg' = ReleaseTab(seen, job[t].page, Id(t)), NEW ok, Answer(t, ok)
      PROVE  ReservedThere'
  <2>1. reg'.tabs = TabsIdle(reg.tabs, job[t].page, Id(t))
    BY <1>3, ReleaseTabDoes
  <2>2. KeepsReserved(t)
    BY <2>1, BusyKeeps
  <2>3. QED
    BY <1>3, <2>2, AnswerFrees, FreesReserved
<1>4. CASE SummaryDone(t)
  <2> DEFINE p == job[t].page
  <2>1. PICK answered \in BOOLEAN :
           LET seen == IF answered /\ CanUpdate(reg, p) THEN UpdateTab(reg, p) ELSE reg
           IN  /\ reg' = ReleaseTab(seen, p, Id(t))
               /\ Answer(t, HoldsClaim(seen, p, Id(t)))
    BY <1>4 DEF SummaryDone
  <2> DEFINE c == answered /\ CanUpdate(reg, p)
             seen == IF c THEN UpdateTab(reg, p) ELSE reg
  <2>2. c \in BOOLEAN
    BY DEF CanUpdate, Has
  <2> HIDE DEF c
  <2>3. IsReg(seen) /\ seen.tabs = reg.tabs
    BY <1>1, <2>2, UpdateKeeps
  <2>4. reg' = ReleaseTab(seen, p, Id(t)) /\ Answer(t, HoldsClaim(seen, p, Id(t)))
    BY <2>1 DEF c
  <2> HIDE DEF seen
  <2>5. QED
    BY <1>3, <2>3, <2>4
<1>5. QED
  BY <1>1, <1>2, <1>3, <1>4 DEF OperationDone, SwitchDone, OperationFails

LEMMA OpenReserved ==
    ASSUME ReservedThere, ClaimInv, NEW t \in Tasks, PageAppears(t) \/ OpenDone(t)
    PROVE  ReservedThere'
<1>1. IsReg(reg) /\ Shapes
  BY DEF ClaimInv, Shapes
<1>2. CASE PageAppears(t)
  <2>1. PICK p \in Pages \ born : job' = [job EXCEPT ![t].at = "opened", ![t].page = p]
    BY <1>2 DEF PageAppears
  <2>2. KeepsReserved(t) /\ "opened" \notin Reserving
    BY <1>2, SameTabsKeep DEF PageAppears, Reserving
  <2>3. QED
    BY <1>1, <2>1, <2>2, GoesOnReserved
<1>3. CASE OpenDone(t)
  <2>1. At(t, {"opened"}) /\ Frees(t) /\ reg' = AddTab(reg, AgentOf[t], job[t].page)
    BY <1>1, <1>3, AnswerFrees DEF OpenDone, Resumes, At
  <2>2. reg'.tabs = TabsAdded(reg.tabs, job[t].page, AgentOf[t])
    BY <1>1, <2>1, AddTabDoes
  <2>3. KeepsReserved(t)
    BY <2>1, <2>2, AddedKeeps DEF ClaimInv, HeldPages
  <2>4. QED
    BY <1>1, <2>1, <2>3, FreesReserved
<1>4. QED
  BY <1>2, <1>3

LEMMA ReserveReserved ==
    ASSUME ReservedThere, Shapes, NEW t \in Tasks, ReservePage(t)
    PROVE  ReservedThere'
<1> DEFINE a == AgentOf[t]
           p == IF Command(t).page = None THEN ActiveTab(reg, a) ELSE Command(t).page
<1>1. \/ reg' = reg /\ Answer(t, FALSE)
      \/ /\ MayBeginClose(reg, a, p)
         /\ reg' = BeginClose(reg, p, Id(t))
         /\ job' = [job EXCEPT ![t].at = "closing", ![t].page = p,
                               ![t].target = Claimant(reg, p)]
  BY DEF ReservePage
<1> HIDE DEF p
<1>2. CASE reg' = reg /\ Answer(t, FALSE)
  BY <1>2, RefusedReserved
<1>3. CASE /\ MayBeginClose(reg, a, p)
           /\ reg' = BeginClose(reg, p, Id(t))
           /\ job' = [job EXCEPT ![t].at = "closing", ![t].page = p,
                                 ![t].target = Claimant(reg, p)]
  <2>1. p \in Tabs /\ reg.tabs[p].closing = None
    BY <1>3 DEF MayBeginClose, Owns, Has, Tabs
  <2>2. Moves(t, Job(job[t].prog, job[t].step, "closing", p, Claimant(reg, p), job[t].todo))
    BY <1>3, AtPageAndTarget DEF Shapes
  <2>3. /\ \A u \in Tasks \ {t} : job'[u] = job[u]
        /\ job'[t].page = p /\ job'[t].step = job[t].step
    BY <2>2, MovedFields
  <2>4. reg'.tabs = TabsClosing(reg.tabs, p, Id(t))
    BY <1>3, BeginCloseDoes DEF Shapes
  <2>5. KeepsReserved(t) /\ p \in Tabs' /\ reg'.tabs[p].closing = Id(t)
    BY <2>1, <2>4, ClosingKeeps
  <2>6. Id(t)' = Id(t)
    BY <2>3 DEF Id
  <2>7. QED
    BY <2>3, <2>5, <2>6, OthersReserved
<1>4. QED
  BY <1>1, <1>2, <1>3

LEMMA DestroyReserved ==
    ASSUME ReservedThere, Shapes, NEW t \in Tasks, PageDestroyed(t)
    PROVE  ReservedThere'
<1>1. At(t, Reserving) /\ reg' = reg
  BY DEF PageDestroyed, At, Reserving
<1>2. Moves(t, Job(job[t].prog, job[t].step, "destroyed", job[t].page, job[t].target, job[t].todo))
  BY AtOnly DEF PageDestroyed, Shapes
<1>3. /\ \A u \in Tasks \ {t} : job'[u] = job[u]
      /\ job'[t].page = job[t].page /\ job'[t].step = job[t].step
  BY <1>2, MovedFields
<1>4. KeepsReserved(t) /\ Id(t)' = Id(t) /\ Tabs' = Tabs
  BY <1>1, <1>3, SameTabsKeep DEF Id, Tabs
<1>5. QED
  BY <1>1, <1>3, <1>4, OthersReserved DEF ReservedThere

(* The last step of a close-tab: only its own tab is removed or opened again. *)
LEMMA CloseReserved ==
    ASSUME ReservedThere, Shapes, NEW t \in Tasks,
           CloseUnconfirmed(t) \/ CloseConfirmed(t) \/ Drained(t)
    PROVE  ReservedThere'
<1>1. IsReg(reg)
  BY DEF Shapes
<1>2. CASE CloseUnconfirmed(t) \/ Drained(t)
  <2>1. Frees(t) /\ reg' = EndClose(reg, job[t].page, Id(t))
    BY <1>2, AnswerFrees DEF CloseUnconfirmed, Drained
  <2>2. reg'.tabs = TabsOpen(reg.tabs, job[t].page, Id(t))
    BY <1>1, <2>1, EndCloseDoes
  <2>3. QED
    BY <2>1, <2>2, OpenKeeps, FreesReserved
<1>3. CASE CloseConfirmed(t)
  <2>1. At(t, Reserving) /\ reg' = RemoveTab(reg, AgentOf[t], job[t].page)
    BY <1>3 DEF CloseConfirmed, Resumes, At, Reserving
  <2>2. reg'.tabs = TabsWithout(reg.tabs, job[t].page)
    <3> DEFINE s == RemoveTab(reg, AgentOf[t], job[t].page)
    <3>1. s.tabs = TabsWithout(reg.tabs, job[t].page)
      BY <1>1, RemoveTabDoes
    <3> HIDE DEF s
    <3>2. QED
      BY <2>1, <3>1 DEF s
  <2>3. job[t].page \in Tabs => reg.tabs[job[t].page].closing = Id(t)
    BY <2>1 DEF ReservedThere
  <2>4. QED
    BY <1>3, <2>2, <2>3, RemovedKeeps, ConfirmedFrees, FreesReserved
<1>4. QED
  BY <1>2, <1>3

(* A rebuild runs alone... *)
LEMMA RebuildRunsAlone ==
    ASSUME RebuildsAlone, AtTheGate, Gate!ExclusiveIsolation, NEW t \in Tasks, At(t, {"rebuilding"})
    PROVE  \A u \in Tasks \ {t} : ~Running(u)
<1>1. job[t].prog.mode = "exclusive" /\ Running(t)
  BY DEF At, Running, Awaits, AtTheDriver, RebuildsAlone
<1>2. SUFFICES ASSUME NEW u \in Tasks, u # t, Running(u) PROVE FALSE
  OBVIOUS
<1>3. pc[t] = "inside" /\ pc[u] = "inside" /\ kind[t] = "exclusive"
  BY <1>1, <1>2 DEF AtTheGate, Sees, Running
<1>4. t \in Gate!Inside /\ u \in Gate!Inside /\ kind[t] \in Gate!Exclusives
  BY <1>3 DEF Gate!Inside, Gate!Exclusives
<1>5. QED
  BY <1>2, <1>3, <1>4 DEF Gate!ExclusiveIsolation

(* ... so it forgets every tab, but nobody is closing one beside it. *)
LEMMA RebuildReserved ==
    ASSUME ReservedThere, ClaimInv, RebuildsAlone, AtTheGate, Gate!ExclusiveIsolation,
           NEW t \in Tasks, RebuildDone(t)
    PROVE  ReservedThere'
<1>1. Frees(t)
  BY AnswerFrees DEF RebuildDone, ClaimInv
<1>2. \A u \in Tasks \ {t} : ~Running(u)
  BY RebuildRunsAlone DEF RebuildDone, Resumes, At
<1>3. ASSUME NEW u \in Tasks PROVE ~At(u, Reserving)'
  <2>1. CASE u = t
    BY <1>1, <2>1 DEF Frees, At, Holding
  <2>2. CASE u # t
    BY <1>1, <1>2, <2>2 DEF Frees, At, Running, Awaits, AtTheDriver
  <2>3. QED
    BY <2>1, <2>2
<1>4. QED
  BY <1>3 DEF ReservedThere

LEMMA CancelReserved ==
    ASSUME ReservedThere, Shapes, NEW t \in Tasks, MeetsCancel(t)
    PROVE  ReservedThere'
<1>1. IsReg(reg) /\ Frees(t)
  BY CancelledFrees DEF Shapes
<1>2. \/ reg' = ReleaseTab(reg, job[t].page, Id(t))
      \/ reg' = EndClose(reg, job[t].page, Id(t))
      \/ reg' = reg
  BY DEF MeetsCancel
<1>3. \/ reg'.tabs = TabsIdle(reg.tabs, job[t].page, Id(t))
      \/ reg'.tabs = TabsOpen(reg.tabs, job[t].page, Id(t))
      \/ reg'.tabs = reg.tabs
  BY <1>1, <1>2, ReleaseTabDoes, EndCloseDoes
<1>4. KeepsReserved(t)
  BY <1>3, BusyKeeps, OpenKeeps, SameTabsKeep
<1>5. QED
  BY <1>1, <1>4, FreesReserved

LEMMA StepRebuildsAlone ==
    ASSUME RebuildsAlone, AtTheGate, [Next]_vars
    PROVE  RebuildsAlone'
<1>1. JobShape
  BY DEF AtTheGate
<1>2. ASSUME NEW t \in Tasks, \A u \in Tasks \ {t} : job'[u] = job[u],
             At(t, {"gate"})' => job'[t].prog \in Programs[t],
             At(t, {"rebuilding"})' => job'[t].prog.mode = "exclusive"
      PROVE  RebuildsAlone'
  BY <1>2 DEF RebuildsAlone, At
<1>3. ASSUME NEW t \in Tasks, Arrive(t) PROVE RebuildsAlone'
  <2> PICK r \in Programs[t] :
           \/ job' = [job EXCEPT ![t].prog = r, ![t].at = FirstAwait(r)]
           \/ job' = [job EXCEPT ![t].prog = r, ![t].at = "gate"]
    BY <1>3 DEF Arrive
  <2>1. PICK a : /\ a \in {FirstAwait(r), "gate"}
                 /\ job' = [job EXCEPT ![t].prog = r, ![t].at = a]
    OBVIOUS
  <2>2. Moves(t, Job(r, job[t].step, a, job[t].page, job[t].target, job[t].todo))
    BY <1>1, <2>1, ProgAndAt
  <2>3. /\ \A u \in Tasks \ {t} : job'[u] = job[u]
        /\ job'[t].at = a /\ job'[t].prog = r
    BY <2>2, MovedFields
  <2>4. a = "rebuilding" => r.mode = "exclusive"
    BY <2>1, RebuildIsExclusive
  <2>5. QED
    BY <1>2, <2>3, <2>4 DEF At
<1>4. ASSUME NEW t \in Tasks, LeaveQueue(t) PROVE RebuildsAlone'
  <2> DEFINE r == job[t].prog
             a == FirstAwait(r)
  <2>1. job' = [job EXCEPT ![t].at = a] /\ pc[t] = "notified"
    BY <1>4 DEF LeaveQueue, Gate!WakeAndEnter
  <2>2. At(t, {"gate"}) /\ r \in Programs[t]
    BY <2>1 DEF AtTheGate, Sees, Running, Nowhere, At, RebuildsAlone
  <2>3. a = "rebuilding" => r.mode = "exclusive"
    BY <2>2, RebuildIsExclusive
  <2>4. a # "gate"
    BY DEF FirstAwait
  <2> HIDE DEF a
  <2>5. Moves(t, Job(r, job[t].step, a, job[t].page, job[t].target, job[t].todo))
    BY <1>1, <2>1, AtOnly
  <2> HIDE DEF r
  <2>6. /\ \A u \in Tasks \ {t} : job'[u] = job[u]
        /\ job'[t].at = a /\ job'[t].prog = r
    BY <2>5, MovedFields
  <2>7. QED
    BY <1>2, <2>3, <2>4, <2>6 DEF At
<1>5. ASSUME NEW t \in Tasks, Continues(t) PROVE RebuildsAlone'
  BY <1>2, <1>5 DEF Continues, Onward, Awaits, AtTheDriver, Claiming, Reserving, At
<1>6. ASSUME NEW t \in Tasks, Finishes(t) PROVE RebuildsAlone'
  <2>1. (\A u \in Tasks \ {t} : job'[u] = job[u]) /\ job'[t].at = "over"
    BY <1>6, MovedFields DEF Finishes, Done
  <2>2. QED
    BY <1>2, <2>1 DEF At
<1>7. ASSUME job' = job PROVE RebuildsAlone'
  BY <1>7 DEF RebuildsAlone, At
<1>8. CASE Next
  <2> PICK t \in Tasks :
          \/ Arrive(t) \/ LeaveQueue(t) \/ StayQueued(t)
          \/ Starts(t) \/ Ends(t)
          \/ PageAppears(t) \/ PageDestroyed(t)
          \/ MeetsCancel(t) \/ SwallowsCancel(t)
    BY <1>8 DEF Next
  <2>1. StayQueued(t) \/ SwallowsCancel(t) => job' = job
    BY DEF StayQueued, SwallowsCancel
  <2>2. QED
    BY <1>1, <1>3, <1>4, <1>5, <1>6, <1>7, <2>1,
       StartsStay, EndsStay, BrowserStays, CancelledFinishes
<1>9. QED
  BY <1>7, <1>8 DEF vars

LEMMA StepReserved ==
    ASSUME ReservedThere, RebuildsAlone, ClaimInv, AtTheGate, Gate!ExclusiveIsolation, [Next]_vars
    PROVE  ReservedThere'
<1>1. Shapes
  BY DEF ClaimInv
<1>2. ASSUME UNCHANGED <<job, reg>> PROVE ReservedThere'
  BY <1>2 DEF ReservedThere, At, Tabs, Id
<1>3. ASSUME NEW t \in Tasks, Arrive(t) \/ LeaveQueue(t) PROVE ReservedThere'
  BY <1>1, <1>3, ArrivalFrees, SameTabsKeep, FreesReserved
<1>4. ASSUME NEW t \in Tasks,
             \/ BeginFails(t) \/ OpenFails(t) \/ ReadEnds(t)
             \/ ListFails(t) \/ StopDone(t) \/ RebuildFails(t)
             \/ StartOpen(t) \/ StartRead(t) \/ StartList(t) \/ ListSummary(t)
      PROVE  ReservedThere'
  <2>1. Frees(t) /\ reg'.tabs = reg.tabs
    BY <1>1, <1>4, HandsFree, HandsFreeSame DEF SameClaims
  <2>2. QED
    BY <1>1, <2>1, SameTabsKeep, FreesReserved
<1>5. CASE Next
  <2> PICK t \in Tasks :
          \/ Arrive(t) \/ LeaveQueue(t) \/ StayQueued(t)
          \/ Starts(t) \/ Ends(t)
          \/ PageAppears(t) \/ PageDestroyed(t)
          \/ MeetsCancel(t) \/ SwallowsCancel(t)
    BY <1>5 DEF Next
  <2>1. StayQueued(t) \/ SwallowsCancel(t) => ReservedThere'
    BY <1>2 DEF StayQueued, SwallowsCancel
  <2>2. Starts(t) => ReservedThere'
    BY <1>1, <1>4, ClaimActionReserved, ReserveReserved DEF Starts
  <2>3. Ends(t) => ReservedThere'
    BY <1>1, <1>4, OperationReserved, OpenReserved, CloseReserved, RebuildReserved DEF Ends
  <2>4. QED
    BY <1>1, <1>3, <2>1, <2>2, <2>3, OpenReserved, DestroyReserved, CancelReserved
<1>6. CASE UNCHANGED vars
  BY <1>2, <1>6 DEF vars
<1>7. QED
  BY <1>5, <1>6

LEMMA InitReserved == Init => ReservedThere /\ RebuildsAlone
BY DEF Init, Idle, ReservedThere, RebuildsAlone, At, Reserving

LEMMA AlwaysReserved == Spec => []ReservedThere
<1>1. Spec => [](AtTheGate /\ ClaimInv /\ Gate!ExclusiveIsolation)
  BY AlwaysAtTheGate, AlwaysClaims, AlwaysIsolated, PTL
<1>2. Spec => []RebuildsAlone
  BY InitReserved, StepRebuildsAlone, AlwaysAtTheGate, PTL DEF Spec
<1>3. QED
  BY <1>1, <1>2, InitReserved, StepReserved, PTL DEF Spec

LEMMA ExactlyClaimed == ClaimInv /\ ReservedThere => ClaimsExact
<1> SUFFICES ASSUME ClaimInv, ReservedThere PROVE ClaimsExact
  OBVIOUS
<1>1. DOMAIN reg.claims
          = {<<job[t].page, Id(t)>> : t \in {u \in Tasks : job[u].at \in Claiming}}
  BY DEF ClaimInv, ClaimsListed, At
<1>2. \A t \in Tasks : Id(t) # None
  BY IdsAreIds DEF ClaimInv
<1>3. \A p \in Tabs :
          /\ reg.tabs[p].busy # None <=> \E t \in Tasks :
                 job[t].at \in Claiming /\ job[t].page = p /\ reg.tabs[p].busy = Id(t)
          /\ reg.tabs[p].closing # None <=> \E t \in Tasks :
                 job[t].at \in Reserving /\ job[t].page = p /\ reg.tabs[p].closing = Id(t)
  BY <1>2 DEF ClaimInv, BusyExact, ClosingExact, At
<1>4. \A t \in Tasks : job[t].at \in Claiming =>
          ~Has(reg, job[t].page) \/ reg.tabs[job[t].page].busy = Id(t)
  BY DEF ClaimInv, BusyExact, At, Has, Tabs
<1>5. \A t \in Tasks : job[t].at \in Reserving =>
          Has(reg, job[t].page) /\ reg.tabs[job[t].page].closing = Id(t)
  BY DEF ReservedThere, At, Has, Tabs
<1>6. QED
  BY <1>1, <1>3, <1>4, <1>5 DEF ClaimsExact, Tabs

(* The claims and the reservations of the registry are those of the commands *)
(* under way, for any number of tasks, agents and pages.                     *)
THEOREM ClaimsAreExact == Spec => []ClaimsExact
BY AlwaysClaims, AlwaysReserved, ExactlyClaimed, PTL

(* close-tab cancels tasks of its own agent only, and only once the browser  *)
(* has destroyed the page.                                                   *)
THEOREM CancelsOwn == Spec => CancelOwnAfterClosure
<1> DEFINE Own ==
        \A u \in asked' \ asked : \E t \in Tasks :
           /\ AgentOf[t] = AgentOf[u]
           /\ job[t].at = "destroyed" /\ job[t].page \notin alive
           /\ job[t].target.task = u
<1>1. ASSUME NEW t \in Tasks, CloseConfirmed(t), ClaimInv PROVE Own
  <2>1. job[t].at = "destroyed" /\ asked' \subseteq asked \cup {job[t].target.task}
    <3>1. ASSUME Answer(t, TRUE) PROVE asked' \subseteq asked
      BY <3>1 DEF Answer, Over
    <3>2. QED
      BY <1>1, <3>1 DEF CloseConfirmed, Resumes
  <2>2. asked' \ asked # {} => job[t].target.task # None
    <3>1. Answer(t, TRUE) => asked' \subseteq asked
      BY DEF Answer, Over
    <3>2. QED
      BY <1>1, <3>1 DEF CloseConfirmed
  <2>3. job[t].page \notin alive
    BY <1>1, <2>1 DEF ClaimInv, DestroyedGone, At
  <2>4. job[t].target.task # None => AgentOf[job[t].target.task] = AgentOf[t]
    BY <1>1, <2>1 DEF ClaimInv, TargetsOwn, At, Reserving
  <2>5. QED
    BY <2>1, <2>2, <2>3, <2>4
<1>2. ASSUME NEW t \in Tasks, NEW ok, Answer(t, ok) PROVE asked' \subseteq asked
  BY <1>2 DEF Answer, Over
<1>3. ClaimInv /\ [Next]_vars => [Own]_vars
  <2> SUFFICES ASSUME ClaimInv, Next PROVE Own
    OBVIOUS
  <2> PICK t \in Tasks :
          \/ Arrive(t) \/ LeaveQueue(t) \/ StayQueued(t)
          \/ Starts(t) \/ Ends(t)
          \/ PageAppears(t) \/ PageDestroyed(t)
          \/ MeetsCancel(t) \/ SwallowsCancel(t)
    BY DEF Next
  <2>1. asked' \subseteq asked => Own
    OBVIOUS
  <2> HIDE DEF Own
  <2>2. Arrive(t) \/ LeaveQueue(t) \/ StayQueued(t) \/ PageAppears(t) \/ PageDestroyed(t)
        \/ MeetsCancel(t) \/ SwallowsCancel(t) => asked' \subseteq asked
    BY DEF Arrive, LeaveQueue, StayQueued, PageAppears, PageDestroyed, MeetsCancel, Over,
       SwallowsCancel
  <2>3. Starts(t) => asked' \subseteq asked
    BY <1>2 DEF Starts, ClaimActive, ClaimNamed, StartOpen, StartRead, StartList, ListNext,
       ReservePage
  <2>4. Ends(t) => asked' \subseteq asked \/ CloseConfirmed(t)
    BY <1>2 DEF Ends, BeginFails, OperationDone, SummaryDone, SwitchDone, OperationFails,
       OpenDone, OpenFails, ReadEnds, ListFails, StopDone, RebuildFails, ListSummary, ListNext,
       CloseUnconfirmed, Drained, RebuildDone
  <2>5. QED
    BY <1>1, <2>1, <2>2, <2>3, <2>4
<1>4. QED
  BY <1>3, AlwaysClaims, PTL DEF Spec, CancelOwnAfterClosure

-----------------------------------------------------------------------------
(* Sequences that list a set, each element once.                             *)
Lists(s, S) ==
    /\ s \in Seq(S)
    /\ \A i, j \in 1..Len(s) : s[i] = s[j] => i = j
    /\ \A p \in S : \E i \in 1..Len(s) : s[i] = p

LEMMA ListFacts ==
    ASSUME NEW S, NEW s, Lists(s, S)
    PROVE  /\ Len(s) \in Nat /\ DOMAIN s = 1..Len(s)
           /\ \A i \in 1..Len(s) : s[i] \in S
BY DEF Lists

LEMMA ListingCounts ==
    ASSUME NEW S, NEW s, Lists(s, S)
    PROVE  ToSet(s) = S /\ IsFiniteSet(S) /\ Len(s) = Cardinality(S)
<1> DEFINE n == Len(s)
<1>1. n \in Nat /\ DOMAIN s = 1..n /\ \A i \in 1..n : s[i] \in S
  BY ListFacts
<1>2. ToSet(s) = S
  BY <1>1 DEF ToSet, Lists
<1>3. s \in Bijection(1..n, S)
  <2>1. s \in [1..n -> S]
    BY <1>1 DEF Lists
  <2>2. s \in Injection(1..n, S)
    BY <1>1, <2>1 DEF Injection, IsInjective, Lists
  <2>3. s \in Surjection(1..n, S)
    BY <1>1, <2>1 DEF Surjection, Lists
  <2>4. QED
    BY <2>2, <2>3 DEF Bijection
<1>4. IsFiniteSet(1..n) /\ Cardinality(1..n) = n
  <2>1. 1 \in Int /\ n \in Int
    BY <1>1
  <2>2. IsFiniteSet(1..n) /\ Cardinality(1..n) = IF 1 > n THEN 0 ELSE n - 1 + 1
    BY <2>1, FS_Interval
  <2>3. QED
    BY <1>1, <2>2
<1>5. ExistsBijection(1..n, S)
  BY <1>3 DEF ExistsBijection
<1>6. IsFiniteSet(S) /\ Cardinality(S) = Cardinality(1..n)
  BY <1>4, <1>5, FS_Bijection
<1>7. QED
  BY <1>2, <1>4, <1>6

LEMMA ListsPlus ==
    ASSUME NEW S, NEW s, Lists(s, S), NEW p, p \notin S
    PROVE  Lists(Append(s, p), S \cup {p})
<1> DEFINE a == Append(s, p)
           T == S \cup {p}
           n == Len(s)
<1>1. n \in Nat /\ DOMAIN s = 1..n /\ \A i \in 1..n : s[i] \in S
  BY ListFacts
<1>2. s \in Seq(T)
  BY <1>1 DEF Lists
<1>3. /\ a \in Seq(T) /\ Len(a) = n + 1 /\ a[n + 1] = p
      /\ \A i \in 1..n : a[i] = s[i]
  BY <1>2, AppendProperties
<1> HIDE DEF a, n
<1>4. \A i \in 1..(n + 1) : i \in 1..n \/ i = n + 1
  BY <1>1
<1>5. ASSUME NEW i \in 1..(n + 1), NEW j \in 1..(n + 1), a[i] = a[j] PROVE i = j
  BY <1>1, <1>3, <1>4, <1>5 DEF Lists, n
<1>6. ASSUME NEW q \in T PROVE \E i \in 1..(n + 1) : a[i] = q
  <2>1. CASE q \in S
    <3>1. PICK i \in 1..n : s[i] = q
      BY <2>1 DEF Lists, n
    <3>2. i \in 1..(n + 1) /\ a[i] = q
      BY <1>1, <1>3, <3>1
    <3>3. QED
      BY <3>2
  <2>2. CASE q = p
    BY <1>1, <1>3, <2>2
  <2>3. QED
    BY <2>1, <2>2
<1>7. QED
  BY <1>3, <1>5, <1>6 DEF Lists, a

LEMMA ListsLess ==
    ASSUME NEW S, NEW s, Lists(s, S), NEW p
    PROVE  Lists(Without(s, p), S \ {p})
<1> DEFINE n == Len(s)
           T == S \ {p}
           w == Without(s, p)
<1>1. n \in Nat /\ DOMAIN s = 1..n /\ \A i \in 1..n : s[i] \in S
  BY ListFacts
<1>2. CASE \A i \in DOMAIN s : s[i] # p
  <2>1. w = s
    BY <1>2 DEF Without
  <2>2. T = S
    BY <1>1, <1>2 DEF Lists
  <2>3. QED
    BY <2>1, <2>2
<1>3. CASE ~(\A i \in DOMAIN s : s[i] # p)
  <2> DEFINE k == CHOOSE i \in DOMAIN s : s[i] = p
             left == SubSeq(s, 1, k - 1)
             right == SubSeq(s, k + 1, n)
  <2>1. w = left \o right
    BY <1>3 DEF Without, RemoveAt
  <2>2. k \in 1..n /\ s[k] = p
    BY <1>1, <1>3
  <2> HIDE DEF k, w
  <2>3. k - 1 \in Nat /\ k + 1 \in Int /\ n - k \in Nat
    BY <1>1, <2>2
  <2>4. \A i \in 1..n : i # k => s[i] \in T
    BY <1>1, <2>2 DEF Lists
  <2> HIDE DEF T
  <2>5. left \in Seq(T) /\ Len(left) = k - 1 /\ \A i \in 1..(k - 1) : left[i] = s[i]
    <3>1. \A i \in 1..(k - 1) : s[i] \in T
      BY <1>1, <2>2, <2>4
    <3>2. /\ left \in Seq(T)
          /\ Len(left) = IF 1 <= k - 1 THEN (k - 1) - 1 + 1 ELSE 0
          /\ \A i \in 1..((k - 1) - 1 + 1) : left[i] = s[1 + i - 1]
      BY <2>3, <3>1, SubSeqProperties
    <3> HIDE DEF left
    <3>3. QED
      BY <2>3, <3>2
  <2>6. right \in Seq(T) /\ Len(right) = n - k /\ \A i \in 1..(n - k) : right[i] = s[k + i]
    <3>1. \A i \in (k + 1)..n : s[i] \in T
      BY <1>1, <2>2, <2>4
    <3>2. /\ right \in Seq(T)
          /\ Len(right) = IF k + 1 <= n THEN n - (k + 1) + 1 ELSE 0
          /\ \A i \in 1..(n - (k + 1) + 1) : right[i] = s[k + 1 + i - 1]
      BY <1>1, <2>3, <3>1, SubSeqProperties
    <3> HIDE DEF right, n
    <3>3. ASSUME NEW i \in 1..(n - k) PROVE right[i] = s[k + i]
      <4>1. n \in Nat /\ k \in Int
        BY <1>1, <2>2
      <4>2. n - (k + 1) + 1 = n - k /\ k + 1 + i - 1 = k + i
        BY <4>1
      <4>3. QED
        BY <3>2, <4>2
    <3>4. (IF k + 1 <= n THEN n - (k + 1) + 1 ELSE 0) = n - k
      BY <1>1, <2>2
    <3>5. QED
      BY <3>2, <3>3, <3>4
  <2> HIDE DEF left, right, n
  <2>7. /\ w \in Seq(T) /\ Len(w) = n - 1
        /\ \A i \in 1..(n - 1) : w[i] = IF i < k THEN s[i] ELSE s[i + 1]
    <3>1. /\ w \in Seq(T) /\ Len(w) = Len(left) + Len(right)
          /\ \A i \in 1..(Len(left) + Len(right)) :
                w[i] = IF i <= Len(left) THEN left[i] ELSE right[i - Len(left)]
      BY <2>1, <2>5, <2>6, ConcatProperties
    <3>2. Len(left) + Len(right) = n - 1
      BY <1>1, <2>2, <2>5, <2>6
    <3>3. \A i \in 1..(n - 1) : w[i] = IF i <= k - 1 THEN left[i] ELSE right[i - (k - 1)]
      BY <2>5, <3>1, <3>2
    <3>4. ASSUME NEW i \in 1..(n - 1) PROVE w[i] = IF i < k THEN s[i] ELSE s[i + 1]
      <4>1. CASE i < k
        <5>1. i <= k - 1 /\ i \in 1..(k - 1)
          BY <1>1, <2>2, <4>1
        <5>2. QED
          BY <2>5, <3>3, <4>1, <5>1
      <4>2. CASE ~(i < k)
        <5>1. i - (k - 1) \in 1..(n - k) /\ k + (i - (k - 1)) = i + 1
          BY <1>1, <2>2, <4>2
        <5>2. w[i] = right[i - (k - 1)]
          <6>1. ~(i <= k - 1)
            BY <2>2, <4>2
          <6>2. QED
            BY <3>3, <6>1
        <5>3. QED
          BY <2>6, <4>2, <5>1, <5>2
      <4>3. QED
        BY <4>1, <4>2
    <3>5. QED
      BY <3>1, <3>2, <3>4
  <2>8. ASSUME NEW i \in 1..(n - 1), NEW j \in 1..(n - 1), w[i] = w[j] PROVE i = j
    <3> DEFINE f(m) == IF m < k THEN m ELSE m + 1
    <3>1. f(i) \in 1..n /\ w[i] = s[f(i)] /\ f(j) \in 1..n /\ w[j] = s[f(j)]
      BY <1>1, <2>2, <2>7
    <3>2. f(i) = f(j)
      <4> HIDE DEF f
      <4>1. s[f(i)] = s[f(j)]
        BY <2>8, <3>1
      <4>2. QED
        BY <3>1, <4>1 DEF Lists, n
    <3>3. QED
      BY <1>1, <2>2, <3>2
  <2>9. ASSUME NEW q \in T PROVE \E i \in 1..(n - 1) : w[i] = q
    <3>1. q \in S /\ q # p
      BY DEF T
    <3>2. PICK m \in 1..n : s[m] = q
      BY <3>1 DEF Lists, n
    <3>3. m # k
      BY <2>2, <3>1, <3>2
    <3>4. CASE m < k
      <4>1. m \in 1..(n - 1)
        BY <1>1, <2>2, <3>4
      <4>2. QED
        BY <2>7, <3>2, <3>4, <4>1
    <3>5. CASE m > k
      <4>1. m - 1 \in 1..(n - 1) /\ ~(m - 1 < k) /\ (m - 1) + 1 = m
        BY <1>1, <2>2, <3>5
      <4>2. w[m - 1] = q
        BY <2>7, <3>2, <4>1
      <4>3. QED
        BY <4>1, <4>2
    <3>6. QED
      BY <1>1, <2>2, <3>3, <3>4, <3>5
  <2>10. QED
    <3>1. Lists(w, T)
      BY <2>7, <2>8, <2>9 DEF Lists
    <3>2. QED
      BY <3>1 DEF w, T
<1>4. QED
  BY <1>2, <1>3

(* A set of numbers that is not empty has a least one... *)
LEMMA LeastNumber ==
    ASSUME NEW T, T \subseteq Nat, T # {}
    PROVE  \E x \in T : \A y \in T : ~(y < x)
<1> DEFINE R == {p \in Nat \X Nat : p[1] < p[2]}
<1>1. IsWellFoundedOn(R, Nat)
  BY NatLessThanWellFounded DEF OpToRel
<1> HIDE DEF R
<1>2. \E x \in T : \A y \in T : ~(<<y, x>> \in R)
  BY <1>1, WFMin
<1>3. ASSUME NEW x \in Nat, NEW y \in Nat, y < x
      PROVE  <<y, x>> \in R
  BY <1>3 DEF R
<1>4. QED
  BY <1>2, <1>3

(* ... and a set of indices of a sequence a greatest one. *)
LEMMA NewestExists ==
    ASSUME NEW n \in Nat, NEW S, S \subseteq 1..n, S # {}
    PROVE  Newest(S) \in S
<1> DEFINE T == {n - k : k \in S}
<1>1. T \subseteq Nat /\ T # {}
  <2>1. ASSUME NEW k \in S PROVE n - k \in Nat
    <3>1. k \in 1..n
      OBVIOUS
    <3>2. QED
      BY <3>1
  <2>2. QED
    BY <2>1
<1>2. PICK x \in T : \A y \in T : ~(y < x)
  BY <1>1, LeastNumber
<1>3. PICK k \in S : x = n - k
  BY <1>2
<1>4. ASSUME NEW i \in S PROVE i <= k
  <2>1. n - i \in T /\ ~(n - i < n - k)
    BY <1>2, <1>3
  <2>2. i \in Int /\ k \in Int
    OBVIOUS
  <2>3. QED
    BY <2>1, <2>2
<1>5. QED
  BY <1>4 DEF Newest

-----------------------------------------------------------------------------
(* A registry whose orders list its tabs, and whose active pages are right.  *)
OwnsSome(r, a) == \E p \in DOMAIN r.tabs : r.tabs[p].owner = a
ActiveIn(r) ==
    \A a \in Agents :
        IF OwnsSome(r, a) THEN Owns(r, a, r.active[a]) ELSE r.active[a] = None
Sound(r) ==
    /\ IsReg(r)
    /\ Lists(r.used, DOMAIN r.tabs) /\ Lists(r.made, DOMAIN r.tabs)
    /\ r.active \in [Agents -> Pages \cup {None}]
    /\ \A p \in DOMAIN r.tabs : p \in Pages /\ r.tabs[p].owner \in Agents
    /\ ActiveIn(r)

(* What the fields of a tab are, so far as updating one needs it. *)
IsTabs(f) ==
    /\ f = [p \in DOMAIN f |-> f[p]]
    /\ \A p \in DOMAIN f :
          f[p] = [owner |-> f[p].owner, busy |-> f[p].busy, closing |-> f[p].closing]

(* The tabs are the same and belong to the same agents. *)
SameOwners(r, s) ==
    /\ DOMAIN s.tabs = DOMAIN r.tabs
    /\ \A p \in DOMAIN r.tabs : s.tabs[p].owner = r.tabs[p].owner

LEMMA SoundSame ==
    ASSUME NEW r, Sound(r), NEW s, IsReg(s), SameOwners(r, s), SameOrders(r, s)
    PROVE  Sound(s)
<1>1. \A a : OwnsSome(s, a) <=> OwnsSome(r, a)
  BY DEF SameOwners, OwnsSome
<1>2. \A a, p : Owns(s, a, p) <=> Owns(r, a, p)
  BY DEF SameOwners, Owns, Has
<1>3. ActiveIn(s)
  BY <1>1, <1>2 DEF Sound, ActiveIn, SameOrders
<1>4. QED
  BY <1>3 DEF Sound, SameOwners, SameOrders

LEMMA ReusedLists ==
    ASSUME NEW S, NEW s, Lists(s, S), NEW p \in S
    PROVE  Lists(Append(Without(s, p), p), S)
<1>1. Lists(Without(s, p), S \ {p}) /\ p \notin S \ {p} /\ (S \ {p}) \cup {p} = S
  BY ListsLess
<1> DEFINE T == S \ {p}
           w == Without(s, p)
<1> HIDE DEF T, w
<1>2. Lists(w, T) /\ p \notin T /\ T \cup {p} = S
  BY <1>1 DEF T, w
<1>3. Lists(Append(w, p), T \cup {p})
  BY <1>2, ListsPlus
<1>4. QED
  BY <1>2, <1>3 DEF w

LEMMA SoundReused ==
    ASSUME NEW r, Sound(r), NEW p \in DOMAIN r.tabs, NEW s, IsReg(s), SameOwners(r, s),
           s.active = r.active, s.made = r.made, s.used = Append(Without(r.used, p), p)
    PROVE  Sound(s)
<1>1. \A a : OwnsSome(s, a) <=> OwnsSome(r, a)
  BY DEF SameOwners, OwnsSome
<1>2. \A a, q : Owns(s, a, q) <=> Owns(r, a, q)
  BY DEF SameOwners, Owns, Has
<1>3. ActiveIn(s)
  BY <1>1, <1>2 DEF Sound, ActiveIn
<1>4. Lists(s.used, DOMAIN s.tabs)
  BY ReusedLists DEF Sound, SameOwners
<1>5. QED
  BY <1>3, <1>4 DEF Sound, SameOwners

LEMMA UpdateSound ==
    ASSUME NEW r, Sound(r), NEW p \in DOMAIN r.tabs
    PROVE  Sound(UpdateTab(r, p)) /\ SameOwners(r, UpdateTab(r, p))
<1> DEFINE s == Touch(r, p)
<1>1. /\ IsReg(s) /\ s.tabs = r.tabs
      /\ s.active = r.active /\ s.made = r.made /\ s.used = Append(Without(r.used, p), p)
  BY TouchKeeps DEF Sound
<1> HIDE DEF s
<1>2. SameOwners(r, s)
  BY <1>1 DEF SameOwners
<1>3. Sound(s)
  BY <1>1, <1>2, SoundReused
<1>4. QED
  BY <1>2, <1>3 DEF s, UpdateTab

LEMMA ClaimSound ==
    ASSUME NEW r, Sound(r), NEW p \in DOMAIN r.tabs, NEW id, NEW t, IsTabs(r.tabs)
    PROVE  Sound(ClaimPage(r, p, id, t)) /\ SameOwners(r, ClaimPage(r, p, id, t))
<1> DEFINE s == ClaimPage(r, p, id, t)
<1>1. /\ IsReg(s) /\ s.tabs = TabsBusy(r.tabs, p, id)
      /\ s.active = r.active /\ s.made = r.made /\ s.used = Append(Without(r.used, p), p)
  BY ClaimPageDoes DEF Sound
<1> HIDE DEF s
<1>2. SameOwners(r, s)
  BY <1>1 DEF SameOwners, TabsBusy, IsTabs
<1>3. Sound(s)
  BY <1>1, <1>2, SoundReused
<1>4. QED
  BY <1>2, <1>3 DEF s

LEMMA ReleaseSound ==
    ASSUME NEW r, Sound(r), NEW p, NEW id, IsTabs(r.tabs)
    PROVE  Sound(ReleaseTab(r, p, id)) /\ SameOwners(r, ReleaseTab(r, p, id))
<1> DEFINE s == ReleaseTab(r, p, id)
<1>1. IsReg(s) /\ s.tabs = TabsIdle(r.tabs, p, id) /\ SameOrders(r, s)
  BY ReleaseTabDoes DEF Sound
<1> HIDE DEF s
<1>2. SameOwners(r, s)
  BY <1>1 DEF SameOwners, TabsIdle, IsTabs
<1>3. Sound(s)
  BY <1>1, <1>2, SoundSame
<1>4. QED
  BY <1>2, <1>3 DEF s

LEMMA BeginCloseSound ==
    ASSUME NEW r, Sound(r), NEW p, NEW id, IsTabs(r.tabs)
    PROVE  Sound(BeginClose(r, p, id)) /\ SameOwners(r, BeginClose(r, p, id))
<1> DEFINE s == BeginClose(r, p, id)
<1>1. IsReg(s) /\ s.tabs = TabsClosing(r.tabs, p, id) /\ SameOrders(r, s)
  BY BeginCloseDoes DEF Sound
<1> HIDE DEF s
<1>2. SameOwners(r, s)
  BY <1>1 DEF SameOwners, TabsClosing, IsTabs
<1>3. Sound(s)
  BY <1>1, <1>2, SoundSame
<1>4. QED
  BY <1>2, <1>3 DEF s

LEMMA EndCloseSound ==
    ASSUME NEW r, Sound(r), NEW p, NEW id, IsTabs(r.tabs)
    PROVE  Sound(EndClose(r, p, id)) /\ SameOwners(r, EndClose(r, p, id))
<1> DEFINE s == EndClose(r, p, id)
<1>1. IsReg(s) /\ s.tabs = TabsOpen(r.tabs, p, id) /\ SameOrders(r, s)
  BY EndCloseDoes DEF Sound
<1> HIDE DEF s
<1>2. SameOwners(r, s)
  BY <1>1 DEF SameOwners, TabsOpen, IsTabs
<1>3. Sound(s)
  BY <1>1, <1>2, SoundSame
<1>4. QED
  BY <1>2, <1>3 DEF s

LEMMA ActivateSound ==
    ASSUME NEW r, Sound(r), NEW a \in Agents, NEW p, Owns(r, a, p)
    PROVE  Sound(SetActiveTab(r, a, p)) /\ SameOwners(r, SetActiveTab(r, a, p))
<1> DEFINE s == SetActiveTab(r, a, p)
<1>1. /\ IsReg(s) /\ s.tabs = r.tabs /\ s.made = r.made
      /\ s.active = Activated(r.active, a, p) /\ s.used = Append(Without(r.used, p), p)
  BY SetActiveKeeps DEF Sound
<1> HIDE DEF s
<1>2. p \in DOMAIN r.tabs /\ p \in Pages
  BY DEF Owns, Has, Sound
<1>3. /\ s.active \in [Agents -> Pages \cup {None}] /\ s.active[a] = p
      /\ \A b \in Agents : b # a => s.active[b] = r.active[b]
  BY <1>1, <1>2 DEF Sound, Activated
<1>4. \A b, q : Owns(s, b, q) <=> Owns(r, b, q)
  BY <1>1 DEF Owns, Has
<1>5. \A b : OwnsSome(s, b) <=> OwnsSome(r, b)
  BY <1>1 DEF OwnsSome
<1>6. OwnsSome(r, a)
  BY <1>2 DEF Owns, OwnsSome
<1>7. ActiveIn(s)
  BY <1>3, <1>4, <1>5, <1>6 DEF ActiveIn, Sound
<1>8. Lists(s.used, DOMAIN s.tabs)
  BY <1>1, <1>2, ReusedLists DEF Sound
<1>9. SameOwners(r, s)
  BY <1>1 DEF SameOwners
<1>10. Sound(s)
  BY <1>1, <1>3, <1>7, <1>8 DEF Sound
<1>11. QED
  BY <1>9, <1>10 DEF s

LEMMA NewLists ==
    ASSUME NEW S, NEW s, Lists(s, S), NEW p, p \notin S
    PROVE  Lists(Append(Without(s, p), p), S \cup {p})
<1>1. Without(s, p) = s
  BY ListFacts DEF Without
<1>2. QED
  BY <1>1, ListsPlus

LEMMA AddSound ==
    ASSUME NEW r, Sound(r), NEW a \in Agents, NEW p \in Pages, p \notin DOMAIN r.tabs
    PROVE  LET s == AddTab(r, a, p)
           IN  Sound(s) /\ s.tabs = TabsAdded(r.tabs, p, a)
<1> DEFINE s == AddTab(r, a, p)
<1>1. /\ IsReg(s) /\ s.tabs = TabsAdded(r.tabs, p, a)
      /\ s.active = Activated(r.active, a, p)
      /\ s.used = Append(Without(r.used, p), p) /\ s.made = Append(Without(r.made, p), p)
  BY AddTabDoes DEF Sound
<1> HIDE DEF s
<1>2. /\ DOMAIN s.tabs = DOMAIN r.tabs \cup {p} /\ s.tabs[p].owner = a
      /\ \A q \in DOMAIN r.tabs : s.tabs[q] = r.tabs[q]
  BY <1>1 DEF TabsAdded
<1>3. /\ s.active \in [Agents -> Pages \cup {None}] /\ s.active[a] = p
      /\ \A b \in Agents : b # a => s.active[b] = r.active[b]
  BY <1>1 DEF Sound, Activated
<1>4. \A b, q : Owns(s, b, q) <=> Owns(r, b, q) \/ (b = a /\ q = p)
  BY <1>2 DEF Owns, Has
<1>5. \A b : OwnsSome(s, b) <=> OwnsSome(r, b) \/ b = a
  BY <1>2 DEF OwnsSome
<1>6. ActiveIn(s)
  BY <1>3, <1>4, <1>5 DEF ActiveIn, Sound
<1>7. Lists(s.used, DOMAIN s.tabs) /\ Lists(s.made, DOMAIN s.tabs)
  BY <1>1, <1>2, NewLists DEF Sound
<1>8. \A q \in DOMAIN s.tabs : q \in Pages /\ s.tabs[q].owner \in Agents
  BY <1>2 DEF Sound
<1>9. Sound(s)
  BY <1>1, <1>3, <1>6, <1>7, <1>8 DEF Sound
<1>10. QED
  BY <1>1, <1>9 DEF s

(* The page that the agent falls back on is another one of its own. *)
LEMMA FallBackOwned ==
    ASSUME NEW r, Sound(r), NEW a \in Agents, NEW p
    PROVE  IF \E q \in DOMAIN r.tabs \ {p} : r.tabs[q].owner = a
           THEN Owns(r, a, FallBack(r, a, p)) /\ FallBack(r, a, p) # p
           ELSE FallBack(r, a, p) = None
<1> DEFINE left == Without(r.used, p)
           S == DOMAIN r.tabs \ {p}
           mine == {i \in DOMAIN left : r.tabs[left[i]].owner = a}
<1>1. Lists(left, S)
  BY ListsLess DEF Sound
<1>2. FallBack(r, a, p) = IF mine = {} THEN None ELSE left[Newest(mine)]
  BY DEF FallBack
<1> HIDE DEF left
<1>3. /\ Len(left) \in Nat /\ DOMAIN left = 1..Len(left)
      /\ \A i \in 1..Len(left) : left[i] \in S
  BY <1>1, ListFacts
<1>4. mine # {} <=> \E q \in S : r.tabs[q].owner = a
  BY <1>1, <1>3 DEF Lists
<1>5. CASE mine = {}
  BY <1>2, <1>4, <1>5
<1>6. CASE mine # {}
  <2>1. Newest(mine) \in mine
    BY <1>3, <1>6, NewestExists
  <2> DEFINE k == Newest(mine)
  <2> HIDE DEF k
  <2>2. k \in 1..Len(left) /\ r.tabs[left[k]].owner = a
    BY <1>3, <2>1 DEF k
  <2>3. left[k] \in S
    BY <1>3, <2>2
  <2>4. FallBack(r, a, p) = left[k]
    BY <1>2, <1>6 DEF k
  <2>5. Owns(r, a, FallBack(r, a, p)) /\ FallBack(r, a, p) # p
    BY <2>2, <2>3, <2>4 DEF Owns, Has
  <2>6. QED
    BY <1>4, <1>6, <2>5
<1>7. QED
  BY <1>5, <1>6

LEMMA RemoveSound ==
    ASSUME NEW r, Sound(r), NEW a \in Agents, NEW p \in Pages, None \notin Pages,
           p \in DOMAIN r.tabs => r.tabs[p].owner = a
    PROVE  LET s == RemoveTab(r, a, p)
           IN  Sound(s) /\ s.tabs = TabsWithout(r.tabs, p)
<1> DEFINE s == RemoveTab(r, a, p)
<1>1. /\ IsReg(s) /\ s.tabs = TabsWithout(r.tabs, p) /\ s.active = FellBack(r, a, p)
      /\ s.used = Without(r.used, p) /\ s.made = Without(r.made, p)
  BY RemoveTabDoes DEF Sound
<1> HIDE DEF s
<1>2. /\ DOMAIN s.tabs = DOMAIN r.tabs \ {p}
      /\ \A q \in DOMAIN s.tabs : s.tabs[q] = r.tabs[q]
  BY <1>1 DEF TabsWithout
<1> DEFINE other == FallBack(r, a, p)
<1>3. IF OwnsSome(s, a) THEN Owns(r, a, other) /\ other # p ELSE other = None
  BY <1>2, FallBackOwned DEF OwnsSome
<1>0. s.active = [r.active EXCEPT ![a] = IF @ # p THEN @ ELSE other]
  BY <1>1 DEF FellBack
<1> HIDE DEF other
<1>4. other \in Pages \cup {None}
  BY <1>3 DEF Owns, Has, Sound
<1>5. /\ s.active \in [Agents -> Pages \cup {None}]
      /\ s.active[a] = IF r.active[a] # p THEN r.active[a] ELSE other
      /\ \A b \in Agents : b # a => s.active[b] = r.active[b]
  BY <1>0, <1>4 DEF Sound
<1>6. \A b, q : Owns(s, b, q) <=> Owns(r, b, q) /\ q # p
  BY <1>2 DEF Owns, Has
<1>7. ASSUME NEW b \in Agents, b # a
      PROVE  IF OwnsSome(s, b) THEN Owns(s, b, s.active[b]) ELSE s.active[b] = None
  <2>1. OwnsSome(s, b) <=> OwnsSome(r, b)
    BY <1>2, <1>7 DEF OwnsSome
  <2>2. IF OwnsSome(r, b) THEN Owns(r, b, r.active[b]) ELSE r.active[b] = None
    BY DEF Sound, ActiveIn
  <2>3. Owns(r, b, r.active[b]) => r.active[b] # p
    BY <1>7 DEF Owns, Has
  <2>4. QED
    BY <1>5, <1>6, <1>7, <2>1, <2>2, <2>3
<1>8. IF OwnsSome(s, a) THEN Owns(s, a, s.active[a]) ELSE s.active[a] = None
  <2>1. IF OwnsSome(r, a) THEN Owns(r, a, r.active[a]) ELSE r.active[a] = None
    BY DEF Sound, ActiveIn
  <2>2. CASE r.active[a] = p
    BY <1>3, <1>5, <1>6, <2>2
  <2>3. CASE r.active[a] # p
    <3>1. s.active[a] = r.active[a]
      BY <1>5, <2>3
    <3>2. CASE OwnsSome(r, a)
      <4>1. Owns(s, a, s.active[a])
        BY <1>6, <2>1, <2>3, <3>1, <3>2
      <4>2. OwnsSome(s, a)
        BY <4>1 DEF Owns, Has, OwnsSome
      <4>3. QED
        BY <4>1, <4>2
    <3>3. CASE ~OwnsSome(r, a)
      <4>1. ~OwnsSome(s, a)
        BY <1>2, <3>3 DEF OwnsSome
      <4>2. QED
        BY <2>1, <3>1, <3>3, <4>1
    <3>4. QED
      BY <3>2, <3>3
  <2>4. QED
    BY <2>2, <2>3
<1>9. ActiveIn(s)
  BY <1>7, <1>8 DEF ActiveIn
<1>10. Lists(s.used, DOMAIN s.tabs) /\ Lists(s.made, DOMAIN s.tabs)
  BY <1>1, <1>2, ListsLess DEF Sound
<1>11. \A q \in DOMAIN s.tabs : q \in Pages /\ s.tabs[q].owner \in Agents
  BY <1>2 DEF Sound
<1>12. Sound(s)
  BY <1>1, <1>5, <1>9, <1>10, <1>11 DEF Sound
<1>13. QED
  BY <1>1, <1>12 DEF s

LEMMA NothingListed == Lists(<< >>, {})
BY DEF Lists

LEMMA ClearSound ==
    ASSUME NEW r, IsReg(r)
    PROVE  LET s == ClearTabs(r) IN Sound(s) /\ s.tabs = << >>
<1> DEFINE s == ClearTabs(r)
<1>1. /\ IsReg(s) /\ s.tabs = << >>
      /\ s.active = [a \in Agents |-> None] /\ s.used = << >> /\ s.made = << >>
  BY ClearTabsDoes
<1> HIDE DEF s
<1>2. DOMAIN s.tabs = {}
  BY <1>1
<1>3. ActiveIn(s)
  BY <1>1, <1>2 DEF ActiveIn, OwnsSome
<1>4. Sound(s)
  BY <1>1, <1>2, <1>3, NothingListed DEF Sound
<1>5. QED
  BY <1>1, <1>4 DEF s

-----------------------------------------------------------------------------
(* The registry of the state is sound, and a close-tab works on a page of    *)
(* its own agent: so what it removes is the owner's, who falls back.         *)
ReservedOwn ==
    \A t \in Tasks : At(t, Reserving) =>
        /\ job[t].page \in Tabs => reg.tabs[job[t].page].owner = AgentOf[t]
        /\ job[t].target.task \in Tasks \cup {None}

TabsInv ==
    /\ Sound(reg) /\ ReservedOwn
    /\ born \subseteq Pages /\ asked \subseteq Tasks

OwnersStand(S) ==
    \A p \in Tabs' \ S : p \in Tabs /\ reg'.tabs[p].owner = reg.tabs[p].owner
OwnersStep(t) == OwnersStand({}) \/ (At(t, {"opened"}) /\ OwnersStand({job[t].page}))

LEMMA TabsAreTabs ==
    ASSUME Shapes
    PROVE  IsTabs(reg.tabs)
BY DEF Shapes, IsTabs, TabType

LEMMA OthersReserve ==
    ASSUME TabsInv, HeldPages, NEW t \in Tasks, \A u \in Tasks \ {t} : job'[u] = job[u],
           ~At(t, Reserving)', Sound(reg'), OwnersStep(t),
           born' \subseteq Pages, asked' \subseteq Tasks
    PROVE  TabsInv'
<1>1. ASSUME NEW u \in Tasks, At(u, Reserving)'
      PROVE  /\ job'[u].page \in Tabs' => reg'.tabs[job'[u].page].owner = AgentOf[u]
             /\ job'[u].target.task \in Tasks \cup {None}
  <2>1. u # t /\ job'[u] = job[u] /\ At(u, Reserving) /\ At(u, Holding)
    BY <1>1 DEF At, Holding
  <2>2. At(t, {"opened"}) => job[u].page # job[t].page
    BY <2>1 DEF HeldPages
  <2>3. job[u].page \in Tabs' =>
            job[u].page \in Tabs /\ reg'.tabs[job[u].page].owner = reg.tabs[job[u].page].owner
    BY <2>2 DEF OwnersStep, OwnersStand
  <2>4. QED
    BY <2>1, <2>3 DEF TabsInv, ReservedOwn
<1>2. ReservedOwn'
  BY <1>1 DEF ReservedOwn
<1>3. QED
  BY <1>2 DEF TabsInv

LEMMA AnswerAsks ==
    ASSUME NEW t \in Tasks, NEW ok, Answer(t, ok)
    PROVE  asked' \subseteq asked
BY DEF Answer, Over

LEMMA OwnersSame ==
    ASSUME NEW t, SameOwners(reg, reg')
    PROVE  OwnersStep(t)
BY DEF SameOwners, OwnersStep, OwnersStand, Tabs

LEMMA NothingChanges ==
    ASSUME TabsInv, reg' = reg, NEW t
    PROVE  Sound(reg') /\ OwnersStep(t)
BY DEF TabsInv, OwnersStep, OwnersStand, Tabs

(* update_tab and set the time of use: of a page that is there. *)
LEMMA UpdatedSound ==
    ASSUME TabsInv, NEW p, NEW answered \in BOOLEAN, NEW seen,
           seen = IF answered /\ CanUpdate(reg, p) THEN UpdateTab(reg, p) ELSE reg
    PROVE  Sound(seen) /\ SameOwners(reg, seen)
<1>1. CASE answered /\ CanUpdate(reg, p)
  BY <1>1, UpdateSound DEF TabsInv, CanUpdate, Has
<1>2. CASE ~(answered /\ CanUpdate(reg, p))
  BY <1>2 DEF TabsInv, SameOwners
<1>3. QED
  BY <1>1, <1>2

(* A command that answers and leaves a sound registry behind. *)
LEMMA FreedTabs ==
    ASSUME ClaimInv, TabsInv, NEW t \in Tasks, Frees(t), Sound(reg'), OwnersStep(t),
           born' = born, asked' \subseteq Tasks
    PROVE  TabsInv'
<1>1. /\ \A u \in Tasks \ {t} : job'[u] = job[u]
      /\ ~At(t, Reserving)'
  BY DEF Frees, At, Holding
<1>2. HeldPages /\ born' \subseteq Pages
  BY DEF ClaimInv, TabsInv
<1>3. QED
  BY <1>1, <1>2, OthersReserve

LEMMA ArrivalTabs ==
    ASSUME ClaimInv, AtTheGate, TabsInv, NEW t \in Tasks, Arrive(t) \/ LeaveQueue(t)
    PROVE  TabsInv'
<1>1. Frees(t) /\ UNCHANGED <<reg, born, asked>>
  BY ArrivalFrees DEF ClaimInv
<1>2. Sound(reg') /\ OwnersStep(t)
  BY <1>1, NothingChanges
<1>3. asked' \subseteq Tasks
  BY <1>1 DEF TabsInv
<1>4. QED
  BY <1>1, <1>2, <1>3, FreedTabs

LEMMA RefusedTabs ==
    ASSUME ClaimInv, TabsInv, NEW t \in Tasks, NEW ok, Answer(t, ok), UNCHANGED <<reg, born>>
    PROVE  TabsInv'
<1>1. Frees(t) /\ asked' \subseteq Tasks
  BY AnswerFrees, AnswerAsks DEF ClaimInv, TabsInv
<1>2. Sound(reg') /\ OwnersStep(t)
  BY NothingChanges
<1>3. QED
  BY <1>1, <1>2, FreedTabs

LEMMA HandsFreeTabs ==
    ASSUME ClaimInv, TabsInv, NEW t \in Tasks,
           \/ BeginFails(t) \/ OpenFails(t) \/ ReadEnds(t)
           \/ ListFails(t) \/ StopDone(t) \/ RebuildFails(t)
           \/ StartOpen(t) \/ StartRead(t) \/ StartList(t) \/ ListSummary(t)
    PROVE  TabsInv'
<1>1. Frees(t)
  BY HandsFree DEF ClaimInv
<1>2. born' = born /\ asked' \subseteq Tasks
  <2>1. asked' \subseteq asked
    BY AnswerAsks DEF BeginFails, OpenFails, ReadEnds, ListFails, StopDone, RebuildFails,
         StartOpen, StartRead, StartList,
       ListSummary, ListNext
  <2>2. QED
    BY <2>1 DEF TabsInv, BeginFails, OpenFails, ReadEnds, ListFails, StopDone, RebuildFails,
         StartOpen, StartRead, StartList,
       ListSummary
<1>3. Sound(reg') /\ OwnersStep(t)
  <2>1. CASE ListSummary(t)
    <3> DEFINE p == Head(job[t].todo)
    <3>1. PICK answered \in BOOLEAN :
             reg' = IF answered /\ CanUpdate(reg, p) THEN UpdateTab(reg, p) ELSE reg
      BY <2>1 DEF ListSummary
    <3> HIDE DEF p
    <3>2. Sound(reg') /\ SameOwners(reg, reg')
      BY <3>1, UpdatedSound
    <3>3. QED
      BY <3>2, OwnersSame
  <2>2. CASE reg' = reg
    BY <2>2, NothingChanges
  <2>3. QED
    BY <2>1, <2>2 DEF BeginFails, OpenFails, ReadEnds, ListFails, StopDone, RebuildFails,
         StartOpen, StartRead, StartList
<1>4. QED
  BY <1>1, <1>2, <1>3, FreedTabs

(* A command goes on under its claim. *)
LEMMA GoesOnTabs ==
    ASSUME ClaimInv, TabsInv, NEW t \in Tasks, NEW a \in Claiming \cup {"opened"}, NEW p,
           \/ job' = [job EXCEPT ![t].at = a, ![t].page = p]
           \/ job' = [job EXCEPT ![t].at = a],
           Sound(reg'), OwnersStep(t), born' \subseteq Pages, asked' = asked
    PROVE  TabsInv'
<1>1. JobShape /\ HeldPages /\ asked' \subseteq Tasks
  BY DEF ClaimInv, Shapes, TabsInv
<1>2. (\A u \in Tasks \ {t} : job'[u] = job[u]) /\ job'[t].at = a
  <2>1. CASE job' = [job EXCEPT ![t].at = a, ![t].page = p]
    <3>1. Moves(t, Job(job[t].prog, job[t].step, a, p, job[t].target, job[t].todo))
      BY <1>1, <2>1, AtAndPage
    <3>2. QED
      BY <3>1, MovedFields
  <2>2. CASE job' = [job EXCEPT ![t].at = a]
    <3>1. Moves(t, Job(job[t].prog, job[t].step, a, job[t].page, job[t].target, job[t].todo))
      BY <1>1, <2>2, AtOnly
    <3>2. QED
      BY <3>1, MovedFields
  <2>3. QED
    BY <2>1, <2>2
<1>3. ~At(t, Reserving)'
  BY <1>2 DEF At, Claiming, Reserving
<1>4. QED
  BY <1>1, <1>2, <1>3, OthersReserve

LEMMA ClaimActionTabs ==
    ASSUME ClaimInv, TabsInv, NEW t \in Tasks, ClaimActive(t) \/ ClaimNamed(t)
    PROVE  TabsInv'
<1>1. Sound(reg) /\ IsTabs(reg.tabs) /\ AgentOf[t] \in Agents /\ born' = born
  BY TabsAreTabs, CommandAssumption DEF ClaimInv, TabsInv, ClaimActive, ClaimNamed
<1>2. born' \subseteq Pages
  BY <1>1 DEF TabsInv
<1>3. CASE reg' = reg /\ Answer(t, FALSE)
  BY <1>1, <1>3, RefusedTabs
<1>4. CASE ClaimActive(t)
  <2> DEFINE p == ActiveTab(reg, AgentOf[t])
  <2>1. \/ reg' = reg /\ Answer(t, FALSE)
        \/ /\ MayClaim(reg, AgentOf[t], p, Id(t)) /\ asked' = asked
           /\ reg' = ClaimPage(reg, p, Id(t), t)
           /\ job' = [job EXCEPT ![t].at = "op", ![t].page = p]
    BY <1>4 DEF ClaimActive
  <2> HIDE DEF p
  <2>2. CASE /\ MayClaim(reg, AgentOf[t], p, Id(t)) /\ asked' = asked
             /\ reg' = ClaimPage(reg, p, Id(t), t)
             /\ job' = [job EXCEPT ![t].at = "op", ![t].page = p]
    <3>1. p \in DOMAIN reg.tabs
      BY <2>2 DEF MayClaim, Owns, Has
    <3>2. Sound(reg') /\ SameOwners(reg, reg')
      BY <1>1, <2>2, <3>1, ClaimSound
    <3>3. OwnersStep(t) /\ "op" \in Claiming \cup {"opened"}
      BY <3>2, OwnersSame DEF Claiming
    <3>4. QED
      BY <1>2, <2>2, <3>2, <3>3, GoesOnTabs
  <2>3. QED
    BY <1>3, <2>1, <2>2
<1>5. CASE ClaimNamed(t)
  <2> DEFINE p == Command(t).page
             a == AgentOf[t]
             r == ClaimPage(reg, p, Id(t), t)
  <2>1. \/ reg' = reg /\ Answer(t, FALSE)
        \/ /\ MayClaim(reg, a, p, Id(t)) /\ asked' = asked
           /\ reg' = SetActiveTab(r, a, p)
           /\ job' = [job EXCEPT ![t].at = "switching", ![t].page = p]
    BY <1>5 DEF ClaimNamed
  <2> HIDE DEF p
  <2>2. CASE /\ MayClaim(reg, a, p, Id(t)) /\ asked' = asked
             /\ reg' = SetActiveTab(r, a, p)
             /\ job' = [job EXCEPT ![t].at = "switching", ![t].page = p]
    <3>1. Owns(reg, a, p) /\ p \in DOMAIN reg.tabs
      BY <2>2 DEF MayClaim, Owns, Has
    <3>2. Sound(r) /\ SameOwners(reg, r)
      BY <1>1, <3>1, ClaimSound
    <3> HIDE DEF r
    <3>3. Owns(r, a, p)
      BY <3>1, <3>2 DEF SameOwners, Owns, Has
    <3>4. Sound(reg') /\ SameOwners(r, reg')
      BY <1>1, <2>2, <3>2, <3>3, ActivateSound
    <3>5. SameOwners(reg, reg')
      BY <3>2, <3>4 DEF SameOwners
    <3>6. OwnersStep(t) /\ "switching" \in Claiming \cup {"opened"}
      BY <3>5, OwnersSame DEF Claiming
    <3>7. QED
      BY <1>2, <2>2, <3>4, <3>6, GoesOnTabs
  <2>3. QED
    BY <1>3, <2>1, <2>2
<1>6. QED
  BY <1>4, <1>5

(* A claim is released in a registry that is as sound as before. *)
LEMMA ReleaseTabs ==
    ASSUME ClaimInv, TabsInv, NEW t \in Tasks, Frees(t), NEW seen, Sound(seen),
           SameOwners(reg, seen), IsTabs(seen.tabs), NEW p, NEW id,
           reg' = ReleaseTab(seen, p, id), born' = born, asked' \subseteq asked
    PROVE  TabsInv'
<1>1. Sound(reg') /\ SameOwners(seen, reg')
  BY ReleaseSound
<1>2. SameOwners(reg, reg')
  BY <1>1 DEF SameOwners
<1>3. OwnersStep(t) /\ asked' \subseteq Tasks
  BY <1>2, OwnersSame DEF TabsInv
<1>4. QED
  BY <1>1, <1>3, FreedTabs

LEMMA OperationTabs ==
    ASSUME ClaimInv, TabsInv, NEW t \in Tasks,
           OperationDone(t) \/ SummaryDone(t) \/ SwitchDone(t) \/ OperationFails(t)
    PROVE  TabsInv'
<1>1. /\ Sound(reg) /\ IsTabs(reg.tabs) /\ SameOwners(reg, reg) /\ born' = born
      /\ Shapes /\ IsReg(reg)
  BY TabsAreTabs DEF ClaimInv, Shapes, TabsInv, SameOwners, OperationDone, SummaryDone,
     SwitchDone, OperationFails
<1>2. CASE job' = [job EXCEPT ![t].at = "summary"] /\ reg' = reg /\ asked' = asked
  <2>1. "summary" \in Claiming \cup {"opened"} /\ born' \subseteq Pages
    BY <1>1 DEF Claiming, TabsInv
  <2>2. Sound(reg') /\ OwnersStep(t)
    BY <1>2, NothingChanges
  <2>3. QED
    BY <1>2, <2>1, <2>2, GoesOnTabs
<1>3. ASSUME NEW ok, Answer(t, ok), reg' = ReleaseTab(reg, job[t].page, Id(t)) PROVE TabsInv'
  <2>1. Frees(t) /\ asked' \subseteq asked
    BY <1>1, <1>3, AnswerFrees, AnswerAsks
  <2>2. QED
    BY <1>1, <1>3, <2>1, ReleaseTabs
<1>4. CASE SummaryDone(t)
  <2> DEFINE p == job[t].page
  <2>1. PICK answered \in BOOLEAN :
           LET seen == IF answered /\ CanUpdate(reg, p) THEN UpdateTab(reg, p) ELSE reg
           IN  /\ reg' = ReleaseTab(seen, p, Id(t))
               /\ Answer(t, HoldsClaim(seen, p, Id(t)))
    BY <1>4 DEF SummaryDone
  <2> DEFINE c == answered /\ CanUpdate(reg, p)
             seen == IF answered /\ CanUpdate(reg, p) THEN UpdateTab(reg, p) ELSE reg
  <2>2. Sound(seen) /\ SameOwners(reg, seen)
    BY UpdatedSound
  <2>3. seen.tabs = reg.tabs
    <3>1. c \in BOOLEAN /\ seen = IF c THEN UpdateTab(reg, p) ELSE reg
      BY DEF CanUpdate, Has
    <3> HIDE DEF c, seen
    <3>2. QED
      BY <1>1, <3>1, UpdateKeeps
  <2>4. /\ reg' = ReleaseTab(seen, p, Id(t))
        /\ Frees(t) /\ asked' \subseteq asked
    BY <1>1, <2>1, AnswerFrees, AnswerAsks
  <2> HIDE DEF seen
  <2>5. QED
    BY <1>1, <2>2, <2>3, <2>4, ReleaseTabs
<1>5. QED
  BY <1>2, <1>3, <1>4 DEF OperationDone, SwitchDone, OperationFails

LEMMA OpenTabs ==
    ASSUME ClaimInv, TabsInv, NEW t \in Tasks, PageAppears(t) \/ OpenDone(t)
    PROVE  TabsInv'
<1>1. CASE PageAppears(t)
  <2>1. PICK p \in Pages \ born :
           /\ born' = born \cup {p}
           /\ job' = [job EXCEPT ![t].at = "opened", ![t].page = p]
    BY <1>1 DEF PageAppears
  <2>2. born' \subseteq Pages /\ asked' = asked /\ reg' = reg
    BY <1>1, <2>1 DEF PageAppears, TabsInv
  <2>3. Sound(reg') /\ OwnersStep(t)
    BY <2>2, NothingChanges
  <2>4. QED
    BY <2>1, <2>2, <2>3, GoesOnTabs
<1>2. CASE OpenDone(t)
  <2> DEFINE p == job[t].page
  <2>1. /\ At(t, {"opened"}) /\ At(t, Holding) /\ born' = born /\ Answer(t, TRUE)
        /\ reg' = AddTab(reg, AgentOf[t], p)
    BY <1>2 DEF OpenDone, Resumes, At, Holding
  <2>2. Frees(t) /\ asked' \subseteq Tasks
    BY <2>1, AnswerFrees, AnswerAsks DEF ClaimInv, TabsInv
  <2>3. p \in Pages /\ p \notin DOMAIN reg.tabs /\ AgentOf[t] \in Agents
    BY <2>1, CommandAssumption DEF ClaimInv, HeldPages, TabsInv, Tabs
  <2> HIDE DEF p
  <2>4. Sound(reg') /\ reg'.tabs = TabsAdded(reg.tabs, p, AgentOf[t])
    BY <2>1, <2>3, AddSound DEF TabsInv
  <2>5. OwnersStep(t)
    BY <2>1, <2>4 DEF OwnersStep, OwnersStand, Tabs, TabsAdded, p
  <2>6. QED
    BY <2>1, <2>2, <2>4, <2>5, FreedTabs
<1>3. QED
  BY <1>1, <1>2

(* close-tab remembers a task, or nobody. *)
LEMMA ClaimantIsTask ==
    ASSUME ClaimInv, NEW p
    PROVE  Claimant(reg, p).task \in Tasks \cup {None}
<1> DEFINE c == <<p, reg.tabs[p].busy>>
<1>1. Claimant(reg, p).task = IF c \in DOMAIN reg.claims THEN reg.claims[c] ELSE None
  BY DEF Claimant
<1> HIDE DEF c
<1>2. c \in DOMAIN reg.claims => reg.claims[c] \in Tasks
  BY DEF ClaimInv, ClaimsListed, ClaimsOwn
<1>3. QED
  BY <1>1, <1>2

LEMMA ReserveTabs ==
    ASSUME ClaimInv, TabsInv, NEW t \in Tasks, ReservePage(t)
    PROVE  TabsInv'
<1> DEFINE a == AgentOf[t]
           p == IF Command(t).page = None THEN ActiveTab(reg, a) ELSE Command(t).page
<1>1. /\ Sound(reg) /\ IsTabs(reg.tabs) /\ JobShape /\ born' = born
      /\ ReservedOwn /\ born \subseteq Pages /\ asked \subseteq Tasks
  BY TabsAreTabs DEF ClaimInv, Shapes, TabsInv, ReservePage
<1>2. \/ reg' = reg /\ Answer(t, FALSE)
      \/ /\ MayBeginClose(reg, a, p) /\ asked' = asked
         /\ reg' = BeginClose(reg, p, Id(t))
         /\ job' = [job EXCEPT ![t].at = "closing", ![t].page = p,
                               ![t].target = Claimant(reg, p)]
  BY DEF ReservePage
<1> HIDE DEF p
<1>3. CASE reg' = reg /\ Answer(t, FALSE)
  BY <1>1, <1>3, RefusedTabs
<1>4. CASE /\ MayBeginClose(reg, a, p) /\ asked' = asked
           /\ reg' = BeginClose(reg, p, Id(t))
           /\ job' = [job EXCEPT ![t].at = "closing", ![t].page = p,
                                 ![t].target = Claimant(reg, p)]
  <2>1. p \in Tabs /\ reg.tabs[p].owner = AgentOf[t]
    BY <1>4 DEF MayBeginClose, Owns, Has, Tabs
  <2>2. Moves(t, Job(job[t].prog, job[t].step, "closing", p, Claimant(reg, p), job[t].todo))
    BY <1>1, <1>4, AtPageAndTarget
  <2>3. /\ \A u \in Tasks \ {t} : job'[u] = job[u]
        /\ job'[t].page = p /\ job'[t].target = Claimant(reg, p)
    BY <2>2, MovedFields
  <2>4. Sound(reg') /\ SameOwners(reg, reg')
    BY <1>1, <1>4, BeginCloseSound
  <2>5. \A q \in Tabs' : q \in Tabs /\ reg'.tabs[q].owner = reg.tabs[q].owner
    BY <2>4 DEF SameOwners, Tabs
  <2>6. ASSUME NEW u \in Tasks, At(u, Reserving)'
        PROVE  /\ job'[u].page \in Tabs' => reg'.tabs[job'[u].page].owner = AgentOf[u]
               /\ job'[u].target.task \in Tasks \cup {None}
    <3>1. CASE u = t
      BY <2>1, <2>3, <2>5, <3>1, ClaimantIsTask
    <3>2. CASE u # t
      <4>1. job'[u] = job[u] /\ At(u, Reserving)
        BY <2>3, <2>6, <3>2 DEF At
      <4>2. QED
        BY <1>1, <2>5, <4>1 DEF ReservedOwn
    <3>3. QED
      BY <3>1, <3>2
  <2>7. ReservedOwn'
    BY <2>6 DEF ReservedOwn
  <2>8. QED
    BY <1>1, <1>4, <2>4, <2>7 DEF TabsInv
<1>5. QED
  BY <1>2, <1>3, <1>4

LEMMA DestroyTabs ==
    ASSUME ClaimInv, TabsInv, NEW t \in Tasks, PageDestroyed(t)
    PROVE  TabsInv'
<1>1. JobShape /\ job' = [job EXCEPT ![t].at = "destroyed"] /\ At(t, Reserving)
  BY DEF ClaimInv, Shapes, PageDestroyed, At, Reserving
<1>2. Moves(t, Job(job[t].prog, job[t].step, "destroyed", job[t].page, job[t].target, job[t].todo))
  BY <1>1, AtOnly
<1>3. /\ \A u \in Tasks \ {t} : job'[u] = job[u]
      /\ job'[t].page = job[t].page /\ job'[t].target = job[t].target
  BY <1>2, MovedFields
<1>4. UNCHANGED <<reg, born, asked>>
  BY DEF PageDestroyed
<1>5. ASSUME NEW u \in Tasks, At(u, Reserving)'
      PROVE  /\ job'[u].page \in Tabs' => reg'.tabs[job'[u].page].owner = AgentOf[u]
             /\ job'[u].target.task \in Tasks \cup {None}
  <2>1. At(u, Reserving) /\ job'[u].page = job[u].page /\ job'[u].target = job[u].target
    BY <1>1, <1>3, <1>5 DEF At
  <2>2. QED
    BY <1>4, <2>1 DEF TabsInv, ReservedOwn, Tabs
<1>6. ReservedOwn'
  BY <1>5 DEF ReservedOwn
<1>7. QED
  BY <1>4, <1>6 DEF TabsInv

LEMMA EndTabs ==
    ASSUME ClaimInv, TabsInv, NEW t \in Tasks, Frees(t), NEW p, NEW id,
           reg' = EndClose(reg, p, id), born' = born, asked' \subseteq asked
    PROVE  TabsInv'
<1>1. Sound(reg') /\ SameOwners(reg, reg')
  BY EndCloseSound, TabsAreTabs DEF TabsInv, ClaimInv
<1>2. OwnersStep(t) /\ asked' \subseteq Tasks
  BY <1>1, OwnersSame DEF TabsInv
<1>3. QED
  BY <1>1, <1>2, FreedTabs

(* remove_tab: the page is the agent's own, if it is still there. *)
LEMMA ConfirmTabs ==
    ASSUME ClaimInv, TabsInv, NEW t \in Tasks, CloseConfirmed(t)
    PROVE  TabsInv'
<1> DEFINE p == job[t].page
           a == AgentOf[t]
<1>1. /\ At(t, Reserving) /\ At(t, Holding) /\ born' = born
      /\ reg' = RemoveTab(reg, a, p)
  BY DEF CloseConfirmed, Resumes, At, Holding, Reserving
<1>2. Frees(t)
  BY ConfirmedFrees DEF ClaimInv
<1>3. asked' \subseteq Tasks
  <2>1. job[t].target.task \in Tasks \cup {None}
    BY <1>1 DEF TabsInv, ReservedOwn
  <2>2. asked' \subseteq asked
        \/ (job[t].target.task # None /\ asked' = asked \cup {job[t].target.task})
    BY AnswerAsks DEF CloseConfirmed
  <2>3. QED
    BY <2>1, <2>2 DEF TabsInv
<1>4. /\ p \in Pages /\ None \notin Pages /\ a \in Agents
      /\ p \in DOMAIN reg.tabs => reg.tabs[p].owner = a
  BY <1>1, CommandAssumption DEF ClaimInv, HeldPages, TabsInv, ReservedOwn, Tabs
<1> HIDE DEF p, a
<1>5. Sound(reg') /\ reg'.tabs = TabsWithout(reg.tabs, p)
  BY <1>1, <1>4, RemoveSound DEF TabsInv
<1>6. OwnersStep(t)
  BY <1>5 DEF OwnersStep, OwnersStand, Tabs, TabsWithout
<1>7. QED
  BY <1>1, <1>2, <1>3, <1>5, <1>6, FreedTabs

LEMMA CloseTabs ==
    ASSUME ClaimInv, TabsInv, NEW t \in Tasks,
           CloseUnconfirmed(t) \/ Drained(t) \/ RebuildDone(t)
    PROVE  TabsInv'
<1>1. CASE CloseUnconfirmed(t) \/ Drained(t)
  <2>1. /\ Frees(t) /\ asked' \subseteq asked /\ born' = born
        /\ reg' = EndClose(reg, job[t].page, Id(t))
    BY <1>1, AnswerFrees, AnswerAsks DEF ClaimInv, CloseUnconfirmed, Drained
  <2>2. QED
    BY <2>1, EndTabs
<1>2. CASE RebuildDone(t)
  <2>1. /\ Frees(t) /\ asked' \subseteq asked /\ born' = born /\ reg' = ClearTabs(reg)
    BY <1>2, AnswerFrees, AnswerAsks DEF ClaimInv, RebuildDone
  <2>2. Sound(reg') /\ reg'.tabs = << >>
    BY <2>1, ClearSound DEF TabsInv, Sound
  <2>3. OwnersStep(t) /\ asked' \subseteq Tasks
    BY <2>1, <2>2 DEF OwnersStep, OwnersStand, Tabs, TabsInv
  <2>4. QED
    BY <2>1, <2>2, <2>3, FreedTabs
<1>3. QED
  BY <1>1, <1>2

LEMMA CancelTabs ==
    ASSUME ClaimInv, TabsInv, NEW t \in Tasks, MeetsCancel(t)
    PROVE  TabsInv'
<1>1. /\ Frees(t) /\ born' = born /\ asked' \subseteq asked
      /\ Sound(reg) /\ SameOwners(reg, reg) /\ IsTabs(reg.tabs)
  BY CancelledFrees, TabsAreTabs DEF ClaimInv, TabsInv, MeetsCancel, Over, SameOwners
<1>2. \/ reg' = ReleaseTab(reg, job[t].page, Id(t))
      \/ reg' = EndClose(reg, job[t].page, Id(t))
      \/ reg' = reg
  BY DEF MeetsCancel
<1>3. CASE reg' = ReleaseTab(reg, job[t].page, Id(t))
  BY <1>1, <1>3, ReleaseTabs
<1>4. CASE reg' = EndClose(reg, job[t].page, Id(t))
  BY <1>1, <1>4, EndTabs
<1>5. CASE reg' = reg
  <2>1. asked' \subseteq Tasks
    BY <1>1 DEF TabsInv
  <2>2. Sound(reg') /\ OwnersStep(t)
    BY <1>5, NothingChanges
  <2>3. QED
    BY <1>1, <2>1, <2>2, FreedTabs
<1>6. QED
  BY <1>2, <1>3, <1>4, <1>5

LEMMA StepTabs == TabsInv /\ ClaimInv /\ AtTheGate /\ [Next]_vars => TabsInv'
<1> SUFFICES ASSUME TabsInv, ClaimInv, AtTheGate, [Next]_vars PROVE TabsInv'
  OBVIOUS
<1>1. ASSUME UNCHANGED <<job, reg, born>>, asked' \subseteq asked PROVE TabsInv'
  <2>1. Sound(reg') /\ ReservedOwn'
    BY <1>1 DEF TabsInv, ReservedOwn, At, Tabs
  <2>2. QED
    BY <1>1, <2>1 DEF TabsInv
<1>2. CASE Next
  <2> PICK t \in Tasks :
          \/ Arrive(t) \/ LeaveQueue(t) \/ StayQueued(t)
          \/ Starts(t) \/ Ends(t)
          \/ PageAppears(t) \/ PageDestroyed(t)
          \/ MeetsCancel(t) \/ SwallowsCancel(t)
    BY <1>2 DEF Next
  <2>1. StayQueued(t) \/ SwallowsCancel(t) => TabsInv'
    BY <1>1 DEF StayQueued, SwallowsCancel
  <2>2. Starts(t) => TabsInv'
    BY HandsFreeTabs, ClaimActionTabs, ReserveTabs DEF Starts
  <2>3. Ends(t) => TabsInv'
    BY HandsFreeTabs, OperationTabs, OpenTabs, ConfirmTabs, CloseTabs DEF Ends
  <2>4. QED
    BY <2>1, <2>2, <2>3, ArrivalTabs, OpenTabs, DestroyTabs, CancelTabs
<1>3. CASE UNCHANGED vars
  BY <1>1, <1>3 DEF vars
<1>4. QED
  BY <1>2, <1>3

(* The tabs at the start: the agent's latest is its active one. *)
LEMMA FirstSound ==
    ASSUME NEW r, IsReg(r), r.tabs = FirstTabs, r.active = FirstActive,
           r.used = FirstOrder, r.made = FirstOrder
    PROVE  Sound(r)
<1> DEFINE n == Len(InitialTabs)
           P == {PageAt(i) : i \in OpenedAt}
           A(i) == InitialTabs[i][1]
<1>1. /\ n \in Nat /\ OpenedAt = 1..n
      /\ \A i \in OpenedAt : A(i) \in Agents /\ PageAt(i) \in Pages
      /\ \A i, j \in OpenedAt : PageAt(i) = PageAt(j) => i = j
  <2>1. n \in Nat /\ OpenedAt = 1..n
    BY CommandAssumption DEF OpenedAt
  <2>2. ASSUME NEW i \in OpenedAt PROVE A(i) \in Agents /\ PageAt(i) \in Pages
    <3>1. InitialTabs[i] \in Agents \X Pages
      BY <2>1, CommandAssumption
    <3>2. QED
      BY <3>1 DEF PageAt
  <2>3. \A i, j \in OpenedAt : PageAt(i) = PageAt(j) => i = j
    BY CommandAssumption DEF OpenedAt, PageAt
  <2>4. QED
    BY <2>1, <2>2, <2>3
<1>2. DOMAIN r.tabs = P /\ P \subseteq Pages
  BY <1>1 DEF FirstTabs
<1>3. \A i \in OpenedAt : PageAt(i) \in P /\ r.tabs[PageAt(i)].owner = A(i)
  BY <1>1 DEF FirstTabs
<1> HIDE DEF n, A
<1>4. Lists(FirstOrder, P)
  <2>1. FirstOrder \in Seq(P) /\ Len(FirstOrder) = n
    BY <1>1 DEF FirstOrder
  <2>2. \A i \in 1..n : FirstOrder[i] = PageAt(i)
    BY <1>1 DEF FirstOrder
  <2>3. QED
    BY <1>1, <2>1, <2>2 DEF Lists
<1>5. \A p \in P : p \in Pages /\ r.tabs[p].owner \in Agents
  BY <1>1, <1>2, <1>3
<1>6. ASSUME NEW a \in Agents
      PROVE  /\ r.active[a] \in Pages \cup {None}
             /\ IF OwnsSome(r, a) THEN Owns(r, a, r.active[a]) ELSE r.active[a] = None
  <2> DEFINE mine == {i \in OpenedAt : A(i) = a}
  <2>1. r.active[a] = IF mine = {} THEN None ELSE PageAt(Newest(mine))
    BY DEF FirstActive, A
  <2>2. OwnsSome(r, a) <=> mine # {}
    BY <1>2, <1>3 DEF OwnsSome
  <2>3. mine # {} => Newest(mine) \in mine
    BY <1>1, NewestExists
  <2>4. CASE mine # {}
    <3> DEFINE k == Newest(mine)
    <3>1. k \in OpenedAt /\ A(k) = a
      BY <2>3, <2>4
    <3> HIDE DEF k
    <3>2. PageAt(k) \in Pages /\ Owns(r, a, PageAt(k))
      BY <1>1, <1>2, <1>3, <3>1 DEF Owns, Has
    <3>3. QED
      BY <2>1, <2>2, <2>4, <3>2 DEF k
  <2>5. CASE mine = {}
    BY <2>1, <2>2, <2>5
  <2>6. QED
    BY <2>4, <2>5
<1>7. ActiveIn(r)
  BY <1>6 DEF ActiveIn
<1>8. r.active \in [Agents -> Pages \cup {None}]
  BY <1>6 DEF FirstActive
<1>9. QED
  BY <1>2, <1>4, <1>5, <1>7, <1>8 DEF Sound

LEMMA InitTabs == Init => TabsInv
<1> SUFFICES ASSUME Init PROVE TabsInv
  OBVIOUS
<1>1. Sound(reg)
  BY InitialRegistryIs, FirstSound DEF Init
<1>2. \A t \in Tasks : job[t].at = "idle"
  BY DEF Init, Idle
<1>3. ReservedOwn
  BY <1>2 DEF ReservedOwn, At, Reserving
<1>4. born = DOMAIN reg.tabs
  BY InitialRegistryIs DEF Init, FirstTabs
<1>5. QED
  BY <1>1, <1>3, <1>4 DEF TabsInv, Sound, Init

LEMMA AlwaysTabs == Spec => []TabsInv
BY InitTabs, StepTabs, AlwaysClaims, AlwaysAtTheGate, PTL DEF Spec

LEMMA SameGateTypes == [](Gate!TypeOK <=> GateProofs!TypeOK)
BY PTL DEF Gate!TypeOK, GateProofs!TypeOK, Gate!Exclusives, GateProofs!Exclusives,
   Gate!Places, GateProofs!Places, Gate!Kinds, GateProofs!Kinds, Gate!Shared, GateProofs!Shared

LEMMA GateTypes == Spec => []Gate!TypeOK
<1>1. GateProofs!GateAssumption
  BY CommandAssumption DEF GateProofs!GateAssumption, IsFiniteSet, GateProofs!IsFiniteSet,
     GateProofs!Kinds, GateProofs!Shared, GateProofs!Exclusives, Modes
<1>2. GateProofs!Spec => []GateProofs!TypeOK
  BY <1>1, GateProofs!TypeCorrect
<1>3. QED
  BY <1>2, CommandsUseTheGate, SameGate, SameGateTypes, PTL

(* The types of the registry and of the handlers: the order of use and that  *)
(* of creation list exactly the pages of the registry, each once.            *)
THEOREM TypeCorrect == Spec => []TypeOK
<1>1. Gate!TypeOK /\ TabsInv /\ ClaimInv /\ AtTheGate => TypeOK
  <2> SUFFICES ASSUME Gate!TypeOK, TabsInv, ClaimInv, AtTheGate PROVE TypeOK
    OBVIOUS
  <2>1. /\ Lists(reg.used, DOMAIN reg.tabs) /\ Lists(reg.made, DOMAIN reg.tabs)
        /\ reg.active \in [Agents -> Pages \cup {None}]
        /\ \A p \in DOMAIN reg.tabs : reg.tabs[p].owner \in Agents
        /\ asked \subseteq Tasks /\ born \subseteq Pages
    BY DEF TabsInv, Sound
  <2>2. /\ Len(reg.used) = Cardinality(DOMAIN reg.tabs)
        /\ ToSet(reg.used) = DOMAIN reg.tabs /\ ToSet(reg.made) = DOMAIN reg.tabs
    BY <2>1, ListingCounts
  <2>3. DOMAIN reg.tabs \subseteq born /\ alive \subseteq born
    BY DEF ClaimInv, Shapes, Tabs
  <2>4. \A t \in Tasks : job[t].at \in Awaits \cup Nowhere
    BY DEF AtTheGate, Sees
  <2>5. QED
    BY <2>1, <2>2, <2>3, <2>4 DEF TypeOK
<1>2. QED
  BY <1>1, GateTypes, AlwaysTabs, AlwaysClaims, AlwaysAtTheGate, PTL

(* An agent that has a page has an active one, and it is its own, whatever   *)
(* is opened, closed and cancelled under it, and by whom.                    *)
THEOREM ActivePagesOwned == Spec => []ActiveOwned
<1>1. TypeOK /\ TabsInv => ActiveOwned
  BY DEF TabsInv, Sound, ActiveIn, OwnsSome, ActiveOwned
<1>2. QED
  BY <1>1, TypeCorrect, AlwaysTabs, PTL

-----------------------------------------------------------------------------
(* The leases of the registry. Each method does to them what one action of   *)
(* PageLeases does, when what the handlers know holds.                       *)
Leased == [Leases!Next]_(Leases!leases)

LEMMA TaskOfId ==
    ASSUME Shapes, NEW t \in Tasks
    PROVE  TaskOf(Id(t)) = t
BY IdsAreIds DEF TaskOf, Id

LEMMA HasNothing ==
    ASSUME ClaimInv, NEW t \in Tasks, ~At(t, Claiming \cup Reserving)
    PROVE  Leases!HandsFree(t)
<1> SUFFICES ASSUME NEW p \in Tabs
             PROVE  TaskOf(reg.tabs[p].busy) # t /\ TaskOf(reg.tabs[p].closing) # t
  BY DEF Leases!HandsFree, Leases!Known, Tabs
<1>1. t # None
  BY CommandAssumption
<1>2. ASSUME TaskOf(reg.tabs[p].busy) = t PROVE FALSE
  <2>1. reg.tabs[p].busy # None
    BY <1>1, <1>2 DEF TaskOf
  <2>2. PICK u \in Tasks : At(u, Claiming) /\ reg.tabs[p].busy = Id(u)
    BY <2>1 DEF ClaimInv, BusyExact
  <2>3. u = t
    BY <1>2, <2>2, TaskOfId DEF ClaimInv
  <2>4. QED
    BY <2>2, <2>3 DEF At
<1>3. ASSUME TaskOf(reg.tabs[p].closing) = t PROVE FALSE
  <2>1. reg.tabs[p].closing # None
    BY <1>1, <1>3 DEF TaskOf
  <2>2. PICK u \in Tasks : At(u, Reserving) /\ reg.tabs[p].closing = Id(u)
    BY <2>1 DEF ClaimInv, ClosingExact
  <2>3. u = t
    BY <1>3, <2>2, TaskOfId DEF ClaimInv
  <2>4. QED
    BY <2>2, <2>3 DEF At
<1>4. QED
  BY <1>2, <1>3

LEMMA SameTabsLeased ==
    ASSUME reg'.tabs = reg.tabs
    PROVE  Leased
BY DEF Leased, Leases!leases

LEMMA BusyLeased ==
    ASSUME ClaimInv, NEW t \in Tasks, ~At(t, Claiming \cup Reserving), NEW p \in Tabs,
           reg.tabs[p].owner = AgentOf[t], reg.tabs[p].busy = None, reg.tabs[p].closing = None,
           reg'.tabs = TabsBusy(reg.tabs, p, Id(t))
    PROVE  Leased
<1>1. TaskOf(Id(t)) = t /\ TaskOf(None) = None /\ Shapes
  BY TaskOfId DEF ClaimInv, TaskOf
<1>2. /\ DOMAIN reg'.tabs = DOMAIN reg.tabs
      /\ \A q \in DOMAIN reg.tabs : /\ reg'.tabs[q].owner = reg.tabs[q].owner
                                    /\ reg'.tabs[q].closing = reg.tabs[q].closing
                                    /\ reg'.tabs[q].busy = IF q = p THEN Id(t) ELSE reg.tabs[q].busy
  BY <1>1 DEF TabsBusy, Tabs, Shapes, TabType
<1>3. Leases!Work(t, p)
  BY <1>1, <1>2, HasNothing DEF Leases!Work, Tabs
<1>4. QED
  BY <1>3 DEF Leased, Leases!Next, Leases!Known, Tabs

LEMMA IdleLeased ==
    ASSUME Shapes, NEW t \in Tasks, NEW p, reg'.tabs = TabsIdle(reg.tabs, p, Id(t))
    PROVE  Leased
<1>1. CASE p \in Tabs /\ reg.tabs[p].busy = Id(t)
  <2>1. TaskOf(Id(t)) = t /\ TaskOf(None) = None
    BY TaskOfId DEF TaskOf
  <2>2. /\ DOMAIN reg'.tabs = DOMAIN reg.tabs
        /\ \A q \in DOMAIN reg.tabs :
              /\ reg'.tabs[q].owner = reg.tabs[q].owner
              /\ reg'.tabs[q].closing = reg.tabs[q].closing
              /\ reg'.tabs[q].busy = IF q = p THEN None ELSE reg.tabs[q].busy
    BY <1>1 DEF TabsIdle, Tabs, Shapes, TabType
  <2>3. Leases!Rest(t, p)
    BY <1>1, <2>1, <2>2 DEF Leases!Rest, Tabs
  <2>4. QED
    BY <1>1, <2>3 DEF Leased, Leases!Next, Leases!Known, Tabs
<1>2. CASE ~(p \in Tabs /\ reg.tabs[p].busy = Id(t))
  BY <1>2, SameTabsLeased DEF TabsIdle, Tabs
<1>3. QED
  BY <1>1, <1>2

LEMMA ClosingLeased ==
    ASSUME ClaimInv, NEW t \in Tasks, ~At(t, Claiming \cup Reserving), NEW p \in Tabs,
           reg.tabs[p].owner = AgentOf[t], reg.tabs[p].closing = None,
           reg'.tabs = TabsClosing(reg.tabs, p, Id(t))
    PROVE  Leased
<1>1. TaskOf(Id(t)) = t /\ TaskOf(None) = None /\ Shapes
  BY TaskOfId DEF ClaimInv, TaskOf
<1>2. /\ DOMAIN reg'.tabs = DOMAIN reg.tabs
      /\ \A q \in DOMAIN reg.tabs :
            /\ reg'.tabs[q].owner = reg.tabs[q].owner
            /\ reg'.tabs[q].busy = reg.tabs[q].busy
            /\ reg'.tabs[q].closing = IF q = p THEN Id(t) ELSE reg.tabs[q].closing
  BY <1>1 DEF TabsClosing, Tabs, Shapes, TabType
<1>3. Leases!Reserve(t, p)
  BY <1>1, <1>2, HasNothing DEF Leases!Reserve, Tabs
<1>4. QED
  BY <1>3 DEF Leased, Leases!Next, Leases!Known, Tabs

LEMMA OpenLeased ==
    ASSUME Shapes, NEW t \in Tasks, NEW p, reg'.tabs = TabsOpen(reg.tabs, p, Id(t))
    PROVE  Leased
<1>1. CASE p \in Tabs /\ reg.tabs[p].closing = Id(t)
  <2>1. TaskOf(Id(t)) = t /\ TaskOf(None) = None
    BY TaskOfId DEF TaskOf
  <2>2. /\ DOMAIN reg'.tabs = DOMAIN reg.tabs
        /\ \A q \in DOMAIN reg.tabs :
              /\ reg'.tabs[q].owner = reg.tabs[q].owner
              /\ reg'.tabs[q].busy = reg.tabs[q].busy
              /\ reg'.tabs[q].closing = IF q = p THEN None ELSE reg.tabs[q].closing
    BY <1>1 DEF TabsOpen, Tabs, Shapes, TabType
  <2>3. Leases!Keep(t, p)
    BY <1>1, <2>1, <2>2 DEF Leases!Keep, Tabs
  <2>4. QED
    BY <1>1, <2>3 DEF Leased, Leases!Next, Leases!Known, Tabs
<1>2. CASE ~(p \in Tabs /\ reg.tabs[p].closing = Id(t))
  BY <1>2, SameTabsLeased DEF TabsOpen, Tabs
<1>3. QED
  BY <1>1, <1>2

LEMMA AddedLeased ==
    ASSUME NEW t \in Tasks, NEW p \in Pages, p \notin Tabs,
           reg'.tabs = TabsAdded(reg.tabs, p, AgentOf[t])
    PROVE  Leased
<1>1. TaskOf(None) = None
  BY DEF TaskOf
<1>2. /\ DOMAIN reg'.tabs = DOMAIN reg.tabs \cup {p}
      /\ reg'.tabs[p] = [owner |-> AgentOf[t], busy |-> None, closing |-> None]
      /\ \A q \in DOMAIN reg.tabs : q # p /\ reg'.tabs[q] = reg.tabs[q]
  BY DEF TabsAdded, Tabs
<1>3. Leases!Open(t, p)
  BY <1>1, <1>2 DEF Leases!Open, Leases!Add, Leases!Known, Tabs
<1>4. QED
  BY <1>3 DEF Leased, Leases!Next

LEMMA RemovedLeased ==
    ASSUME Shapes, NEW t \in Tasks, NEW p \in Tabs, reg.tabs[p].closing = Id(t),
           reg'.tabs = TabsWithout(reg.tabs, p)
    PROVE  Leased
<1>1. TaskOf(Id(t)) = t
  BY TaskOfId
<1>2. /\ DOMAIN reg'.tabs = DOMAIN reg.tabs \ {p}
      /\ \A q \in DOMAIN reg.tabs \ {p} : reg'.tabs[q] = reg.tabs[q]
  BY DEF TabsWithout, Tabs
<1>3. Leases!Forget(t, p)
  BY <1>1, <1>2 DEF Leases!Forget, Leases!Restrict, Leases!Known, Tabs
<1>4. QED
  BY <1>3 DEF Leased, Leases!Next, Leases!Known, Tabs

LEMMA ClearedLeased ==
    ASSUME ClaimInv, \A t \in Tasks : ~At(t, Claiming \cup Reserving), reg'.tabs = << >>
    PROVE  Leased
<1>1. \A t \in Tasks : Leases!HandsFree(t)
  BY HasNothing
<1>2. Leases!ForgetAll
  BY <1>1 DEF Leases!ForgetAll
<1>3. QED
  BY <1>2 DEF Leased, Leases!Next

LEMMA ClaimActionLeased ==
    ASSUME ClaimInv, NEW t \in Tasks, ClaimActive(t) \/ ClaimNamed(t)
    PROVE  Leased
<1>1. IsReg(reg) /\ ~At(t, Claiming \cup Reserving)
  BY DEF ClaimInv, Shapes, ClaimActive, ClaimNamed, Resumes, At, Claiming, Reserving
<1>2. ASSUME NEW p, MayClaim(reg, AgentOf[t], p, Id(t)),
             reg'.tabs = TabsBusy(reg.tabs, p, Id(t))
      PROVE  Leased
  <2>1. /\ p \in Tabs /\ reg.tabs[p].owner = AgentOf[t]
        /\ reg.tabs[p].busy = None /\ reg.tabs[p].closing = None
    BY <1>1, <1>2, MayClaimMeans
  <2>2. QED
    BY <1>1, <1>2, <2>1, BusyLeased
<1>3. CASE reg' = reg
  BY <1>3, SameTabsLeased
<1>4. CASE ClaimActive(t)
  <2> DEFINE p == ActiveTab(reg, AgentOf[t])
  <2>1. \/ reg' = reg
        \/ MayClaim(reg, AgentOf[t], p, Id(t)) /\ reg' = ClaimPage(reg, p, Id(t), t)
    BY <1>4 DEF ClaimActive
  <2> HIDE DEF p
  <2>2. QED
    BY <1>1, <1>2, <1>3, <2>1, ClaimPageDoes
<1>5. CASE ClaimNamed(t)
  <2> DEFINE p == Command(t).page
             r == ClaimPage(reg, p, Id(t), t)
  <2>1. \/ reg' = reg
        \/ MayClaim(reg, AgentOf[t], p, Id(t)) /\ reg' = SetActiveTab(r, AgentOf[t], p)
    BY <1>5 DEF ClaimNamed
  <2> HIDE DEF p
  <2>2. IsReg(r) /\ r.tabs = TabsBusy(reg.tabs, p, Id(t))
    BY <1>1, ClaimPageDoes
  <2> HIDE DEF r
  <2>3. QED
    BY <1>2, <1>3, <2>1, <2>2, SetActiveKeeps
<1>6. QED
  BY <1>4, <1>5

LEMMA OperationLeased ==
    ASSUME Shapes, NEW t \in Tasks,
           OperationDone(t) \/ SummaryDone(t) \/ SwitchDone(t) \/ OperationFails(t)
    PROVE  Leased
<1>1. IsReg(reg)
  BY DEF Shapes
<1>2. CASE reg' = reg
  BY <1>2, SameTabsLeased
<1>3. ASSUME NEW seen, IsReg(seen), seen.tabs = reg.tabs,
             reg' = ReleaseTab(seen, job[t].page, Id(t))
      PROVE  Leased
  BY <1>3, ReleaseTabDoes, IdleLeased
<1>4. CASE SummaryDone(t)
  <2> DEFINE p == job[t].page
  <2>1. PICK answered \in BOOLEAN :
           LET seen == IF answered /\ CanUpdate(reg, p) THEN UpdateTab(reg, p) ELSE reg
           IN  reg' = ReleaseTab(seen, p, Id(t))
    BY <1>4 DEF SummaryDone
  <2> DEFINE c == answered /\ CanUpdate(reg, p)
             seen == IF c THEN UpdateTab(reg, p) ELSE reg
  <2>2. c \in BOOLEAN
    BY DEF CanUpdate, Has
  <2>3. reg' = ReleaseTab(seen, p, Id(t))
    BY <2>1
  <2> HIDE DEF c
  <2>4. IsReg(seen) /\ seen.tabs = reg.tabs
    BY <1>1, <2>2, UpdateKeeps
  <2> HIDE DEF seen
  <2>5. QED
    BY <1>3, <2>3, <2>4
<1>5. QED
  BY <1>1, <1>2, <1>3, <1>4 DEF OperationDone, SwitchDone, OperationFails

LEMMA CloseLeased ==
    ASSUME ClaimInv, ReservedThere, NEW t \in Tasks,
           ReservePage(t) \/ CloseUnconfirmed(t) \/ Drained(t) \/ CloseConfirmed(t)
    PROVE  Leased
<1>1. IsReg(reg) /\ Shapes
  BY DEF ClaimInv, Shapes
<1>2. CASE ReservePage(t)
  <2> DEFINE a == AgentOf[t]
             p == IF Command(t).page = None THEN ActiveTab(reg, a) ELSE Command(t).page
  <2>1. \/ reg' = reg
        \/ MayBeginClose(reg, a, p) /\ reg' = BeginClose(reg, p, Id(t))
    BY <1>2 DEF ReservePage
  <2>2. ~At(t, Claiming \cup Reserving)
    BY <1>2 DEF ReservePage, Resumes, At, Claiming, Reserving
  <2> HIDE DEF p
  <2>3. CASE MayBeginClose(reg, a, p) /\ reg' = BeginClose(reg, p, Id(t))
    <3>1. p \in Tabs /\ reg.tabs[p].owner = a /\ reg.tabs[p].closing = None
      BY <2>3 DEF MayBeginClose, Owns, Has, Tabs
    <3>2. reg'.tabs = TabsClosing(reg.tabs, p, Id(t))
      BY <1>1, <2>3, BeginCloseDoes
    <3>3. QED
      BY <2>2, <3>1, <3>2, ClosingLeased
  <2>4. QED
    BY <2>1, <2>3, SameTabsLeased
<1>3. CASE CloseUnconfirmed(t) \/ Drained(t)
  <2>1. reg' = EndClose(reg, job[t].page, Id(t))
    BY <1>3 DEF CloseUnconfirmed, Drained
  <2>2. QED
    BY <1>1, <2>1, EndCloseDoes, OpenLeased
<1>4. CASE CloseConfirmed(t)
  <2> DEFINE p == job[t].page
             s == RemoveTab(reg, AgentOf[t], p)
  <2>1. At(t, Reserving) /\ reg' = s
    BY <1>4 DEF CloseConfirmed, Resumes, At, Reserving
  <2>2. p \in Tabs /\ reg.tabs[p].closing = Id(t)
    BY <2>1 DEF ReservedThere
  <2> HIDE DEF p
  <2>3. s.tabs = TabsWithout(reg.tabs, p)
    BY <1>1, RemoveTabDoes
  <2> HIDE DEF s
  <2>4. QED
    BY <1>1, <2>1, <2>2, <2>3, RemovedLeased
<1>5. QED
  BY <1>2, <1>3, <1>4

(* A rebuild forgets every page at once, and nobody has one in hand. *)
LEMMA RebuildLeased ==
    ASSUME ClaimInv, RebuildsAlone, AtTheGate, Gate!ExclusiveIsolation,
           NEW t \in Tasks, RebuildDone(t)
    PROVE  Leased
<1>1. At(t, {"rebuilding"}) /\ reg'.tabs = << >>
  BY ClearTabsDoes DEF RebuildDone, Resumes, At, ClaimInv, Shapes
<1>2. \A u \in Tasks \ {t} : ~Running(u)
  BY <1>1, RebuildRunsAlone
<1>3. \A u \in Tasks : ~At(u, Claiming \cup Reserving)
  BY <1>1, <1>2 DEF At, Running, Awaits, AtTheDriver, Claiming, Reserving
<1>4. QED
  BY <1>1, <1>3, ClearedLeased

LEMMA CancelLeased ==
    ASSUME Shapes, NEW t \in Tasks, MeetsCancel(t)
    PROVE  Leased
<1>1. IsReg(reg)
  BY DEF Shapes
<1>2. \/ reg' = ReleaseTab(reg, job[t].page, Id(t))
      \/ reg' = EndClose(reg, job[t].page, Id(t))
      \/ reg' = reg
  BY DEF MeetsCancel
<1>3. QED
  BY <1>1, <1>2, ReleaseTabDoes, EndCloseDoes, IdleLeased, OpenLeased, SameTabsLeased

LEMMA StepLeased ==
    ASSUME ClaimInv, TabsInv, ReservedThere, RebuildsAlone, AtTheGate, Gate!ExclusiveIsolation,
           [Next]_vars
    PROVE  Leased
<1>1. Shapes /\ IsReg(reg)
  BY DEF ClaimInv, Shapes
<1>2. CASE UNCHANGED reg
  BY <1>2, SameTabsLeased
<1>3. ASSUME NEW t \in Tasks, Arrive(t) \/ LeaveQueue(t) PROVE Leased
  BY <1>2, <1>3 DEF Arrive, LeaveQueue
<1>4. ASSUME NEW t \in Tasks,
             \/ BeginFails(t) \/ OpenFails(t) \/ ReadEnds(t)
             \/ ListFails(t) \/ StopDone(t) \/ RebuildFails(t)
             \/ StartOpen(t) \/ StartRead(t) \/ StartList(t) \/ ListSummary(t)
      PROVE  Leased
  BY <1>1, <1>4, HandsFreeSame, SameTabsLeased DEF SameClaims
<1>5. ASSUME NEW t \in Tasks, OpenDone(t) PROVE Leased
  <2>1. At(t, {"opened"}) /\ At(t, Holding) /\ reg' = AddTab(reg, AgentOf[t], job[t].page)
    BY <1>5 DEF OpenDone, Resumes, At, Holding
  <2>2. job[t].page \in Pages /\ job[t].page \notin Tabs
    BY <2>1 DEF ClaimInv, HeldPages, TabsInv
  <2>3. QED
    BY <1>1, <2>1, <2>2, AddTabDoes, AddedLeased
<1>6. CASE Next
  <2> PICK t \in Tasks :
          \/ Arrive(t) \/ LeaveQueue(t) \/ StayQueued(t)
          \/ Starts(t) \/ Ends(t)
          \/ PageAppears(t) \/ PageDestroyed(t)
          \/ MeetsCancel(t) \/ SwallowsCancel(t)
    BY <1>6 DEF Next
  <2>1. StayQueued(t) \/ SwallowsCancel(t) \/ PageAppears(t) \/ PageDestroyed(t) => Leased
    BY <1>2 DEF StayQueued, SwallowsCancel, PageAppears, PageDestroyed
  <2>2. Starts(t) => Leased
    BY <1>4, ClaimActionLeased, CloseLeased DEF Starts
  <2>3. Ends(t) => Leased
    BY <1>1, <1>4, <1>5, OperationLeased, CloseLeased, RebuildLeased DEF Ends
  <2>4. QED
    BY <1>1, <1>3, <2>1, <2>2, <2>3, CancelLeased
<1>7. QED
  BY <1>2, <1>6 DEF vars

LEMMA InitLeased == Init => Leases!Init
<1> SUFFICES ASSUME Init PROVE Leases!Init
  OBVIOUS
<1>1. ClaimInv /\ TabsInv
  BY InitClaims, InitTabs
<1>2. \A t \in Tasks : ~At(t, Claiming \cup Reserving)
  BY DEF Init, Idle, At, Claiming, Reserving
<1>3. \A p \in Tabs : reg.tabs[p].busy = None /\ reg.tabs[p].closing = None
  BY <1>1, <1>2 DEF ClaimInv, BusyExact, ClosingExact, At
<1>4. Tabs \subseteq Pages /\ \A p \in Tabs : reg.tabs[p].owner \in Agents
  BY <1>1 DEF ClaimInv, Shapes, TabType, TabsInv
<1>5. QED
  BY <1>3, <1>4 DEF Leases!Init, Leases!Known, TaskOf, Tabs

(* The pages of the registry are leased as PageLeases promises. *)
THEOREM LeasesAreKept == Spec => LeasesKept
<1>1. Spec => [](AtTheGate /\ ClaimInv /\ TabsInv /\ ReservedThere /\ Gate!ExclusiveIsolation)
  BY AlwaysAtTheGate, AlwaysClaims, AlwaysTabs, AlwaysReserved, AlwaysIsolated, PTL
<1>2. Spec => []RebuildsAlone
  BY InitReserved, StepRebuildsAlone, AlwaysAtTheGate, PTL DEF Spec
<1>3. ASSUME ClaimInv, TabsInv, ReservedThere, RebuildsAlone, AtTheGate, Gate!ExclusiveIsolation,
             [Next]_vars
      PROVE  [Leases!Next]_(Leases!leases)
  BY <1>3, StepLeased DEF Leased
<1>4. QED
  BY <1>1, <1>2, <1>3, InitLeased, PTL DEF Spec, LeasesKept, Leases!Spec

-----------------------------------------------------------------------------
(* A closed page interrupts. Whoever closes a page knows the task that works *)
(* on it: a claim can only be older than the reservation.                    *)
Interrupted ==
    \A t \in Tasks \ Lossy : At(t, Claiming) /\ job[t].page \notin Tabs => t \in asked

TargetKnown ==
    \A c, t \in Tasks :
        At(c, Reserving) /\ At(t, Claiming) /\ job[t].page = job[c].page
            => job[c].target = [id |-> Id(t), task |-> t]

InterruptInv == Interrupted /\ TargetKnown

(* Cancellations asked of the others stay asked. *)
StillAsked(t) == \A u \in Tasks \ {t} : u \in asked => u \in asked'

LEMMA AnswerStillAsks ==
    ASSUME JobShape, NEW t \in Tasks, NEW ok, Answer(t, ok)
    PROVE  StillAsked(t)
BY AnswerMoves DEF StillAsked

(* The step of a task that has no page in hand afterwards. *)
LEMMA FreeInterrupts ==
    ASSUME InterruptInv, NEW t \in Tasks, \A u \in Tasks \ {t} : job'[u] = job[u],
           ~At(t, Claiming)', ~At(t, Reserving)', Tabs \subseteq Tabs', StillAsked(t)
    PROVE  InterruptInv'
<1>1. \A u \in Tasks : At(u, Claiming)' => u # t /\ At(u, Claiming) /\ job'[u] = job[u]
  BY DEF At
<1>2. \A u \in Tasks : At(u, Reserving)' => u # t /\ At(u, Reserving) /\ job'[u] = job[u]
  BY DEF At
<1>3. Interrupted'
  BY <1>1 DEF InterruptInv, Interrupted, StillAsked
<1>4. TargetKnown'
  BY <1>1, <1>2 DEF InterruptInv, TargetKnown, Id
<1>5. QED
  BY <1>3, <1>4 DEF InterruptInv

LEMMA FreedInterrupts ==
    ASSUME InterruptInv, NEW t \in Tasks, Frees(t), Tabs \subseteq Tabs', StillAsked(t)
    PROVE  InterruptInv'
<1>1. /\ \A u \in Tasks \ {t} : job'[u] = job[u]
      /\ ~At(t, Claiming)' /\ ~At(t, Reserving)'
  BY DEF Frees, At, Holding
<1>2. QED
  BY <1>1, FreeInterrupts

LEMMA AnsweredInterrupts ==
    ASSUME InterruptInv, Shapes, NEW t \in Tasks, NEW ok, Answer(t, ok), Tabs \subseteq Tabs'
    PROVE  InterruptInv'
BY AnswerFrees, AnswerStillAsks, FreedInterrupts DEF Shapes

(* A command takes a page and goes on. *)
GoesOn(t, a, p) == job' = [job EXCEPT ![t].at = a, ![t].page = p]

LEMMA GoesTo ==
    ASSUME JobShape, NEW t \in Tasks, NEW a, NEW p, GoesOn(t, a, p)
    PROVE  /\ \A u \in Tasks \ {t} : job'[u] = job[u]
           /\ job'[t].at = a /\ job'[t].page = p
<1>1. Moves(t, Job(job[t].prog, job[t].step, a, p, job[t].target, job[t].todo))
  BY AtAndPage DEF GoesOn
<1>2. QED
  BY <1>1, MovedFields

(* A claim is granted on a page that nobody is closing. *)
LEMMA ClaimInterrupts ==
    ASSUME InterruptInv, ClaimInv, ReservedThere, NEW t \in Tasks, ~At(t, Claiming \cup Reserving),
           NEW p, MayClaim(reg, AgentOf[t], p, Id(t)), \A u \in Tasks \ {t} : job'[u] = job[u],
           At(t, Claiming)', job'[t].page = p, Tabs' = Tabs, asked' = asked
    PROVE  InterruptInv'
<1>1. /\ p \in Tabs /\ reg.tabs[p].owner = AgentOf[t]
      /\ reg.tabs[p].busy = None /\ reg.tabs[p].closing = None
  BY MayClaimMeans
<1>2. Shapes
  BY DEF ClaimInv
<1>3. \A u \in Tasks : At(u, Reserving)' => u # t
  BY DEF At, Claiming, Reserving
<1>4. \A u \in Tasks : At(u, Reserving)' => At(u, Reserving) /\ job'[u] = job[u]
  BY <1>3 DEF At
<1>5. \A u \in Tasks : At(u, Reserving) => job[u].page # p
  BY <1>1, <1>2, IdsAreIds DEF ReservedThere
<1>6. Interrupted'
  <2> SUFFICES ASSUME NEW u \in Tasks \ Lossy, At(u, Claiming)', job'[u].page \notin Tabs
               PROVE  u \in asked
    BY DEF Interrupted
  <2>1. u # t /\ job'[u] = job[u] /\ At(u, Claiming)
    BY <1>1 DEF At
  <2>2. QED
    BY <2>1 DEF InterruptInv, Interrupted
<1>7. ASSUME NEW c \in Tasks, NEW u \in Tasks, At(c, Reserving)', At(u, Claiming)',
             job'[u].page = job'[c].page
      PROVE  job'[c].target = [id |-> Id(u)', task |-> u]
  <2>1. At(c, Reserving) /\ job'[c] = job[c] /\ job[c].page # p
    BY <1>4, <1>5, <1>7
  <2>2. u # t /\ job'[u] = job[u] /\ At(u, Claiming)
    BY <1>7, <2>1 DEF At
  <2>3. QED
    BY <1>7, <2>1, <2>2 DEF InterruptInv, TargetKnown, Id
<1>8. QED
  BY <1>6, <1>7 DEF InterruptInv, TargetKnown

LEMMA ClaimActionInterrupts ==
    ASSUME InterruptInv, ClaimInv, ReservedThere, NEW t \in Tasks, ClaimActive(t) \/ ClaimNamed(t)
    PROVE  InterruptInv'
<1>1. JobShape /\ IsReg(reg) /\ Shapes
  BY DEF ClaimInv, Shapes
<1>2. ~At(t, Claiming \cup Reserving)
  BY DEF ClaimActive, ClaimNamed, Resumes, At, Claiming, Reserving
<1>3. CASE reg' = reg /\ Answer(t, FALSE)
  BY <1>1, <1>3, AnsweredInterrupts DEF Tabs
<1>4. CASE ClaimActive(t)
  <2> DEFINE p == ActiveTab(reg, AgentOf[t])
  <2>1. \/ reg' = reg /\ Answer(t, FALSE)
        \/ /\ MayClaim(reg, AgentOf[t], p, Id(t)) /\ asked' = asked
           /\ reg' = ClaimPage(reg, p, Id(t), t)
           /\ GoesOn(t, "op", p)
    BY <1>4 DEF ClaimActive, GoesOn
  <2> HIDE DEF p
  <2>2. CASE /\ MayClaim(reg, AgentOf[t], p, Id(t)) /\ asked' = asked
             /\ reg' = ClaimPage(reg, p, Id(t), t)
             /\ GoesOn(t, "op", p)
    <3>1. reg'.tabs = TabsBusy(reg.tabs, p, Id(t))
      BY <1>1, <2>2, ClaimPageDoes
    <3>2. Tabs' = Tabs
      BY <3>1 DEF Tabs, TabsBusy
    <3>3. /\ \A u \in Tasks \ {t} : job'[u] = job[u]
          /\ job'[t].at = "op" /\ job'[t].page = p
      BY <1>1, <2>2, GoesTo
    <3>4. At(t, Claiming)'
      BY <3>3 DEF At, Claiming
    <3>5. QED
      BY <1>2, <2>2, <3>2, <3>3, <3>4, ClaimInterrupts
  <2>3. QED
    BY <1>3, <2>1, <2>2
<1>5. CASE ClaimNamed(t)
  <2> DEFINE p == Command(t).page
             r == ClaimPage(reg, p, Id(t), t)
  <2>1. \/ reg' = reg /\ Answer(t, FALSE)
        \/ /\ MayClaim(reg, AgentOf[t], p, Id(t)) /\ asked' = asked
           /\ reg' = SetActiveTab(r, AgentOf[t], p)
           /\ GoesOn(t, "switching", p)
    BY <1>5 DEF ClaimNamed, GoesOn
  <2> HIDE DEF p
  <2>2. IsReg(r) /\ r.tabs = TabsBusy(reg.tabs, p, Id(t))
    BY <1>1, ClaimPageDoes
  <2> HIDE DEF r
  <2>3. SetActiveTab(r, AgentOf[t], p).tabs = r.tabs
    BY <2>2, SetActiveKeeps
  <2>4. CASE /\ MayClaim(reg, AgentOf[t], p, Id(t)) /\ asked' = asked
             /\ reg' = SetActiveTab(r, AgentOf[t], p)
             /\ GoesOn(t, "switching", p)
    <3>1. Tabs' = Tabs
      BY <2>2, <2>3, <2>4 DEF Tabs, TabsBusy
    <3>2. /\ \A u \in Tasks \ {t} : job'[u] = job[u]
          /\ job'[t].at = "switching" /\ job'[t].page = p
      BY <1>1, <2>4, GoesTo
    <3>3. At(t, Claiming)'
      BY <3>2 DEF At, Claiming
    <3>4. QED
      BY <1>2, <2>4, <3>1, <3>2, <3>3, ClaimInterrupts
  <2>5. QED
    BY <1>3, <2>1, <2>4
<1>6. QED
  BY <1>4, <1>5

(* The claim of a page names whoever is at work on it. *)
LEMMA ClaimantKnown ==
    ASSUME ClaimInv, NEW u \in Tasks, At(u, Claiming), job[u].page \in Tabs
    PROVE  Claimant(reg, job[u].page) = [id |-> Id(u), task |-> u]
<1>1. reg.tabs[job[u].page].busy = Id(u)
  BY DEF ClaimInv, BusyExact
<1>2. /\ <<job[u].page, Id(u)>> \in DOMAIN reg.claims
      /\ reg.claims[<<job[u].page, Id(u)>>] = u
  BY DEF ClaimInv, ClaimsListed, ClaimsOwn
<1>3. QED
  BY <1>1, <1>2 DEF Claimant

LEMMA ReserveInterrupts ==
    ASSUME InterruptInv, ClaimInv, NEW t \in Tasks, ReservePage(t)
    PROVE  InterruptInv'
<1> DEFINE a == AgentOf[t]
           p == IF Command(t).page = None THEN ActiveTab(reg, a) ELSE Command(t).page
<1>1. Shapes /\ JobShape
  BY DEF ClaimInv, Shapes
<1>2. \/ reg' = reg /\ Answer(t, FALSE)
      \/ /\ MayBeginClose(reg, a, p) /\ asked' = asked
         /\ reg' = BeginClose(reg, p, Id(t))
         /\ job' = [job EXCEPT ![t].at = "closing", ![t].page = p,
                               ![t].target = Claimant(reg, p)]
  BY DEF ReservePage
<1> HIDE DEF p
<1>3. CASE reg' = reg /\ Answer(t, FALSE)
  BY <1>1, <1>3, AnsweredInterrupts DEF Tabs
<1>4. CASE /\ MayBeginClose(reg, a, p) /\ asked' = asked
           /\ reg' = BeginClose(reg, p, Id(t))
           /\ job' = [job EXCEPT ![t].at = "closing", ![t].page = p,
                                 ![t].target = Claimant(reg, p)]
  <2>1. p \in Tabs
    BY <1>4 DEF MayBeginClose, Owns, Has, Tabs
  <2>2. Moves(t, Job(job[t].prog, job[t].step, "closing", p, Claimant(reg, p), job[t].todo))
    BY <1>1, <1>4, AtPageAndTarget
  <2>3. /\ \A u \in Tasks \ {t} : job'[u] = job[u]
        /\ job'[t].at = "closing" /\ job'[t].page = p /\ job'[t].target = Claimant(reg, p)
    BY <2>2, MovedFields
  <2>4. reg'.tabs = TabsClosing(reg.tabs, p, Id(t))
    BY <1>1, <1>4, BeginCloseDoes DEF Shapes
  <2>5. Tabs' = Tabs
    BY <2>4 DEF Tabs, TabsClosing
  <2>6. \A u \in Tasks : At(u, Claiming)' => u # t /\ At(u, Claiming) /\ job'[u] = job[u]
    BY <2>3 DEF At, Claiming
  <2>7. Interrupted'
    BY <1>4, <2>5, <2>6 DEF InterruptInv, Interrupted
  <2>8. ASSUME NEW c \in Tasks, NEW u \in Tasks, At(c, Reserving)', At(u, Claiming)',
               job'[u].page = job'[c].page
        PROVE  job'[c].target = [id |-> Id(u)', task |-> u]
    <3>1. u # t /\ At(u, Claiming) /\ job'[u] = job[u] /\ Id(u)' = Id(u)
      BY <2>6, <2>8 DEF Id
    <3>2. CASE c = t
      BY <2>1, <2>3, <2>8, <3>1, <3>2, ClaimantKnown
    <3>3. CASE c # t
      BY <2>3, <2>8, <3>1, <3>3 DEF InterruptInv, TargetKnown, At
    <3>4. QED
      BY <3>2, <3>3
  <2>9. QED
    BY <2>7, <2>8 DEF InterruptInv, TargetKnown
<1>5. QED
  BY <1>2, <1>3, <1>4

(* The browser's answer to an operation: the summary is next, or the end. *)
LEMMA SameWorkInterrupts ==
    ASSUME InterruptInv, NEW t \in Tasks, \A u \in Tasks \ {t} : job'[u] = job[u],
           At(t, Claiming)' <=> At(t, Claiming), At(t, Reserving)' <=> At(t, Reserving),
           job'[t].page = job[t].page, job'[t].step = job[t].step,
           job'[t].target = job[t].target, Tabs' = Tabs, asked' = asked
    PROVE  InterruptInv'
<1>1. \A u \in Tasks :
          /\ At(u, Claiming)' <=> At(u, Claiming)
          /\ At(u, Reserving)' <=> At(u, Reserving)
          /\ job'[u].page = job[u].page /\ job'[u].target = job[u].target /\ Id(u)' = Id(u)
  BY DEF At, Id
<1>2. QED
  BY <1>1 DEF InterruptInv, Interrupted, TargetKnown

LEMMA OperationInterrupts ==
    ASSUME InterruptInv, Shapes, NEW t \in Tasks,
           OperationDone(t) \/ SummaryDone(t) \/ SwitchDone(t) \/ OperationFails(t)
    PROVE  InterruptInv'
<1>1. IsReg(reg) /\ JobShape
  BY DEF Shapes
<1>2. CASE /\ At(t, {"op"}) /\ asked' = asked /\ reg' = reg
           /\ job' = [job EXCEPT ![t].at = "summary"]
  <2>1. Moves(t, Job(job[t].prog, job[t].step, "summary", job[t].page, job[t].target, job[t].todo))
    BY <1>1, <1>2, AtOnly
  <2>2. /\ JobShape' /\ \A u \in Tasks \ {t} : job'[u] = job[u]
        /\ job'[t].at = "summary" /\ job'[t].page = job[t].page /\ job'[t].step = job[t].step
        /\ job'[t].target = job[t].target
    BY <2>1, MovedFields
  <2>3. /\ At(t, Claiming)' <=> At(t, Claiming)
        /\ At(t, Reserving)' <=> At(t, Reserving)
    BY <1>2, <2>2 DEF At, Claiming, Reserving
  <2>4. Tabs' = Tabs
    BY <1>2 DEF Tabs
  <2>5. QED
    BY <1>2, <2>2, <2>3, <2>4, SameWorkInterrupts
<1>3. ASSUME NEW seen, IsReg(seen), seen.tabs = reg.tabs,
             reg' = ReleaseTab(seen, job[t].page, Id(t)), NEW ok, Answer(t, ok)
      PROVE  InterruptInv'
  <2>1. reg'.tabs = TabsIdle(reg.tabs, job[t].page, Id(t))
    BY <1>3, ReleaseTabDoes
  <2>2. Tabs' = Tabs
    BY <2>1 DEF Tabs, TabsIdle
  <2>3. QED
    BY <1>3, <2>2, AnsweredInterrupts
<1>4. CASE SummaryDone(t)
  <2> DEFINE p == job[t].page
  <2>1. PICK answered \in BOOLEAN :
           LET seen == IF answered /\ CanUpdate(reg, p) THEN UpdateTab(reg, p) ELSE reg
           IN  /\ reg' = ReleaseTab(seen, p, Id(t))
               /\ Answer(t, HoldsClaim(seen, p, Id(t)))
    BY <1>4 DEF SummaryDone
  <2> DEFINE c == answered /\ CanUpdate(reg, p)
             seen == IF c THEN UpdateTab(reg, p) ELSE reg
  <2>2. c \in BOOLEAN
    BY DEF CanUpdate, Has
  <2> HIDE DEF c
  <2>3. IsReg(seen) /\ seen.tabs = reg.tabs
    BY <1>1, <2>2, UpdateKeeps
  <2>4. reg' = ReleaseTab(seen, p, Id(t)) /\ Answer(t, HoldsClaim(seen, p, Id(t)))
    BY <2>1 DEF c
  <2> HIDE DEF seen
  <2>5. QED
    BY <1>3, <2>3, <2>4
<1>5. QED
  BY <1>1, <1>2, <1>3, <1>4 DEF OperationDone, SwitchDone, OperationFails, Resumes, At

LEMMA OpenInterrupts ==
    ASSUME InterruptInv, Shapes, NEW t \in Tasks, PageAppears(t) \/ OpenDone(t)
    PROVE  InterruptInv'
<1>1. IsReg(reg) /\ JobShape
  BY DEF Shapes
<1>2. CASE PageAppears(t)
  <2>1. PICK p \in Pages \ born : GoesOn(t, "opened", p)
    BY <1>2 DEF PageAppears, GoesOn
  <2>2. (\A u \in Tasks \ {t} : job'[u] = job[u]) /\ job'[t].at = "opened"
    BY <1>1, <2>1, GoesTo
  <2>3. ~At(t, Claiming)' /\ ~At(t, Reserving)'
    BY <2>2 DEF At, Claiming, Reserving
  <2>4. Tabs' = Tabs /\ StillAsked(t)
    BY <1>2 DEF PageAppears, Tabs, StillAsked
  <2>5. QED
    BY <2>2, <2>3, <2>4, FreeInterrupts
<1>3. CASE OpenDone(t)
  <2>1. reg'.tabs = TabsAdded(reg.tabs, job[t].page, AgentOf[t])
    BY <1>1, <1>3, AddTabDoes DEF OpenDone
  <2>2. Tabs \subseteq Tabs'
    BY <2>1 DEF Tabs, TabsAdded
  <2>3. QED
    BY <1>3, <2>2, AnsweredInterrupts DEF OpenDone
<1>4. QED
  BY <1>2, <1>3

(* A confirmed closure asks the task that works on the page, if one does. *)
LEMMA ConfirmInterrupts ==
    ASSUME InterruptInv, ClaimInv, NEW t \in Tasks, CloseConfirmed(t)
    PROVE  InterruptInv'
<1>1. Shapes /\ JobShape /\ IsReg(reg)
  BY DEF ClaimInv, Shapes
<1>2. /\ \A u \in Tasks \ {t} : job'[u] = job[u]
      /\ ~At(t, Claiming)' /\ ~At(t, Reserving)'
  BY <1>1, ConfirmedFrees DEF Frees, At, Holding
<1>3. At(t, Reserving) /\ ~At(t, Claiming)
  BY DEF CloseConfirmed, Resumes, At, Claiming, Reserving
<1>4. Tabs' = Tabs \ {job[t].page}
  <2> DEFINE r == RemoveTab(reg, AgentOf[t], job[t].page)
  <2>1. reg' = r
    BY DEF CloseConfirmed
  <2>2. r.tabs = TabsWithout(reg.tabs, job[t].page)
    BY <1>1, RemoveTabDoes
  <2> HIDE DEF r
  <2>3. QED
    BY <2>1, <2>2 DEF Tabs, TabsWithout
<1>5. StillAsked(t)
  <2>1. (\E ok : Answer(t, ok)) \/ asked \subseteq asked'
    BY DEF CloseConfirmed
  <2>2. QED
    BY <1>1, <2>1, AnswerStillAsks DEF StillAsked
<1>6. ASSUME NEW u \in Tasks \ Lossy, At(u, Claiming)', job'[u].page \notin Tabs'
      PROVE  u \in asked'
  <2>1. u # t /\ At(u, Claiming) /\ job'[u] = job[u]
    BY <1>2, <1>6 DEF At
  <2>2. CASE job[u].page \notin Tabs
    BY <1>5, <2>1, <2>2 DEF InterruptInv, Interrupted, StillAsked
  <2>3. CASE job[u].page \in Tabs
    <3>1. job[u].page = job[t].page
      BY <1>4, <1>6, <2>1, <2>3
    <3>2. job[t].target.id = Id(u) /\ job[t].target.task = u
      <4>1. job[t].target = [id |-> Id(u), task |-> u]
        BY <1>3, <2>1, <3>1 DEF InterruptInv, TargetKnown
      <4>2. QED
        BY <4>1
    <3>3. Id(u) # None /\ u # None /\ Running(u)
      BY <1>1, <2>1, IdsAreIds, CommandAssumption DEF At, Running, Awaits, AtTheDriver
    <3>4. QED
      BY <2>1, <3>2, <3>3 DEF CloseConfirmed
  <2>4. QED
    BY <2>2, <2>3
<1>7. ASSUME NEW c \in Tasks, NEW u \in Tasks, At(c, Reserving)', At(u, Claiming)',
             job'[u].page = job'[c].page
      PROVE  job'[c].target = [id |-> Id(u)', task |-> u]
  <2>1. c # t /\ job'[c] = job[c] /\ At(c, Reserving)
    BY <1>2, <1>7 DEF At
  <2>2. u # t /\ job'[u] = job[u] /\ At(u, Claiming) /\ Id(u)' = Id(u)
    BY <1>2, <1>7 DEF At, Id
  <2>3. QED
    BY <1>7, <2>1, <2>2 DEF InterruptInv, TargetKnown
<1>8. QED
  BY <1>6, <1>7 DEF InterruptInv, Interrupted, TargetKnown

LEMMA CloseInterrupts ==
    ASSUME InterruptInv, Shapes, NEW t \in Tasks,
           PageDestroyed(t) \/ CloseUnconfirmed(t) \/ Drained(t)
    PROVE  InterruptInv'
<1>1. IsReg(reg) /\ JobShape
  BY DEF Shapes
<1>2. CASE PageDestroyed(t)
  <2>1. At(t, {"closing"}) /\ asked' = asked /\ Tabs' = Tabs
    BY <1>2 DEF PageDestroyed, At, Tabs
  <2>2. Moves(t, Job(job[t].prog, job[t].step, "destroyed", job[t].page, job[t].target, job[t].todo))
    BY <1>1, <1>2, AtOnly DEF PageDestroyed
  <2>3. /\ JobShape' /\ \A u \in Tasks \ {t} : job'[u] = job[u]
        /\ job'[t].at = "destroyed" /\ job'[t].page = job[t].page /\ job'[t].step = job[t].step
        /\ job'[t].target = job[t].target
    BY <2>2, MovedFields
  <2>4. /\ At(t, Claiming)' <=> At(t, Claiming)
        /\ At(t, Reserving)' <=> At(t, Reserving)
    BY <2>1, <2>3 DEF At, Claiming, Reserving
  <2>5. QED
    BY <2>1, <2>3, <2>4, SameWorkInterrupts
<1>3. CASE CloseUnconfirmed(t) \/ Drained(t)
  <2>1. (\E ok : Answer(t, ok)) /\ reg' = EndClose(reg, job[t].page, Id(t))
    BY <1>3 DEF CloseUnconfirmed, Drained
  <2>2. reg'.tabs = TabsOpen(reg.tabs, job[t].page, Id(t))
    BY <1>1, <2>1, EndCloseDoes
  <2>3. Tabs' = Tabs
    BY <2>2 DEF Tabs, TabsOpen
  <2>4. QED
    BY <2>1, <2>3, AnsweredInterrupts
<1>4. QED
  BY <1>2, <1>3

(* A rebuild forgets every page, and nobody works on one beside it. *)
LEMMA RebuildInterrupts ==
    ASSUME Shapes, RebuildsAlone, AtTheGate, Gate!ExclusiveIsolation,
           NEW t \in Tasks, RebuildDone(t)
    PROVE  InterruptInv'
<1>1. Frees(t)
  BY AnswerFrees DEF RebuildDone
<1>2. \A u \in Tasks \ {t} : ~Running(u)
  BY RebuildRunsAlone DEF RebuildDone, Resumes, At
<1>3. ASSUME NEW u \in Tasks PROVE ~At(u, Claiming)'
  <2>1. CASE u = t
    BY <1>1, <2>1 DEF Frees, At, Holding
  <2>2. CASE u # t
    BY <1>1, <1>2, <2>2 DEF Frees, At, Running, Awaits, AtTheDriver
  <2>3. QED
    BY <2>1, <2>2
<1>4. QED
  BY <1>3 DEF InterruptInv, Interrupted, TargetKnown

LEMMA CancelInterrupts ==
    ASSUME InterruptInv, Shapes, NEW t \in Tasks, MeetsCancel(t)
    PROVE  InterruptInv'
<1>1. IsReg(reg) /\ Frees(t)
  BY CancelledFrees DEF Shapes
<1>2. \/ reg' = ReleaseTab(reg, job[t].page, Id(t))
      \/ reg' = EndClose(reg, job[t].page, Id(t))
      \/ reg' = reg
  BY DEF MeetsCancel
<1>3. \/ reg'.tabs = TabsIdle(reg.tabs, job[t].page, Id(t))
      \/ reg'.tabs = TabsOpen(reg.tabs, job[t].page, Id(t))
      \/ reg'.tabs = reg.tabs
  BY <1>1, <1>2, ReleaseTabDoes, EndCloseDoes
<1>4. Tabs' = Tabs
  BY <1>3 DEF Tabs, TabsIdle, TabsOpen
<1>5. StillAsked(t)
  BY DEF MeetsCancel, Over, StillAsked
<1>6. QED
  BY <1>1, <1>4, <1>5, FreedInterrupts

LEMMA StepInterrupts ==
    ASSUME InterruptInv, ReservedThere, RebuildsAlone, ClaimInv, AtTheGate,
           Gate!ExclusiveIsolation, [Next]_vars
    PROVE  InterruptInv'
<1>1. Shapes /\ JobShape
  BY DEF ClaimInv, Shapes
<1>2. ASSUME UNCHANGED <<job, reg>>, \A u \in Tasks \ Lossy : u \in asked => u \in asked'
      PROVE  InterruptInv'
  BY <1>2 DEF InterruptInv, Interrupted, TargetKnown, At, Tabs, Id
<1>3. ASSUME NEW t \in Tasks, Arrive(t) \/ LeaveQueue(t) PROVE InterruptInv'
  <2>1. Frees(t) /\ reg' = reg /\ asked' = asked
    BY <1>1, <1>3, ArrivalFrees
  <2>2. Tabs' = Tabs /\ StillAsked(t)
    BY <2>1 DEF Tabs, StillAsked
  <2>3. QED
    BY <2>1, <2>2, FreedInterrupts
<1>4. ASSUME NEW t \in Tasks,
             \/ BeginFails(t) \/ OpenFails(t) \/ ReadEnds(t)
             \/ ListFails(t) \/ StopDone(t) \/ RebuildFails(t)
             \/ StartOpen(t) \/ StartRead(t) \/ StartList(t) \/ ListSummary(t)
      PROVE  InterruptInv'
  <2>1. Frees(t) /\ reg'.tabs = reg.tabs
    BY <1>1, <1>4, HandsFree, HandsFreeSame DEF SameClaims
  <2>2. (\E ok : Answer(t, ok)) \/ asked' = asked
    BY <1>4 DEF BeginFails, OpenFails, ReadEnds, ListFails, StopDone, RebuildFails, StartOpen,
         StartRead, StartList, ListSummary,
                ListNext
  <2>3. Tabs' = Tabs /\ StillAsked(t)
    BY <1>1, <2>1, <2>2, AnswerStillAsks DEF Tabs, StillAsked
  <2>4. QED
    BY <2>1, <2>3, FreedInterrupts
<1>5. CASE Next
  <2> PICK t \in Tasks :
          \/ Arrive(t) \/ LeaveQueue(t) \/ StayQueued(t)
          \/ Starts(t) \/ Ends(t)
          \/ PageAppears(t) \/ PageDestroyed(t)
          \/ MeetsCancel(t) \/ SwallowsCancel(t)
    BY <1>5 DEF Next
  <2>1. StayQueued(t) \/ SwallowsCancel(t) => InterruptInv'
    BY <1>2 DEF StayQueued, SwallowsCancel
  <2>2. Starts(t) => InterruptInv'
    BY <1>4, ClaimActionInterrupts, ReserveInterrupts DEF Starts
  <2>3. Ends(t) => InterruptInv'
    BY <1>1, <1>4, OperationInterrupts, OpenInterrupts, CloseInterrupts, ConfirmInterrupts,
       RebuildInterrupts DEF Ends
  <2>4. QED
    BY <1>1, <1>3, <2>1, <2>2, <2>3, OpenInterrupts, CloseInterrupts, CancelInterrupts
<1>6. CASE UNCHANGED vars
  BY <1>2, <1>6 DEF vars
<1>7. QED
  BY <1>5, <1>6

LEMMA AlwaysInterrupts == Spec => []InterruptInv
<1>1. Init => InterruptInv
  BY DEF Init, Idle, InterruptInv, Interrupted, TargetKnown, At, Claiming
<1>2. Spec => []RebuildsAlone
  BY InitReserved, StepRebuildsAlone, AlwaysAtTheGate, PTL DEF Spec
<1>3. QED
  BY <1>1, <1>2, AlwaysReserved, AlwaysClaims, AlwaysAtTheGate, AlwaysIsolated, StepInterrupts,
     PTL DEF Spec

(* Whoever is at work on a page that is gone has been asked to stop, unless  *)
(* its driver call may have swallowed the cancellation: no closure forgets   *)
(* the command whose page it takes.                                          *)
THEOREM ClosureInterrupts == Spec => []Interrupted
BY AlwaysInterrupts, PTL DEF InterruptInv

(* Such a command never touches the registry as if its page were there: the  *)
(* one step it can still take ends its request, the rest of a batch with it. *)
NothingAfterClosure ==
    [][\A t \in Tasks \ Lossy :
          (At(t, Claiming) /\ job[t].page \notin Tabs /\ job'[t] # job[t])
              => job'[t].at = "over"]_vars

THEOREM ClosureEndsCommands == Spec => NothingAfterClosure
<1> DEFINE EndsAfterClosure ==
        \A t \in Tasks \ Lossy :
           (At(t, Claiming) /\ job[t].page \notin Tabs /\ job'[t] # job[t])
               => job'[t].at = "over"
<1>1. ASSUME Interrupted, ClaimInv, AtTheGate, Next, NEW t \in Tasks \ Lossy,
             At(t, Claiming), job[t].page \notin Tabs, job'[t] # job[t]
      PROVE  job'[t].at = "over"
  <2>1. t \in asked /\ Running(t) /\ JobShape
    BY <1>1 DEF Interrupted, At, Running, Awaits, AtTheDriver, AtTheGate
  <2>2. PICK u \in Tasks :
            \/ Arrive(u) \/ LeaveQueue(u) \/ StayQueued(u)
            \/ Starts(u) \/ Ends(u)
            \/ PageAppears(u) \/ PageDestroyed(u)
            \/ MeetsCancel(u) \/ SwallowsCancel(u)
    BY <1>1 DEF Next
  <2>3. ~StayQueued(u) /\ ~SwallowsCancel(u)
    BY <1>1 DEF StayQueued, SwallowsCancel
  <2>4. Arrive(u) \/ LeaveQueue(u) => u # t /\ job'[t] = job[t]
    <3>1. Arrive(u) \/ LeaveQueue(u) => Frees(u) /\ ~At(u, Claiming \cup Reserving)
      BY <1>1, ArrivalFrees DEF ClaimInv
    <3>2. u = t => At(u, Claiming \cup Reserving)
      BY <1>1 DEF At
    <3>3. QED
      BY <3>1, <3>2 DEF Frees
  <2>5. CASE u = t
    <3>1. ~PageAppears(t) /\ ~PageDestroyed(t)
      BY <1>1 DEF PageAppears, PageDestroyed, At, Claiming
    <3>2. ~Starts(t) /\ ~Ends(t)
      BY <2>1 DEF Starts, Ends, Resumes, BeginFails, OperationDone, SummaryDone,
         SwitchDone, OperationFails, OpenDone, OpenFails, ReadEnds, ListFails, StopDone,
         RebuildFails, ListSummary,
         CloseUnconfirmed, CloseConfirmed, Drained, RebuildDone,
         ClaimActive, ClaimNamed, StartOpen, StartRead, StartList, ReservePage
    <3>3. Finishes(t)
      BY <2>1, <2>2, <2>3, <2>4, <2>5, <3>1, <3>2, CancelledFinishes
    <3>4. QED
      BY <3>3, MovedFields DEF Finishes, Done
  <2>6. CASE u # t
    <3>1. Continues(u) \/ Finishes(u)
      BY <1>1, <2>1, <2>2, <2>3, <2>4, StartsStay, EndsStay, BrowserStays, CancelledFinishes
    <3>2. QED
      BY <1>1, <2>6, <3>1 DEF Continues, Finishes, Moves
  <2>7. QED
    BY <2>5, <2>6
<1>2. Interrupted /\ ClaimInv /\ AtTheGate /\ [Next]_vars => [EndsAfterClosure]_vars
  BY <1>1
<1>3. QED
  BY <1>2, ClosureInterrupts, AlwaysClaims, AlwaysAtTheGate, PTL DEF Spec, NothingAfterClosure

-----------------------------------------------------------------------------
(* A request in the queue is never left alone there: some command runs, or   *)
(* some request has been woken and is about to look at the gate.             *)
QueueMoves ==
    \A t \in Tasks : At(t, {"gate"}) => \E u \in Tasks : Running(u) \/ pc[u] = "notified"

THEOREM QueuedBehindSomebody == Spec => []QueueMoves
<1>1. GateProofs!GateAssumption
  BY CommandAssumption DEF GateProofs!GateAssumption, IsFiniteSet, GateProofs!IsFiniteSet,
     GateProofs!Kinds, GateProofs!Shared, GateProofs!Exclusives, Modes
<1>2. GateProofs!Spec => []GateProofs!SomebodyMoves
  BY <1>1, GateProofs!NotAllAsleep
<1>3. AtTheGate /\ GateProofs!SomebodyMoves => QueueMoves
  <2> SUFFICES ASSUME AtTheGate, GateProofs!SomebodyMoves, NEW t \in Tasks, At(t, {"gate"})
               PROVE  \E u \in Tasks : Running(u) \/ pc[u] = "notified"
    BY DEF QueueMoves
  <2>1. GateProofs!Queued(t)
    BY DEF AtTheGate, Sees, At, GateProofs!Queued
  <2>2. PICK u \in Tasks : pc[u] \in {"inside", "notified"}
    BY <2>1 DEF GateProofs!SomebodyMoves
  <2>3. pc[u] = "inside" => Running(u)
    BY DEF AtTheGate, Sees, Running, Nowhere
  <2>4. QED
    BY <2>2, <2>3
<1>4. QED
  BY <1>2, <1>3, CommandsUseTheGate, SameGate, AlwaysAtTheGate, PTL
=============================================================================
