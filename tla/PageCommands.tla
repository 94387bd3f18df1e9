---------------------------- MODULE PageCommands ----------------------------
(* The command handlers of BrowserDaemonApp (daemon/app.py) over the tab     *)
(* registry and the execution gate: what several connections, each with one  *)
(* task of the daemon, may do to the pages of several agents.                *)
(*                                                                           *)
(* Every await of a handler is a place where the task stops and the browser  *)
(* (the driver, external) may act or any other task may run; what a handler  *)
(* does between two awaits is one action.  begin_command is one await here,  *)
(* end_command none: it suspends only to change drivers, which is the        *)
(* subject of DriverRebind.  A driver call is answered, fails or hangs.      *)
EXTENDS Naturals, FiniteSets, TabRegistry

CONSTANTS
    Tasks,         \* the connections; each brings one request
    Pages,         \* the page ids a behaviour may use
    AgentOf,       \* the X_AGENT_ID of each task
    Programs,      \* the requests each task may bring
    InitialTabs,   \* the tabs at the start: a sequence of <<agent, page>>
    Lossy          \* the tasks whose driver calls may swallow a cancellation
                   \* (wait_for before Python 3.12, or a driver that suppresses it)

(* A request: its mode at the gate, its commands (one, or the steps of a     *)
(* batch) and stop_on_error.  A command names a page where the code takes    *)
(* one; close without a page means the active one.                           *)
Commands == [op : {"action", "switch", "close", "open", "read", "tabs",
                  "stop", "rebuild"},
             page : Pages \cup {None}]

Modes == {"shared", "batch", "exclusive", "cleanup"}

(* execute: the mode of a request that is not a batch. *)
ModeOf(cmd) ==
    CASE cmd.op \in {"stop", "rebuild"} -> "exclusive"
      [] cmd.op = "close" -> "cleanup"
      [] OTHER -> "shared"

ASSUME CommandAssumption ==
    /\ IsFiniteSet(Tasks)
    /\ Lossy \subseteq Tasks /\ AgentOf \in [Tasks -> Agents]
    /\ None \notin Pages \cup Tasks \cup Modes \cup (Tasks \X Nat)
    /\ InitialTabs \in Seq(Agents \X Pages)
    /\ \A i, j \in DOMAIN InitialTabs : InitialTabs[i][2] = InitialTabs[j][2] => i = j
    /\ \A t \in Tasks : \A r \in Programs[t] :
          /\ r.steps \in Seq(Commands) /\ r.steps # << >>
          /\ r.stop \in BOOLEAN
          /\ \/ Len(r.steps) = 1 /\ r.mode = ModeOf(r.steps[1])
             \/ r.mode = "batch" /\ \A i \in DOMAIN r.steps : ModeOf(r.steps[i]) # "exclusive"

VARIABLES
    active, waiters, mode, pc, kind,   \* the execution gate
    reg,                               \* the tab registry
    alive,                             \* the pages that exist in the browser
    born,                              \* the page ids already given out
    job,                               \* what each task is doing
    asked                              \* tasks with a cancellation to meet

gateVars == <<active, waiters, mode, pc, kind>>
vars == <<active, waiters, mode, pc, kind, reg, alive, born, job, asked>>

Gate == INSTANCE ExecutionGate WITH Requests <- Tasks

(* Where a task can be.  In "op", "summary" and "switching" it works under a *)
(* claim of its page; in "closing" and "destroyed" under a reservation.      *)
Claiming == {"op", "summary", "switching"}
Reserving == {"closing", "destroyed"}
AtTheDriver == {"begin", "opening", "opened", "reading", "listing", "stopping", "rebuilding"}
                  \cup Claiming \cup Reserving
Awaits == AtTheDriver \cup {"draining"}
Nowhere == {"idle", "gate", "over"}

NoClaimant == [id |-> None, task |-> None]
Idle == [prog |-> None, step |-> 1, at |-> "idle", page |-> None,
         target |-> NoClaimant, todo |-> << >>]

Id(t) == <<t, job[t].step>>
Command(t) == job[t].prog.steps[job[t].step]
Running(t) == job[t].at \in Awaits

(* The tabs that were opened, one after the other, before the behaviour. *)
OpenedAt == DOMAIN InitialTabs
PageAt(i) == InitialTabs[i][2]
InitialRegistry ==
    [EmptyRegistry EXCEPT
        !.tabs = [p \in {PageAt(i) : i \in OpenedAt} |->
                     [owner |-> InitialTabs[CHOOSE i \in OpenedAt : PageAt(i) = p][1],
                      busy |-> None, closing |-> None]],
        !.active = [a \in Agents |->
                       LET mine == {i \in OpenedAt : InitialTabs[i][1] = a}
                       IN  IF mine = {} THEN None ELSE PageAt(Newest(mine))],
        !.used = [i \in OpenedAt |-> PageAt(i)],
        !.made = [i \in OpenedAt |-> PageAt(i)]]

Init ==
    /\ Gate!Init
    /\ reg = InitialRegistry
    /\ alive = {PageAt(i) : i \in OpenedAt}
    /\ born = alive
    /\ job = [t \in Tasks |-> Idle]
    /\ asked = {}

-----------------------------------------------------------------------------
(* execute: the gate, then the first command.  A stop and a rebuild of the   *)
(* workspace take no begin_command.                                          *)
FirstAwait(r) ==
    CASE r.steps[1].op = "stop" -> "stopping"
      [] r.steps[1].op = "rebuild" -> "rebuilding"
      [] OTHER -> "begin"

(* Slip: a batch that enters like an action. *)
Arrive_BatchAsAction(t) ==
    /\ job[t].at = "idle"
    /\ \E r \in Programs[t] :
         LET m == IF r.mode = "batch" THEN "shared" ELSE r.mode
         IN  \/ /\ Gate!EnterAtOnce(t, m)
                /\ job' = [job EXCEPT ![t].prog = r, ![t].at = FirstAwait(r)]
             \/ /\ Gate!EnterAndWait(t, m)
                /\ job' = [job EXCEPT ![t].prog = r, ![t].at = "gate"]
    /\ UNCHANGED <<reg, alive, born, asked>>

Arrive(t) ==
    /\ job[t].at = "idle"
    /\ \E r \in Programs[t] :
         \/ /\ Gate!EnterAtOnce(t, r.mode)
            /\ job' = [job EXCEPT ![t].prog = r, ![t].at = FirstAwait(r)]
         \/ /\ Gate!EnterAndWait(t, r.mode)
            /\ job' = [job EXCEPT ![t].prog = r, ![t].at = "gate"]
    /\ UNCHANGED <<reg, alive, born, asked>>

LeaveQueue(t) ==
    /\ Gate!WakeAndEnter(t)
    /\ job' = [job EXCEPT ![t].at = FirstAwait(job[t].prog)]
    /\ UNCHANGED <<reg, alive, born, asked>>

StayQueued(t) ==
    /\ Gate!WakeAndSleep(t)
    /\ UNCHANGED <<reg, alive, born, job, asked>>

(* The end of a command: the next step of the batch unless this one failed   *)
(* and stop_on_error is set; else the request is answered and leaves.        *)
Over(t) ==
    /\ Gate!Leave(t)
    /\ job' = [job EXCEPT ![t] = [Idle EXCEPT !.at = "over"]]
    /\ asked' = asked \ {t}

Answer(t, ok) ==
    LET j == job[t]
        more == j.step < Len(j.prog.steps) /\ (ok \/ ~j.prog.stop)
    IN  IF more
        THEN /\ job' = [job EXCEPT ![t] = [Idle EXCEPT !.prog = j.prog,
                                                       !.step = j.step + 1,
                                                       !.at = "begin"]]
             /\ UNCHANGED <<gateVars, asked>>
        ELSE Over(t)

(* A task that waits at w and has no cancellation to meet. *)
Resumes(t, w) == job[t].at = w /\ t \notin asked

(* begin_command raises: nothing of the command has happened. *)
BeginFails(t) ==
    /\ Resumes(t, "begin")
    /\ Answer(t, FALSE)
    /\ UNCHANGED <<reg, alive, born>>

-----------------------------------------------------------------------------
(* _run_active_page_action, which carries all the page actions: claim the    *)
(* active page, operate, check, refresh the summary, check again, release.   *)
ClaimActive(t) ==
    /\ Resumes(t, "begin") /\ Command(t).op = "action"
    /\ LET p == ActiveTab(reg, AgentOf[t])
       IN  IF p # None /\ MayClaim(reg, AgentOf[t], p, Id(t))
           THEN /\ reg' = ClaimPage(reg, p, Id(t), t)
                /\ job' = [job EXCEPT ![t].at = "op", ![t].page = p]
                /\ UNCHANGED <<gateVars, asked>>
           ELSE Answer(t, FALSE) /\ UNCHANGED reg
    /\ UNCHANGED <<alive, born>>

(* The answer of the driver.  It may be late: the page may be gone.          *)
OperationDone(t) ==
    /\ Resumes(t, "op")
    /\ IF HoldsClaim(reg, job[t].page, Id(t))
       THEN /\ job' = [job EXCEPT ![t].at = "summary"]
            /\ UNCHANGED <<gateVars, reg, asked>>
       ELSE /\ reg' = ReleaseTab(reg, job[t].page, Id(t))
            /\ Answer(t, FALSE)
    /\ UNCHANGED <<alive, born>>

(* The summary may fail with an error of Browser CLI's own, and so may       *)
(* update_tab: both are swallowed.                                           *)
SummaryDone(t) ==
    /\ Resumes(t, "summary")
    /\ \E answered \in BOOLEAN :
         LET p == job[t].page
             seen == IF answered /\ CanUpdate(reg, p) THEN UpdateTab(reg, p) ELSE reg
         IN  /\ reg' = ReleaseTab(seen, p, Id(t))
             /\ Answer(t, HoldsClaim(seen, p, Id(t)))
    /\ UNCHANGED <<alive, born>>

(* _handle_switch_tab: claim the named page, activate it, read its summary.  *)
ClaimNamed(t) ==
    /\ Resumes(t, "begin") /\ Command(t).op = "switch"
    /\ LET a == AgentOf[t]
           p == Command(t).page
       IN  IF MayClaim(reg, a, p, Id(t))
           THEN /\ reg' = SetActiveTab(ClaimPage(reg, p, Id(t), t), a, p)
                /\ job' = [job EXCEPT ![t].at = "switching", ![t].page = p]
                /\ UNCHANGED <<gateVars, asked>>
           ELSE Answer(t, FALSE) /\ UNCHANGED reg
    /\ UNCHANGED <<alive, born>>

SwitchDone(t) ==
    /\ Resumes(t, "switching")
    /\ reg' = ReleaseTab(reg, job[t].page, Id(t))
    /\ Answer(t, HoldsClaim(reg, job[t].page, Id(t)))
    /\ UNCHANGED <<alive, born>>

(* Slip: an operation that fails outside the scope of its claim. *)
OperationFails_ClaimKept(t) ==
    /\ \E w \in Claiming : Resumes(t, w)
    /\ Answer(t, FALSE)
    /\ UNCHANGED <<reg, alive, born>>

(* The driver call raises, that for the summary with an error that is not    *)
(* Browser CLI's own: the finally clauses release the claim.                 *)
OperationFails(t) ==
    /\ \E w \in Claiming : Resumes(t, w)
    /\ reg' = ReleaseTab(reg, job[t].page, Id(t))
    /\ Answer(t, FALSE)
    /\ UNCHANGED <<alive, born>>

-----------------------------------------------------------------------------
(* open, new-tab and search: the page exists before the registry knows it.   *)
StartOpen(t) ==
    /\ Resumes(t, "begin") /\ Command(t).op = "open"
    /\ job' = [job EXCEPT ![t].at = "opening"]
    /\ UNCHANGED <<gateVars, reg, alive, born, asked>>

PageAppears(t) ==
    /\ job[t].at = "opening"
    /\ \E p \in Pages \ born :
         /\ born' = born \cup {p}
         /\ alive' = alive \cup {p}
         /\ job' = [job EXCEPT ![t].at = "opened", ![t].page = p]
    /\ UNCHANGED <<gateVars, reg, asked>>

OpenDone(t) ==
    /\ Resumes(t, "opened")
    /\ reg' = AddTab(reg, AgentOf[t], job[t].page)
    /\ Answer(t, TRUE)
    /\ UNCHANGED <<alive, born>>

OpenFails(t) ==
    /\ Resumes(t, "opening") \/ Resumes(t, "opened")
    /\ Answer(t, FALSE)
    /\ UNCHANGED <<reg, alive, born>>

(* read-page works on a page of its own, which no agent owns. *)
StartRead(t) ==
    /\ Resumes(t, "begin") /\ Command(t).op = "read"
    /\ job' = [job EXCEPT ![t].at = "reading"]
    /\ UNCHANGED <<gateVars, reg, alive, born, asked>>

ReadEnds(t) ==
    /\ Resumes(t, "reading")
    /\ \E ok \in BOOLEAN : Answer(t, ok)
    /\ UNCHANGED <<reg, alive, born>>

(* _handle_tabs: a copy of the list, then one summary after the other; each  *)
(* refreshes its tab if the tab is still there and not being closed.         *)
ListNext(t, todo) ==
    IF todo = << >>
    THEN Answer(t, TRUE)
    ELSE /\ job' = [job EXCEPT ![t].at = "listing", ![t].todo = todo]
         /\ UNCHANGED <<gateVars, asked>>

StartList(t) ==
    /\ Resumes(t, "begin") /\ Command(t).op = "tabs"
    /\ ListNext(t, ListTabs(reg, AgentOf[t]))
    /\ UNCHANGED <<reg, alive, born>>

ListSummary(t) ==
    /\ Resumes(t, "listing")
    /\ \E answered \in BOOLEAN :
         LET p == Head(job[t].todo)
         IN  reg' = IF answered /\ CanUpdate(reg, p) THEN UpdateTab(reg, p) ELSE reg
    /\ ListNext(t, Tail(job[t].todo))
    /\ UNCHANGED <<alive, born>>

(* Any other error ends the command half way through its list. *)
ListFails(t) ==
    /\ Resumes(t, "listing")
    /\ Answer(t, FALSE)
    /\ UNCHANGED <<reg, alive, born>>

-----------------------------------------------------------------------------
(* _handle_close_tab (close is close-tab of the active page): reserve the    *)
(* page and remember who was working on it...                                *)
ReservePage(t) ==
    /\ Resumes(t, "begin") /\ Command(t).op = "close"
    /\ LET a == AgentOf[t]
           p == IF Command(t).page = None THEN ActiveTab(reg, a) ELSE Command(t).page
       IN  IF MayBeginClose(reg, a, p)
           THEN /\ reg' = BeginClose(reg, p, Id(t))
                /\ job' = [job EXCEPT ![t].at = "closing", ![t].page = p,
                                      ![t].target = Claimant(reg, p)]
                /\ UNCHANGED <<gateVars, asked>>
           ELSE Answer(t, FALSE) /\ UNCHANGED reg
    /\ UNCHANGED <<alive, born>>

(* ... the browser destroys the page... *)
PageDestroyed(t) ==
    /\ job[t].at = "closing"
    /\ alive' = alive \ {job[t].page}
    /\ job' = [job EXCEPT ![t].at = "destroyed"]
    /\ UNCHANGED <<gateVars, reg, born, asked>>

(* ... or does not, or does not say so: the reservation is taken back and    *)
(* the claim of the page is as it was.                                       *)
CloseUnconfirmed(t) ==
    /\ Resumes(t, "closing") \/ Resumes(t, "destroyed")
    /\ reg' = EndClose(reg, job[t].page, Id(t))
    /\ Answer(t, FALSE)
    /\ UNCHANGED <<alive, born>>

(* Slip: the task is cancelled while the browser still destroys the page. *)
CloseConfirmed_Unchecked(t) ==
    /\ Resumes(t, "closing") \/ Resumes(t, "destroyed")
    /\ reg' = RemoveTab(reg, AgentOf[t], job[t].page)
    /\ LET u == job[t].target.task
       IN  IF job[t].target.id # None /\ u \notin {None, t} /\ Running(u)
           THEN /\ asked' = asked \cup {u}
                /\ job' = [job EXCEPT ![t].at = "draining"]
                /\ UNCHANGED gateVars
           ELSE Answer(t, TRUE)
    /\ UNCHANGED <<alive, born>>

(* Once the closure is confirmed the tab is removed and the task that worked *)
(* on the page is cancelled, if it still runs and is not this task itself.   *)
(* remove_tab finds the tab: the reservation has kept it (ClaimsExact).      *)
CloseConfirmed(t) ==
    /\ Resumes(t, "destroyed")
    /\ reg' = RemoveTab(reg, AgentOf[t], job[t].page)
    /\ LET u == job[t].target.task
       IN  IF job[t].target.id # None /\ u \notin {None, t} /\ Running(u)
           THEN /\ asked' = asked \cup {u}
                /\ job' = [job EXCEPT ![t].at = "draining"]
                /\ UNCHANGED gateVars
           ELSE Answer(t, TRUE)
    /\ UNCHANGED <<alive, born>>

(* The interrupted task is over, or a tenth of a second has passed. *)
Drained(t) ==
    /\ Resumes(t, "draining")
    /\ reg' = EndClose(reg, job[t].page, Id(t))
    /\ Answer(t, TRUE)
    /\ UNCHANGED <<alive, born>>

(* _handle_stop: the driver is stopped, its pages with it unless that fails, *)
(* which is only reported.  The registry keeps its tabs: a request that was  *)
(* queued behind the stop finds them.  (begin_command starts a driver and    *)
(* opens them again, which is the subject of DriverRebind.)                  *)
StopDone(t) ==
    /\ Resumes(t, "stopping")
    /\ alive' \in {{}, alive}
    /\ Answer(t, TRUE)
    /\ UNCHANGED <<reg, born>>

(* _handle_workspace_rebuild_binding: the extension closes its window with   *)
(* all the pages in it, and the registry forgets them...                     *)
RebuildDone(t) ==
    /\ Resumes(t, "rebuilding")
    /\ alive' = {}
    /\ reg' = ClearTabs(reg)
    /\ Answer(t, TRUE)
    /\ UNCHANGED born

(* ... or refuses, fails, or does not say that it has done so.               *)
RebuildFails(t) ==
    /\ Resumes(t, "rebuilding")
    /\ alive' \in {{}, alive}
    /\ Answer(t, FALSE)
    /\ UNCHANGED <<reg, born>>

-----------------------------------------------------------------------------
(* Slip: a cancelled request that does not pass through the gate's exit. *)
MeetsCancel_GateKept(t) ==
    /\ t \in asked /\ Running(t)
    /\ reg' = IF job[t].at \in Claiming
              THEN ReleaseTab(reg, job[t].page, Id(t)) ELSE reg
    /\ job' = [job EXCEPT ![t] = [Idle EXCEPT !.at = "over"]]
    /\ asked' = asked \ {t}
    /\ UNCHANGED <<gateVars, alive, born>>

(* The task resumes with CancelledError: the finally clauses of its present  *)
(* command run, and the whole request is over, the batch with it.            *)
MeetsCancel(t) ==
    /\ t \in asked /\ Running(t)
    /\ reg' = CASE job[t].at \in Claiming -> ReleaseTab(reg, job[t].page, Id(t))
                [] job[t].at \in Reserving \cup {"draining"} ->
                      EndClose(reg, job[t].page, Id(t))
                [] OTHER -> reg
    /\ Over(t)
    /\ UNCHANGED <<alive, born>>

SwallowsCancel(t) ==
    /\ t \in Lossy
    /\ t \in asked /\ Running(t)
    /\ asked' = asked \ {t}
    /\ UNCHANGED <<gateVars, reg, alive, born, job>>

Ends(t) ==
    \/ BeginFails(t) \/ OperationDone(t) \/ SummaryDone(t) \/ SwitchDone(t)
    \/ OperationFails(t) \/ OpenDone(t) \/ OpenFails(t) \/ ReadEnds(t)
    \/ ListSummary(t) \/ ListFails(t)
    \/ CloseUnconfirmed(t) \/ CloseConfirmed(t) \/ Drained(t)
    \/ StopDone(t) \/ RebuildDone(t) \/ RebuildFails(t)

Starts(t) ==
    \/ ClaimActive(t) \/ ClaimNamed(t) \/ StartOpen(t) \/ StartRead(t)
    \/ StartList(t) \/ ReservePage(t)

Next == \E t \in Tasks :
    \/ Arrive(t) \/ LeaveQueue(t) \/ StayQueued(t)
    \/ Starts(t) \/ Ends(t)
    \/ PageAppears(t) \/ PageDestroyed(t)
    \/ MeetsCancel(t) \/ SwallowsCancel(t)

Spec == Init /\ [][Next]_vars

(* The loop runs the tasks that wait for nothing but their turn: a notified  *)
(* one, a cancelled one, one whose tenth of a second has passed.  Nothing is *)
(* assumed of the calls of the driver: page.title, bring_to_front, close and *)
(* stop of Playwright, a start and a page's JavaScript have no time limit.   *)
Prompt(t) == LeaveQueue(t) \/ StayQueued(t) \/ MeetsCancel(t) \/ Drained(t)

FairSpec == Spec /\ \A t \in Tasks : WF_vars(Prompt(t))

-----------------------------------------------------------------------------
(* What the registry promises. A claim and a reservation name the request;   *)
(* its task is the one that has the page in hand.                            *)
TaskOf(id) == IF id = None THEN None ELSE id[1]

Leases == INSTANCE PageLeases WITH
    owner <- [p \in DOMAIN reg.tabs |-> reg.tabs[p].owner],
    worker <- [p \in DOMAIN reg.tabs |-> TaskOf(reg.tabs[p].busy)],
    closer <- [p \in DOMAIN reg.tabs |-> TaskOf(reg.tabs[p].closing)]

-----------------------------------------------------------------------------
TypeOK ==
    /\ Gate!TypeOK
    /\ DOMAIN reg.tabs \subseteq born
    /\ \A p \in DOMAIN reg.tabs : reg.tabs[p].owner \in Agents
    /\ reg.active \in [Agents -> Pages \cup {None}]
    /\ Len(reg.used) = Cardinality(DOMAIN reg.tabs)
    /\ ToSet(reg.used) = DOMAIN reg.tabs /\ ToSet(reg.made) = DOMAIN reg.tabs
    /\ alive \subseteq born /\ born \subseteq Pages
    /\ \A t \in Tasks : job[t].at \in Awaits \cup Nowhere
    /\ asked \subseteq Tasks

(* Claims and reservations are exactly those of the commands under way: one  *)
(* left behind by a failed, cancelled or interrupted command would make the  *)
(* page busy for ever, one lost would let two commands in, and remove_tab    *)
(* not find the tab of a page that the browser has destroyed.                *)
ClaimsExact ==
    /\ DOMAIN reg.claims
          = {<<job[t].page, Id(t)>> : t \in {u \in Tasks : job[u].at \in Claiming}}
    /\ \A p \in DOMAIN reg.tabs :
          /\ reg.tabs[p].busy # None <=> \E t \in Tasks :
                 job[t].at \in Claiming /\ job[t].page = p /\ reg.tabs[p].busy = Id(t)
          /\ reg.tabs[p].closing # None <=> \E t \in Tasks :
                 job[t].at \in Reserving /\ job[t].page = p /\ reg.tabs[p].closing = Id(t)
    /\ \A t \in Tasks : job[t].at \in Claiming =>
          ~Has(reg, job[t].page) \/ reg.tabs[job[t].page].busy = Id(t)
    /\ \A t \in Tasks : job[t].at \in Reserving =>
          Has(reg, job[t].page) /\ reg.tabs[job[t].page].closing = Id(t)

(* The active page of an agent is one of its own, and an agent that has a    *)
(* page has an active one, whatever closes under it.                         *)
ActiveOwned ==
    /\ TypeOK
    /\ \A a \in Agents :
          IF \E p \in DOMAIN reg.tabs : reg.tabs[p].owner = a
          THEN Owns(reg, a, reg.active[a])
          ELSE reg.active[a] = None

(* "Batches exclude other browser actions while running": while a batch is   *)
(* under way, between two of its steps and while it waits for the driver,    *)
(* nobody else claims, adds, activates or refreshes a page; only a close-tab *)
(* touches the registry.                                                     *)
BatchUndisturbed ==
    [][\A t, u \in Tasks :
         (t # u /\ Running(t) /\ job[t].prog.mode = "batch" /\ job'[u] # job[u] /\ reg' # reg)
             => Running(u) /\ job[u].prog.mode = "cleanup"]_vars

(* Whatever is suspended, late, refused, cancelled or swallowed, the         *)
(* registry's pages are leased as PageLeases says: one worker and one closer *)
(* at a time, both of the owner, no work begun on a page that is being       *)
(* closed, and no page forgotten under anybody but by its closer.            *)
LeasesKept == Leases!Spec

(* close-tab cancels a task only after the browser has confirmed that the    *)
(* page it worked on is gone, and only a task of its own agent.              *)
CancelOwnAfterClosure ==
    [][\A u \in asked' \ asked : \E t \in Tasks :
         /\ AgentOf[t] = AgentOf[u]
         /\ job[t].at = "destroyed" /\ job[t].page \notin alive
         /\ job[t].target.task = u]_vars

(* Nobody hangs for ever on a page that was closed: whatever a command waits *)
(* for, closing its page frees it, if the driver lets the cancellation       *)
(* through.                                                                  *)
NobodyHangsOnAClosedPage ==
    \A t \in Tasks \ Lossy :
        <>[](job[t].at \in Claiming) => <>[](Has(reg, job[t].page))

(* A request stays in the queue for ever only if some command waits for ever *)
(* for one call of the browser: no place in the gate is left behind by a     *)
(* command that is over, and no wake-up is lost, however commands fail, are  *)
(* cancelled and interrupt each other.                                       *)
QueuedForEverOnlyBehindAHang ==
    \A t \in Tasks :
        <>[](job[t].at = "gate")
            => \E u \in Tasks, w \in AtTheDriver : <>[](job[u].at = w)
=============================================================================
