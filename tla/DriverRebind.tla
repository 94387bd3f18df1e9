---------------------------- MODULE DriverRebind ----------------------------
(* BrowserService (daemon/browser_service.py): which backend, Playwright or  *)
(* the extension, carries the pages, and how it is replaced while commands   *)
(* begin, run and end, the extension comes and goes and a watcher task       *)
(* reacts.  The loop runs one actor at a time, from one await to the next:   *)
(* an actor whose `at` is a straight label holds the loop, and an actor at   *)
(* an await gets it again only when nobody holds it.                         *)
EXTENDS Naturals, FiniteSets, Sequences

CONSTANTS
    Tasks,      \* the tasks that execute requests in the daemon
    Watcher,    \* the task of _watch_extension_changes
    Pages,      \* the page ids that may be given out
    None,
    Kinds,      \* what the tasks may be asked to do
    Cancels     \* TRUE: the task of a command may be cancelled at an await

Actors == Tasks \cup {Watcher}
Backends == {"extension", "playwright"}
AllKinds == {"page", "open", "close", "read", "rebuild"}

ASSUME RebindAssumption ==
    /\ IsFiniteSet(Tasks) /\ IsFiniteSet(Pages)
    /\ Watcher \notin Tasks /\ None \notin Pages
    /\ Kinds \subseteq AllKinds
    /\ Cancels \in BOOLEAN

VARIABLES
    driver,     \* _driver_name: a backend or "none"; _driver goes with it
    depth,      \* _command_depth
    pending,    \* _pending_driver # None; its value is always "extension"
    session,    \* the hub has a session with the required capabilities
    changed,    \* the hub's _session_changed event
    queue,      \* _rebind_lock: the holder and then the waiters, first come
    tabs,       \* the pages of the tab registry
    live,       \* for each backend the pages it could act on
    job,        \* for each actor where it is and what it carries
    stray,      \* history: registered while a rebind had taken its snapshot
    lost,       \* history: registered still, and destroyed by a close that
                \* failed or was cancelled, on the backend in place
    spoilt      \* history: the last activation was broken off

vars == <<driver, depth, pending, session, changed, queue, tabs, live, job,
          stray, lost, spoilt>>

(* Where an actor can be: holding the loop, or suspended at an await. *)
Straight == {"start", "preflight", "rebuild", "check", "apply", "enter",
             "locked", "replayed", "end"}
Held == {"stopping", "starting", "replay", "settling"}  \* under _rebind_lock
Awaits == {"idle", "unborn", "watching", "session", "status", "rebuilding",
           "queued", "body", "retry"} \cup Held
Begun == {"body", "retry", "end"}

(* A job: its kind, its page and the backend it called; of _activate_driver *)
(* the target, the pages of its snapshot, those still to reopen, and where  *)
(* the caller goes on.                                                      *)
NoJob == [at |-> "idle", kind |-> None, page |-> None, on |-> "none",
          target |-> "none", snap |-> {}, todo |-> {}, then |-> "idle"]
Unborn == [NoJob EXCEPT !.at = "unborn"]
Watching == [NoJob EXCEPT !.at = "watching"]

Init ==
    /\ driver = "none" /\ depth = 0 /\ pending = FALSE
    /\ session \in BOOLEAN /\ changed = session
    /\ queue = << >> /\ tabs = {}
    /\ live = [b \in Backends |-> {}]
    /\ job = [a \in Actors |-> IF a = Watcher THEN Unborn ELSE NoJob]
    /\ stray = {} /\ lost = {} /\ spoilt = FALSE

Resumes(a, w) == job[a].at = w /\ \A b \in Actors : job[b].at \in Awaits
Runs(a, w) == job[a].at = w

GoTo(a, w) == job' = [job EXCEPT ![a].at = w]
Finish(t) == job' = [job EXCEPT ![t] = NoJob]

pages == <<tabs, live, stray, lost>>
hub == <<session, changed>>

(* The caller of _activate_driver goes on at `then`. *)
Forgetting(j) == [NoJob EXCEPT !.at = j.at, !.kind = j.kind]
Continued(j) ==
    IF j.then = "watching" THEN Watching
    ELSE IF j.then = "idle" THEN NoJob
    ELSE [Forgetting(j) EXCEPT !.at = j.then]

(* ... or its exception goes up: a begin_command or an end_command fails, a  *)
(* read that had begun still ends, a repair is given up, the watcher stays.  *)
Failed(j) ==
    IF j.then = "watching" THEN Watching
    ELSE IF j.then = "retry" THEN [Forgetting(j) EXCEPT !.at = "end"]
    ELSE IF j.then = "rebuild" /\ j.kind # "rebuild"
         THEN [Forgetting(j) EXCEPT !.at = "check"]
    ELSE NoJob

-----------------------------------------------------------------------------
(* _activate_driver.  A free lock is taken without a suspension. *)
Activate(a, target, then) ==
    /\ queue' = Append(queue, a)
    /\ job' = [job EXCEPT ![a].at = IF queue = << >> THEN "locked" ELSE "queued",
                          ![a].target = target, ![a].then = then]

GetLock(a) ==
    /\ Resumes(a, "queued") /\ Head(queue) = a
    /\ GoTo(a, "locked")
    /\ UNCHANGED <<driver, depth, pending, hub, queue, pages, spoilt>>

AlreadyThere(a) ==
    /\ Runs(a, "locked") /\ driver = job[a].target
    /\ queue' = Tail(queue)
    /\ job' = [job EXCEPT ![a] = Continued(@)]
    /\ UNCHANGED <<driver, depth, pending, hub, pages, spoilt>>

(* Slip: the lock is not released on an exception. *)
BreakOff_KeepsLock(a) ==
    /\ job' = [job EXCEPT ![a] = Failed(@)]
    /\ pending' = (pending /\ a # Watcher)
    /\ spoilt' = TRUE
    /\ UNCHANGED queue

(* An exception leaves the lock; the watcher also drops the pending rebind. *)
BreakOff(a) ==
    /\ queue' = Tail(queue)
    /\ job' = [job EXCEPT ![a] = Failed(@)]
    /\ pending' = (pending /\ a # Watcher)
    /\ spoilt' = TRUE

(* Slip: the new backend is recorded only where no page is to be reopened. *)
InPlace_NotRecorded(a, snap) ==
    /\ driver' = IF snap = {} THEN job[a].target ELSE "none"
    /\ job' = [job EXCEPT ![a].at = "replayed", ![a].snap = snap]
    /\ UNCHANGED <<queue, pending, spoilt>>

(* The new backend is in place: reopen the pages of the snapshot, if any. *)
InPlace(a, snap) ==
    /\ driver' = job[a].target
    /\ job' = [job EXCEPT ![a].at = IF snap = {} THEN "replayed" ELSE "replay",
                          ![a].snap = snap, ![a].todo = snap]
    /\ UNCHANGED <<queue, pending, spoilt>>

(* _extension.ensure_started does not suspend and needs the session;         *)
(* _playwright.ensure_started awaits the launch.                             *)
StartTarget(a, snap) ==
    \/ /\ job[a].target = "extension" /\ session
       /\ InPlace(a, snap)
    \/ /\ job[a].target = "extension" /\ ~session
       /\ driver' = "none"
       /\ BreakOff(a)
    \/ /\ job[a].target = "playwright"
       /\ driver' = "none"
       /\ job' = [job EXCEPT ![a].at = "starting", ![a].snap = snap]
       /\ UNCHANGED <<queue, pending, spoilt>>

(* The backend in place is stopped, with all that it had. *)
NothingLeft == live' = [live EXCEPT ![driver] = {}] /\ lost' = {}

(* An extension that is gone is stopped without a suspension. *)
TakeSnapshot(a) ==
    /\ Runs(a, "locked") /\ driver # job[a].target
    /\ \/ /\ driver = "none"
          /\ StartTarget(a, tabs) /\ UNCHANGED <<live, lost>>
       \/ /\ driver = "extension" /\ ~session
          /\ NothingLeft
          /\ StartTarget(a, tabs)
       \/ /\ driver = "playwright" \/ (driver = "extension" /\ session)
          /\ job' = [job EXCEPT ![a].at = "stopping", ![a].snap = tabs]
          /\ UNCHANGED <<driver, queue, pending, spoilt, live, lost>>
    /\ UNCHANGED <<depth, hub, tabs, stray>>

(* Slip: the pages are not carried over. *)
OldStopped_NoPages(a) ==
    /\ Resumes(a, "stopping")
    /\ NothingLeft
    /\ StartTarget(a, {})
    /\ UNCHANGED <<depth, hub, tabs, stray>>

(* Whatever _stop_driver_for_transition met, the old backend has no pages. *)
OldStopped(a) ==
    /\ Resumes(a, "stopping")
    /\ NothingLeft
    /\ StartTarget(a, job[a].snap)
    /\ UNCHANGED <<depth, hub, tabs, stray>>

PlaywrightStarts(a) ==
    /\ Resumes(a, "starting")
    /\ \/ InPlace(a, job[a].snap)
       \/ BreakOff(a) /\ UNCHANGED driver
    /\ UNCHANGED <<depth, hub, pages>>

Reopen(a) ==
    /\ Resumes(a, "replay")
    /\ driver = "extension" => session
    /\ \E p \in job[a].todo :
         /\ live' = [live EXCEPT ![driver] = @ \cup {p}]
         /\ lost' = lost \ {p}
         /\ job' = [job EXCEPT ![a].todo = @ \ {p},
                               ![a].at = IF job[a].todo = {p} THEN "replayed" ELSE "replay"]
    /\ UNCHANGED <<driver, depth, pending, hub, queue, tabs, stray, spoilt>>

(* A page that cannot be loaded again, or a session that went away, ends the *)
(* replay.  Playwright has registered the page before it fails.              *)
ReopenFails(a) ==
    /\ Resumes(a, "replay")
    /\ \E p \in job[a].todo, known \in BOOLEAN :
         live' = [live EXCEPT ![driver] = IF known THEN @ \cup {p} ELSE @]
    /\ BreakOff(a)
    /\ UNCHANGED <<driver, depth, hub, tabs, stray, lost>>

(* update_tab refuses a page that was closed or reserved for closing while   *)
(* it was reopened; otherwise the active tabs are selected again, which      *)
(* awaits if there are any, and the rebind is done.                          *)
Reserved == {job[t].page : t \in {u \in Tasks : job[u].at = "body" /\ job[u].kind = "close"}}

Done(a) ==
    /\ queue' = Tail(queue)
    /\ job' = [job EXCEPT ![a] = Continued(@)]
    /\ stray' = stray \ job[a].snap
    /\ spoilt' = FALSE

Replayed(a) ==
    /\ Runs(a, "replayed")
    /\ \/ job[a].snap = {} /\ Done(a) /\ UNCHANGED pending
       \/ /\ job[a].snap # {} /\ job[a].snap \subseteq tabs \ Reserved
          /\ GoTo(a, "settling") /\ UNCHANGED <<queue, pending, stray, spoilt>>
       \/ /\ ~(job[a].snap \subseteq tabs \ Reserved)
          /\ BreakOff(a) /\ UNCHANGED stray
    /\ UNCHANGED <<driver, depth, hub, tabs, live, lost>>

Settle(a) ==
    /\ Resumes(a, "settling")
    /\ Done(a)
    /\ UNCHANGED <<driver, depth, pending, hub, tabs, live, lost>>

Rebinding(a) ==
    \/ GetLock(a) \/ AlreadyThere(a) \/ TakeSnapshot(a) \/ OldStopped(a)
    \/ PlaywrightStarts(a) \/ Reopen(a) \/ ReopenFails(a) \/ Replayed(a) \/ Settle(a)

-----------------------------------------------------------------------------
(* begin_command.  Page cleanup needs a backend and changes none. *)
Arrive(t) ==
    /\ Resumes(t, "idle")
    /\ \E k \in Kinds :
         /\ k = "close" => driver # "none"
         /\ job' = [job EXCEPT ![t].kind = k,
                               ![t].at = IF k = "close" THEN "enter" ELSE "start"]
    /\ UNCHANGED <<driver, depth, pending, hub, queue, pages, spoilt>>

(* ensure_started creates the watcher and waits for the extension if there   *)
(* is no backend.  A rebuild asked for by the popup enters here too.         *)
AfterStart(t) == IF job[t].kind = "rebuild" THEN "rebuild" ELSE "preflight"

EnsureStarted(t) ==
    /\ Runs(t, "start")
    /\ job' = [job EXCEPT ![Watcher] = IF @ = Unborn THEN Watching ELSE @,
                          ![t].at = IF driver = "none" THEN "session" ELSE AfterStart(t),
                          ![t].then = IF driver = "none" THEN AfterStart(t) ELSE "idle"]
    /\ UNCHANGED <<driver, depth, pending, hub, queue, pages, spoilt>>

FirstBackend(t) ==
    /\ Resumes(t, "session")
    /\ Activate(t, IF session THEN "extension" ELSE "playwright", job[t].then)
    /\ UNCHANGED <<driver, depth, pending, hub, pages, spoilt>>

(* _maybe_preflight_workspace_binding: ask only when all is quiet. *)
Claimed == tabs \cap {job[t].page : t \in {u \in Tasks : job[u].at \in {"body", "retry"}
                                                /\ job[u].kind \in {"page", "close"}}}

Preflight(t) ==
    /\ Runs(t, "preflight")
    /\ GoTo(t, IF driver = "extension" /\ depth = 0 /\ session /\ Claimed = {}
               THEN "status" ELSE "check")
    /\ UNCHANGED <<driver, depth, pending, hub, queue, pages, spoilt>>

(* The binding is in order, or stale, or the question fails. *)
BindingStatus(t) ==
    /\ Resumes(t, "status")
    /\ \/ GoTo(t, "check")
       \/ session /\ GoTo(t, "rebuild")
    /\ UNCHANGED <<driver, depth, pending, hub, queue, pages, spoilt>>

(* rebuild_workspace_binding, for the preflight or for the popup. *)
AfterRebuild(t) ==
    IF job[t].kind = "rebuild" THEN Finish(t) ELSE GoTo(t, "check")

Rebuild(t) ==
    /\ Runs(t, "rebuild")
    /\ IF driver = "none"
       THEN job' = [job EXCEPT ![t].at = "session", ![t].then = "rebuild"]
       ELSE IF driver = "extension" /\ session THEN GoTo(t, "rebuilding")
       ELSE AfterRebuild(t)
    /\ UNCHANGED <<driver, depth, pending, hub, queue, pages, spoilt>>

Rebuilt(t) ==
    /\ Resumes(t, "rebuilding")
    /\ AfterRebuild(t)
    /\ \/ /\ session
          /\ tabs' = {} /\ lost' = {} /\ live' = [live EXCEPT !["extension"] = {}]
       \/ UNCHANGED <<tabs, lost, live>>
    /\ UNCHANGED <<driver, depth, pending, hub, queue, stray, spoilt>>

CheckSession(t) ==
    /\ Runs(t, "check")
    /\ IF driver = "extension" /\ ~session
       THEN Activate(t, "playwright", "apply")
       ELSE GoTo(t, "apply") /\ UNCHANGED queue
    /\ UNCHANGED <<driver, depth, pending, hub, pages, spoilt>>

(* _maybe_apply_pending_rebind *)
ApplyPending(t, w, then) ==
    IF w = 0 /\ pending
    THEN pending' = FALSE /\ Activate(t, "extension", then)
    ELSE /\ IF then = "idle" THEN Finish(t) ELSE GoTo(t, then)
         /\ UNCHANGED <<pending, queue>>

Apply(t) ==
    /\ Runs(t, "apply")
    /\ ApplyPending(t, depth, "enter")
    /\ UNCHANGED <<driver, depth, hub, pages, spoilt>>

(* The command is begun, and its handler calls the backend in place now. *)
Fresh == Pages \ (tabs \cup stray \cup (UNION {live[b] : b \in Backends})
                     \cup (UNION {job[a].snap \cup {job[a].page} : a \in Actors}))
PageFor(k) == CASE k = "open" -> Fresh
                [] k = "page" -> tabs \ Claimed
                [] k = "close" -> tabs \ Reserved
                [] OTHER -> {None}

Enter(t) ==
    /\ Runs(t, "enter")
    /\ depth' = depth + 1
    /\ \/ \E p \in PageFor(job[t].kind) :
            /\ driver # "none"
            /\ job' = [job EXCEPT ![t].at = "body", ![t].page = p, ![t].on = driver]
       \/ /\ driver = "none" \/ PageFor(job[t].kind) = {}
          /\ GoTo(t, "end")
    /\ UNCHANGED <<driver, pending, hub, queue, pages, spoilt>>

-----------------------------------------------------------------------------
(* What the handlers do with the answer of the backend they called. *)
Doing(t, k) == Resumes(t, "body") /\ job[t].kind = k
Answered(t) ==
    /\ job' = [job EXCEPT ![t] = [NoJob EXCEPT !.at = "end", !.kind = job[t].kind]]
    /\ UNCHANGED <<driver, depth, pending, hub, queue, spoilt>>

(* A call that fails or is cancelled has done nothing, or was a close that   *)
(* has destroyed the page all the same: the answer is late or lost, or what  *)
(* follows in the driver fails, a video that is saved for instance.          *)
CloseGoesUnnoticed(t) ==
    LET p == job[t].page
        b == job[t].on
    IN  /\ Doing(t, "close") /\ p \in live[b]
        /\ live' = [live EXCEPT ![b] = @ \ {p}]
        /\ lost' = lost \cup ({p} \cap tabs)
        /\ UNCHANGED <<tabs, stray>>

CallFails(t) ==
    /\ Resumes(t, "body") \/ Resumes(t, "retry")
    /\ CloseGoesUnnoticed(t) \/ UNCHANGED pages
    /\ Answered(t)

PageDone(t) ==
    /\ Doing(t, "page") \/ Resumes(t, "retry")
    /\ Answered(t) /\ UNCHANGED pages

SnapshotTaken == \E a \in Actors : job[a].at \in Held

Opened(t) ==
    LET p == job[t].page
        b == job[t].on
    IN  /\ Doing(t, "open") /\ (b = "extension" => session)
        /\ live' = [live EXCEPT ![b] = @ \cup {p}]
        /\ tabs' = tabs \cup {p}
        /\ stray' = IF SnapshotTaken \/ b # driver THEN stray \cup {p} ELSE stray
        /\ UNCHANGED lost
        /\ Answered(t)

(* Playwright takes it well that a page is closed a second time. *)
Closed(t) ==
    LET p == job[t].page
        b == job[t].on
    IN  /\ Doing(t, "close")
        /\ \/ p \in live[b] /\ (b = "extension" => session)
           \/ p \in lost /\ b = "playwright"
        /\ live' = [live EXCEPT ![b] = @ \ {p}]
        /\ tabs' = tabs \ {p} /\ stray' = stray \ {p} /\ lost' = lost \ {p}
        /\ Answered(t)

ReadDone(t) == Doing(t, "read") /\ Answered(t) /\ UNCHANGED pages

(* read_page: a chunk or a disconnection error on the extension. *)
ReadFallsBack(t) ==
    /\ Doing(t, "read") /\ driver = "extension"
    /\ Activate(t, "playwright", "retry")
    /\ UNCHANGED <<driver, depth, pending, hub, pages, spoilt>>

(* end_command; page cleanup does not allow a rebind. *)
End(t) ==
    /\ Runs(t, "end")
    /\ depth' = IF depth = 0 THEN 0 ELSE depth - 1
    /\ IF job[t].kind = "close"
       THEN Finish(t) /\ UNCHANGED <<pending, queue>>
       ELSE ApplyPending(t, depth', "idle")
    /\ UNCHANGED <<driver, hub, pages, spoilt>>

(* The task is cancelled at its await.  Before the command has begun and     *)
(* after it has ended nothing is left to undo; in between it still ends.     *)
(* (Slip: a handler that ends it in any case.)                               *)
Without(a) ==
    IF \A i \in DOMAIN queue : queue[i] # a THEN queue
    ELSE LET i == CHOOSE i \in DOMAIN queue : queue[i] = a
         IN  SubSeq(queue, 1, i - 1) \o SubSeq(queue, i + 1, Len(queue))
Unwound_AlwaysEnds(j) == [NoJob EXCEPT !.at = "end", !.kind = j.kind]
Unwound(j) == IF j.at \in {"body", "retry"} \/ j.then = "retry"
              THEN [NoJob EXCEPT !.at = "end", !.kind = j.kind] ELSE NoJob

Cancel(t) ==
    /\ Cancels
    /\ \E w \in Awaits \ {"idle"} : Resumes(t, w)
    /\ job' = [job EXCEPT ![t] = Unwound(@)]
    /\ queue' = Without(t)
    /\ spoilt' = (spoilt \/ job[t].at \in Held \ {"settling"})
    /\ IF job[t].at = "stopping"
       THEN /\ \E left \in SUBSET live[driver] : live' = [live EXCEPT ![driver] = left]
            /\ UNCHANGED <<tabs, stray, lost>>
       ELSE CloseGoesUnnoticed(t) \/ UNCHANGED pages
    /\ UNCHANGED <<driver, depth, pending, hub>>

Command(t) ==
    \/ EnsureStarted(t) \/ FirstBackend(t) \/ Preflight(t) \/ BindingStatus(t)
    \/ Rebuild(t) \/ Rebuilt(t) \/ CheckSession(t) \/ Apply(t) \/ Enter(t)
    \/ CallFails(t) \/ PageDone(t) \/ Opened(t) \/ Closed(t) \/ ReadDone(t)
    \/ ReadFallsBack(t) \/ End(t)

-----------------------------------------------------------------------------
(* _watch_extension_changes *)
Watch ==
    /\ Resumes(Watcher, "watching") /\ changed
    /\ changed' = FALSE
    /\ \/ /\ session /\ driver # "extension" /\ depth = 0
          /\ Activate(Watcher, "extension", "watching")
          /\ UNCHANGED pending
       \/ /\ session /\ driver # "extension" /\ depth # 0
          /\ pending' = TRUE
          /\ UNCHANGED <<queue, job>>
       \/ /\ ~(session /\ driver # "extension")
          /\ UNCHANGED <<pending, queue, job>>
    /\ UNCHANGED <<driver, depth, session, pages, spoilt>>

(* The hub: the extension connects, its connection is lost, or a new one    *)
(* takes the place of the old.                                               *)
SessionChanges ==
    /\ \A a \in Actors : job[a].at \in Awaits
    /\ session' \in {TRUE, ~session} /\ changed' = TRUE
    /\ UNCHANGED <<driver, depth, pending, queue, pages, job, spoilt>>

Next ==
    \/ \E t \in Tasks : Arrive(t) \/ Command(t) \/ Cancel(t)
    \/ \E a \in Actors : Rebinding(a)
    \/ Watch
    \/ SessionChanges

Spec == Init /\ [][Next]_vars

(* What an actor does on its own: the steps that need no backend, and the    *)
(* questions to the extension that the hub gives thirty seconds, as the wait *)
(* for its session has a limit too.                                          *)
Proceeds(t) ==
    \/ EnsureStarted(t) \/ FirstBackend(t) \/ Preflight(t) \/ BindingStatus(t)
    \/ Rebuild(t) \/ Rebuilt(t) \/ CheckSession(t) \/ Apply(t) \/ Enter(t) \/ End(t)
MovesUp(a) == GetLock(a) \/ AlreadyThere(a) \/ TakeSnapshot(a) \/ Replayed(a)

(* The loop runs what is ready first come, first served: an actor that is    *)
(* ready again and again, whenever nobody holds the loop, is resumed, which  *)
(* is strong fairness.  Nothing is assumed of the calls to a backend, in a   *)
(* rebind or for a command: Playwright stops, starts, opens, selects and     *)
(* closes pages and reads titles without a time limit.                       *)
FairSpec ==
    /\ Spec
    /\ \A t \in Tasks : SF_vars(Proceeds(t))
    /\ \A a \in Actors : SF_vars(MovesUp(a))
    /\ SF_vars(Watch)

-----------------------------------------------------------------------------
JobType == [at : Straight \cup Awaits, kind : AllKinds \cup {None},
            page : Pages \cup {None}, on : Backends \cup {"none"},
            target : Backends \cup {"none"}, snap : SUBSET Pages, todo : SUBSET Pages,
            then : {"idle", "watching", "retry", "rebuild", "preflight", "apply", "enter"}]

(* The type of the state. *)
TypeOK ==
    /\ driver \in Backends \cup {"none"}
    /\ depth \in Nat /\ pending \in BOOLEAN
    /\ session \in BOOLEAN /\ changed \in BOOLEAN
    /\ queue \in Seq(Actors)
    /\ tabs \subseteq Pages /\ stray \subseteq Pages /\ lost \subseteq Pages
    /\ live \in [Backends -> SUBSET Pages]
    /\ job \in [Actors -> JobType]
    /\ spoilt \in BOOLEAN

(* The command depth, on which every decision about a rebind hangs, counts   *)
(* exactly the commands that have begun and not ended, whatever was          *)
(* cancelled and whichever rebind raised inside begin or end (app.py clears  *)
(* command_started before it awaits end_command).                            *)
Reading(t) == job[t].at \in {"queued", "locked", "replayed"} \cup Held /\ job[t].then = "retry"
DepthCounts ==
    /\ TypeOK
    /\ depth = Cardinality({t \in Tasks : job[t].at \in Begun \/ Reading(t)})

(* Rebinds do not interleave: pages are reopened on the backend that the     *)
(* rebind has put in place, although it is replaced only behind a lock and   *)
(* every reopening is an await.  When none is under way and the last one was *)
(* not broken off, every registered page can be reached on the backend in    *)
(* place, unless it was opened while a rebind had already taken its          *)
(* snapshot, or destroyed there by a close that failed.                      *)
Quiet == queue = << >> /\ ~spoilt
Replaying == {"replay", "replayed", "settling"}
RegisteredPagesReachable ==
    /\ \A a \in Actors : job[a].at \in Replaying =>
           driver = job[a].target /\ Head(queue) = a
    /\ Quiet /\ driver # "none" => tabs \ (stray \cup lost) \subseteq live[driver]

(* A command that runs has a backend to run on, except while a rebind is     *)
(* under way or after one was broken off.                                    *)
BegunHasBackend ==
    (Quiet /\ \E t \in Tasks : job[t].at \in {"body", "retry"}) => driver # "none"

(* A rebind, once asked for, ends, and so does every wait for its lock; but  *)
(* who is in the lock may hang for ever in one call to a backend, and with   *)
(* it all who wait.                                                          *)
RebindEnds ==
    \/ \A a \in Actors :
          (job[a].at \in Held \cup {"queued"}) ~> (job[a].at \notin Held \cup {"queued"})
    \/ \E a \in Actors, w \in Held : <>[](job[a].at = w)
=============================================================================
