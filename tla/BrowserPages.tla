----------------------------- MODULE BrowserPages -----------------------------
(* BrowserService of browser/service.py: the pages of one Playwright context *)
(* and everything it keeps beside them.                                      *)
(*                                                                           *)
(* A task brings one call at a time and comes back with another.  A call is  *)
(* cut at its awaits; Chrome's side of an await (a page appears, a page is   *)
(* destroyed, an answer) and the code up to the next await are one action,   *)
(* for the loop serves the answers of one connection in their order.         *)
EXTENDS NetworkRecords, TLC

CONSTANTS Tasks,       \* tasks of the daemon that may be inside the service
          Ids,         \* page ids; one is taken again when nothing refers to it
          Chrome,      \* pages of the browser, taken again when closed and forgotten
          Calls,       \* the operations on a page that the tasks bring
          Notes,       \* those without an await
          WaitFilters, \* the filters of wait_for_network_record
          None

VARIABLES
    context,      \* "none", "launching", "up", "closing" while stop awaits its
                  \* end, or "broken": left by a stop or a launch that failed
    open,         \* pages that are open in the browser
    pages,        \* _pages
    reusable,     \* _reusable_startup_pages
    kept,         \* what the other tables hold, as pairs (id, table)
    observers,    \* _network_observers
    createLock,   \* the holder of _page_create_lock
    known,        \* ids the callers know, from the result of new_tab
    strays,       \* history: ids that stop forgot without closing their page
    doomed,       \* history: known ids whose page a close or a stop destroyed
                  \* that has not ended, or has failed
    job           \* what each task is in the middle of

vars == <<context, open, pages, reusable, kept, observers, createLock, known,
          strays, doomed, job>>

-----------------------------------------------------------------------------
(* What an operation does, await by await, after it has required the page:   *)
(* "page" is a call on the page or on a locator of it, "context" one on the  *)
(* context, "summary" requires the page again and asks for its title,        *)
(* "session" makes a CDP session unless the page has one.  Whether a trace   *)
(* is active (_tracing_active) is left open.                                 *)
NavigationCalls ==
    [op \in {"navigate", "reload", "go_back", "go_forward"} |-> <<"page", "summary">>]
    @@ [op \in {"get_page_summary", "capture_html", "resize", "capture_snapshot_input"}
           |-> <<"page">>]
    @@ "get_page_info" :> <<"page", "page">>

(* count() on the locator first, then the action. *)
LocatorCalls ==
    [op \in {"click_locator", "double_click_locator", "hover_locator", "focus_locator",
             "select_locator", "list_locator_options", "set_checked_locator",
             "scroll_to_locator", "upload_to_locator", "evaluate_on_locator",
             "verify_state_locator", "verify_value_locator"} |-> <<"page", "page">>]
    @@ [op \in {"fill_locator", "drag_between_locators"} |-> <<"page", "page", "page">>]

InputCalls ==
    [op \in {"press_key", "key_down", "key_up", "mouse_move", "mouse_click", "mouse_down",
             "mouse_up", "evaluate", "wait", "wait_for_network_idle"} |-> <<"page">>]
    @@ "type_text" :> <<"page", "page">> @@ "mouse_drag" :> [i \in 1..4 |-> "page"]
    @@ "wheel" :> [i \in 1..5 |-> "page"]

StorageCalls ==
    [op \in {"get_cookies", "set_cookie", "clear_cookies", "save_storage_state"} |-> <<"context">>]
    @@ "load_storage_state" :> <<"context", "page">>

TraceCalls == [op \in {"start_tracing", "add_trace_chunk", "stop_tracing"} |-> <<"context">>]

VerifyCalls == [op \in {"verify_text", "verify_visible", "verify_title"} |-> <<"page">>]

(* Geometry and session; what follows (viewport, metrics, fonts, the image   *)
(* or its tiles, restoration) counts as one call on the page.                *)
OutputCalls == "screenshot" :> <<"page", "session", "page">> @@ "save_pdf" :> <<"page">>

(* PlaywrightDriver: the names of the driver interface that the service      *)
(* spells otherwise.                                                         *)
Renamed ==
    [op \in {"click", "double_click", "hover", "focus", "fill", "select", "evaluate_on",
             "verify_state", "verify_value"} |-> op \o "_locator"]
    @@ "list_options" :> "list_locator_options" @@ "check" :> "set_checked_locator"
    @@ "scroll_to" :> "scroll_to_locator" @@ "drag" :> "drag_between_locators"
    @@ "upload" :> "upload_to_locator"

Service == NavigationCalls @@ LocatorCalls @@ InputCalls @@ StorageCalls @@ TraceCalls
           @@ VerifyCalls @@ OutputCalls
Steps(op) ==
    CASE op = "switch_tab" -> <<"page", "summary">>
      [] op \in DOMAIN Renamed -> Service[Renamed[op]]
      [] OTHER -> Service[op]

(* What the operations without an await put into the tables and take out.    *)
Tables == {"console", "messages", "dialog", "video", "pending", "session"}
Adds ==
    [start_console_capture |-> {"console", "messages"}, get_console_messages |-> {"messages"},
     stop_console_capture |-> {}, setup_dialog_handler |-> {"dialog"}, handle_dialog |-> {},
     remove_dialog_handler |-> {}, start_video |-> {"video"}, stop_video |-> {"pending"}]
Drops ==
    [stop_console_capture |-> {"console"}, handle_dialog |-> {"dialog"},
     remove_dialog_handler |-> {"dialog"}, start_video |-> {"pending"}, stop_video |-> {"video"}]
    @@ [op \in DOMAIN Adds |-> {}]

(* The operations await these, and are none of the four that have stages of  *)
(* their own.                                                                *)
StepNames == {"page", "context", "summary", "session"}
OwnOps == {"idle", "open", "close", "stop", "wait_for_network_record"}

ASSUME PagesAssumption ==
    /\ None \notin Tasks \cup Ids \cup Chrome
    /\ \A op \in Calls : op \notin OwnOps /\ Steps(op) \in Seq(StepNames) \ {<< >>}
    /\ Notes \subseteq DOMAIN Adds
    /\ None \notin Observers([task : Tasks, filter : WaitFilters])

Idle == [op |-> "idle", at |-> "idle", id |-> None, page |-> None, rest |-> << >>, todo |-> {}]

Init ==
    /\ context = "none" /\ open = {} /\ reusable = << >> /\ kept = {}
    /\ pages = [i \in Ids |-> None] /\ observers = [i \in Ids |-> None]
    /\ createLock = None /\ known = {} /\ strays = {} /\ doomed = {}
    /\ job = [t \in Tasks |-> Idle]

-----------------------------------------------------------------------------
(* Helpers. *)
Registered == {i \in Ids : pages[i] # None}
Of(id) == {id} \X Tables
At(t, at) == job[t].at = at
Goto(t, at) == job' = [job EXCEPT ![t].at = at]
Done(t) == job' = [job EXCEPT ![t] = Idle]
Stopping == \E t \in Tasks : job[t].op = "stop"
Alive(page) == page \in open
Standing == context \in {"up", "closing", "broken"}

Unused(page) ==
    page \notin open \cup Range(pages) \cup Range(reusable) \cup {job[t].page : t \in Tasks}
Free(id) ==
    /\ id \notin known \cup Registered
    /\ Of(id) \cap kept = {} /\ observers[id] = None
    /\ \A t \in Tasks : job[t].id # id

(* The claims of the tab registry let one operation at a time use a page;    *)
(* close-tab may come beside it, once.                                       *)
MayUse(id) ==
    id \in known /\ \A t \in Tasks : job[t].id # id
MayClose(id) ==
    id \in known /\ \A t \in Tasks : job[t].id = id => job[t].op # "close"

(* new_page of a persistent context needs an open window. *)
NewPages == IF Standing /\ open # {}
            THEN {p \in Chrome : Unused(p)} ELSE {}

-----------------------------------------------------------------------------
(* ensure_started and new_tab.                                               *)
BringOpen(t, id) ==
    /\ At(t, "idle") /\ Free(id)
    /\ job' = [job EXCEPT ![t] = [Idle EXCEPT !.op = "open", !.at = "start", !.id = id]]
    /\ UNCHANGED <<context, open, pages, reusable, kept, observers, createLock, known, strays, doomed>>

(* Under _start_lock: whoever finds no context launches one. *)
EnsureStarted(t) ==
    /\ At(t, "start")
    /\ \/ context = "none" /\ context' = "launching" /\ Goto(t, "launch")
       \/ Standing /\ UNCHANGED context /\ Goto(t, "lock")
    /\ UNCHANGED <<open, pages, reusable, kept, observers, createLock, known, strays, doomed>>

Launched(t) ==
    /\ At(t, "launch")
    /\ \E p \in Chrome : Unused(p) /\ open' = {p} /\ reusable' = <<p>>
    /\ context' = "up" /\ Goto(t, "lock")
    /\ UNCHANGED <<pages, kept, observers, createLock, known, strays, doomed>>

ClearTables ==
    /\ pages' = [i \in Ids |-> None] /\ observers' = [i \in Ids |-> None]
    /\ kept' = {} /\ reusable' = << >>

(* The context may be there when the launch fails, and fail to be closed.    *)
LaunchFails(t) ==
    /\ At(t, "launch") /\ ClearTables /\ Done(t)
    /\ context' \in {"none", "broken"}
    /\ UNCHANGED <<open, createLock, known, strays, doomed>>

Register(t, page, reuse) ==
    LET id == job[t].id IN
    /\ pages' = [pages EXCEPT ![id] = page] /\ reusable' = reuse
    /\ strays' = IF context = "closing" THEN strays \cup {id} ELSE strays \ {id}
    /\ observers' = [observers EXCEPT ![id] = NewObserver]
    /\ job' = [job EXCEPT ![t].page = page, ![t].at = "navigate"]

(* _acquire_page: the startup pages that were navigated meanwhile are passed *)
(* over, the first blank one is taken, a new page is asked for otherwise.    *)
AcquirePage_LeftInList(t) ==
    /\ At(t, "lock") /\ createLock = None /\ createLock' = t
    /\ IF reusable # << >> /\ Alive(reusable[1])
       THEN Register(t, reusable[1], reusable)
       ELSE reusable' = << >> /\ Goto(t, "newpage") /\ UNCHANGED <<pages, observers, strays, doomed>>
    /\ UNCHANGED <<context, open, kept, known, doomed>>

AcquirePage(t) ==
    /\ At(t, "lock") /\ createLock = None /\ createLock' = t
    /\ \E n \in 0..Len(reusable) :
           IF n < Len(reusable)
           THEN /\ Alive(reusable[n + 1])
                /\ Register(t, reusable[n + 1], SubSeq(reusable, n + 2, Len(reusable)))
           ELSE reusable' = << >> /\ Goto(t, "newpage") /\ UNCHANGED <<pages, observers, strays, doomed>>
    /\ UNCHANGED <<context, open, kept, known, doomed>>

NewPage(t) ==
    /\ At(t, "newpage")
    /\ \E p \in NewPages : open' = open \cup {p} /\ Register(t, p, reusable)
    /\ UNCHANGED <<context, kept, createLock, known, doomed>>

Navigated(t) ==
    /\ At(t, "navigate") /\ Alive(job[t].page) /\ job[t].id \in Registered
    /\ Goto(t, "title")
    /\ UNCHANGED <<context, open, pages, reusable, kept, observers, createLock, known, strays, doomed>>

Opened(t) ==
    /\ At(t, "title") /\ Alive(job[t].page)
    /\ known' = known \cup {job[t].id} /\ createLock' = None /\ Done(t)
    /\ UNCHANGED <<context, open, pages, reusable, kept, observers, strays, doomed>>

(* The page stays where it is: in the browser and in _pages, under an id     *)
(* that the caller never learns.                                             *)
OpenFails(t) ==
    /\ job[t].at \in {"newpage", "navigate", "title"}
    /\ createLock' = None /\ Done(t)
    /\ UNCHANGED <<context, open, pages, reusable, kept, observers, known, strays, doomed>>

-----------------------------------------------------------------------------
(* _close_page, for close_tab and for each page of stop.  What is left to do *)
(* once the page is gone is to save the video that was asked for.            *)
Video(id) == IF kept \cap ({id} \X {"pending", "video"}) = {} THEN << >> ELSE <<"video">>

StartClose(t, id, todo) ==
    /\ kept' = kept \ ({id} \X {"pending", "video"})
    /\ job' = [job EXCEPT ![t].at = "closelock", ![t].id = id, ![t].page = pages[id],
                          ![t].todo = todo, ![t].rest = Video(id),
                          ![t].op = IF @ = "stop" THEN "stop" ELSE "close"]

BringClose(t, id) ==
    /\ At(t, "idle") /\ MayClose(id) /\ id \in Registered
    /\ StartClose(t, id, {})
    /\ UNCHANGED <<context, open, pages, reusable, observers, createLock, known, strays, doomed>>

(* _remove_page_handlers: the observer's finalizers and waiters are          *)
(* cancelled, then the browser is asked to close the page.                   *)
RemoveHandlers(t) ==
    LET id == job[t].id IN
    /\ kept' = kept \ ({id} \X {"console", "messages", "dialog", "video", "pending"})
    /\ observers' = [observers EXCEPT ![id] = None]
    /\ job' = [s \in Tasks |->
                  CASE s = t -> [job[t] EXCEPT !.at = "destroy"]
                    [] At(s, "waiting") /\ job[s].id = id -> Idle
                    [] OTHER -> job[s]]

(* _ensure_reusable_page_before_last_close *)
IsLast(page) == Standing /\ Alive(page) /\ Cardinality(open) <= 1

GetCloseLock_Unlocked(t) ==
    /\ At(t, "closelock") /\ UNCHANGED createLock
    /\ IF IsLast(job[t].page)
       THEN Goto(t, "replace") /\ UNCHANGED <<kept, observers>>
       ELSE RemoveHandlers(t)
    /\ UNCHANGED <<context, open, pages, reusable, known, strays, doomed>>

GetCloseLock(t) ==
    /\ At(t, "closelock") /\ createLock = None /\ createLock' = t
    /\ IF IsLast(job[t].page)
       THEN Goto(t, "replace") /\ UNCHANGED <<kept, observers>>
       ELSE RemoveHandlers(t)
    /\ UNCHANGED <<context, open, pages, reusable, known, strays, doomed>>

Replaced(t) ==
    /\ At(t, "replace")
    /\ \E p \in NewPages : open' = open \cup {p} /\ reusable' = Append(reusable, p)
    /\ RemoveHandlers(t)
    /\ UNCHANGED <<context, pages, createLock, known, strays, doomed>>

(* What follows a page of stop is the next page. *)
AfterClose(t) ==
    job' = [job EXCEPT ![t] = IF @.op = "stop" THEN [@ EXCEPT !.at = "stopping", !.id = None,
                                                             !.page = None, !.rest = << >>]
                                              ELSE Idle]

(* The page is gone and the call has not ended, or raises all the same: who  *)
(* asked for it keeps its id.  (stop tells its caller at the end.)           *)
Doom(t) == doomed' = doomed \cup ({job[t].id} \cap known) /\ UNCHANGED known

CloseReturns(t) ==
    /\ IF job[t].op = "stop" THEN Doom(t)
       ELSE known' = known \ {job[t].id} /\ doomed' = doomed \ {job[t].id}
    /\ AfterClose(t)

Destroyed_SessionKept(t) ==
    LET id == job[t].id IN
    /\ At(t, "destroy")
    /\ open' = open \ {job[t].page}
    /\ pages' = [pages EXCEPT ![id] = None] /\ UNCHANGED kept
    /\ createLock' = None
    /\ IF job[t].rest = << >> THEN CloseReturns(t) ELSE Doom(t) /\ Goto(t, "video")
    /\ UNCHANGED <<context, reusable, observers, strays>>

Destroyed(t) ==
    LET id == job[t].id IN
    /\ At(t, "destroy")
    /\ open' = open \ {job[t].page}
    /\ pages' = [pages EXCEPT ![id] = None] /\ kept' = kept \ {<<id, "session">>}
    /\ createLock' = None
    /\ IF job[t].rest = << >> THEN CloseReturns(t) ELSE Doom(t) /\ Goto(t, "video")
    /\ UNCHANGED <<context, reusable, observers, strays>>

(* _save_video_artifact *)
VideoSaved(t) ==
    /\ At(t, "video") /\ CloseReturns(t)
    /\ UNCHANGED <<context, open, pages, reusable, kept, observers, createLock, strays>>

VideoFails(t) ==
    /\ At(t, "video") /\ Doom(t) /\ AfterClose(t)
    /\ UNCHANGED <<context, open, pages, reusable, kept, observers, createLock, strays>>

(* An error, a time-out, or close_tab is cancelled; Chrome may have closed   *)
(* the page by then.                                                         *)
CloseFailsAt(t) ==
    \/ At(t, "closelock") /\ job[t].op = "close" /\ UNCHANGED <<open, known, doomed>>
    \/ job[t].at \in {"replace", "destroy"} /\ UNCHANGED <<open, known, doomed>>
    \/ At(t, "destroy") /\ open' = open \ {job[t].page} /\ Doom(t)
LeavesLock(t) == createLock' = IF createLock = t THEN None ELSE createLock

CloseFails_LockKept(t) ==
    /\ CloseFailsAt(t)
    /\ UNCHANGED createLock /\ AfterClose(t)
    /\ UNCHANGED <<context, pages, reusable, kept, observers, strays>>

CloseFails_Forgotten(t) ==
    /\ CloseFailsAt(t)
    /\ pages' = [pages EXCEPT ![job[t].id] = None]
    /\ LeavesLock(t) /\ AfterClose(t)
    /\ UNCHANGED <<context, reusable, kept, observers, strays>>

CloseFails(t) ==
    /\ CloseFailsAt(t)
    /\ LeavesLock(t) /\ AfterClose(t)
    /\ UNCHANGED <<context, pages, reusable, kept, observers, strays>>

-----------------------------------------------------------------------------
(* stop, which a change of drivers may bring beside the commands that have   *)
(* begun meanwhile.                                                          *)
BringStop(t) ==
    /\ At(t, "idle") /\ ~Stopping
    /\ \E at \in {"stopping", "untrace"} :
           /\ at = "untrace" => Standing
           /\ job' = [job EXCEPT ![t] = [Idle EXCEPT !.op = "stop", !.at = at, !.todo = Registered]]
    /\ UNCHANGED <<context, open, pages, reusable, kept, observers, createLock, known, strays, doomed>>

(* A trace that is active is saved first, or not; the list of pages is made  *)
(* after that.                                                               *)
TraceSaved(t) ==
    /\ At(t, "untrace")
    /\ job' = [job EXCEPT ![t].at = "stopping", ![t].todo = Registered]
    /\ UNCHANGED <<context, open, pages, reusable, kept, observers, createLock, known, strays, doomed>>

StopNext(t) ==
    /\ At(t, "stopping")
    /\ \E id \in job[t].todo :
           IF id \in Registered
           THEN StartClose(t, id, job[t].todo \ {id})
           ELSE job' = [job EXCEPT ![t].todo = @ \ {id}] /\ UNCHANGED kept
    /\ UNCHANGED <<context, open, pages, reusable, observers, createLock, known, strays, doomed>>

StopContext(t) ==
    /\ At(t, "stopping") /\ job[t].todo = {}
    /\ ClearTables /\ strays' = strays \cup Registered
    /\ IF Standing THEN context' = "closing" /\ Goto(t, "context")
                   ELSE Goto(t, "server") /\ UNCHANGED context
    /\ UNCHANGED <<open, createLock, known, doomed>>

ContextClosed(t) ==
    /\ At(t, "context")
    /\ context' = "none" /\ open' = {} /\ Goto(t, "server")
    /\ UNCHANGED <<pages, reusable, kept, observers, createLock, known, strays, doomed>>

(* The callers forget the pages of a service that they have stopped, or have *)
(* failed to stop: then _context stays, with no page that can be reached,    *)
(* until the next stop tries again.                                          *)
Stopped(t) ==
    /\ At(t, "server") /\ known' = {} /\ doomed' = {} /\ Done(t)
    /\ UNCHANGED <<context, open, pages, reusable, kept, observers, createLock, strays>>

ContextCloseFails(t) ==
    /\ At(t, "context")
    /\ context' = "broken" /\ open' = {}
    /\ known' = {} /\ doomed' = {} /\ Done(t)
    /\ UNCHANGED <<pages, reusable, kept, observers, createLock, strays>>

-----------------------------------------------------------------------------
(* The operations on a page.                                                 *)
BringCall(t, id, op) ==
    /\ At(t, "idle") /\ MayUse(id) /\ id \in Registered
    /\ job' = [job EXCEPT ![t] = [Idle EXCEPT !.op = op, !.at = "call", !.id = id,
                                              !.page = pages[id], !.rest = Steps(op)]]
    /\ UNCHANGED <<context, open, pages, reusable, kept, observers, createLock, known, strays, doomed>>

Answered(t) ==
    LET j == job[t]
        step == Head(j.rest)
    IN /\ At(t, "call") /\ Alive(j.page)
       /\ step = "summary" => j.id \in Registered
       /\ kept' = IF step = "session" THEN kept \cup {<<j.id, "session">>} ELSE kept
       /\ IF Len(j.rest) = 1 THEN Done(t) ELSE job' = [job EXCEPT ![t].rest = Tail(@)]
       /\ UNCHANGED <<context, open, pages, reusable, observers, createLock, known, strays, doomed>>

(* An error of the browser, a time-out, a page or a context that is gone. *)
CallFails(t) ==
    /\ At(t, "call") /\ Done(t)
    /\ UNCHANGED <<context, open, pages, reusable, kept, observers, createLock, known, strays, doomed>>

(* get_console_messages is the one that does not require the page. *)
Note(t, id, op) ==
    /\ At(t, "idle") /\ MayUse(id)
    /\ op # "get_console_messages" => id \in Registered
    /\ op = "stop_video" => <<id, "video">> \in kept
    /\ kept' = (kept \ ({id} \X Drops[op])) \cup ({id} \X Adds[op])
    /\ UNCHANGED <<context, open, pages, reusable, observers, createLock, known, strays, doomed, job>>

-----------------------------------------------------------------------------
(* Network records.                                                          *)
BringWait_NoLookup(t, id, filter) ==
    /\ At(t, "idle") /\ MayUse(id) /\ id \in Registered /\ observers[id] # None
    /\ observers' = [observers EXCEPT ![id] = AddWaiter(@, t, filter)]
    /\ job' = [job EXCEPT ![t] = [Idle EXCEPT !.op = "wait_for_network_record",
                                              !.at = "waiting", !.id = id, !.page = pages[id]]]
    /\ UNCHANGED <<context, open, pages, reusable, kept, createLock, known, strays, doomed>>

BringWait(t, id, filter) ==
    /\ At(t, "idle") /\ MayUse(id) /\ id \in Registered /\ observers[id] # None
    /\ ~Found(observers[id], filter)
    /\ observers' = [observers EXCEPT ![id] = AddWaiter(@, t, filter)]
    /\ job' = [job EXCEPT ![t] = [Idle EXCEPT !.op = "wait_for_network_record",
                                              !.at = "waiting", !.id = id, !.page = pages[id]]]
    /\ UNCHANGED <<context, open, pages, reusable, kept, createLock, known, strays, doomed>>

WaitTimesOut(t) ==
    LET id == job[t].id IN
    /\ At(t, "waiting") /\ Done(t)
    /\ observers' = [observers EXCEPT ![id] = IF @ = None THEN None ELSE DropWaiter(@, t)]
    /\ UNCHANGED <<context, open, pages, reusable, kept, createLock, known, strays, doomed>>

RequestFinished(id, type) ==
    /\ id \in Registered /\ Alive(pages[id]) /\ observers[id] # None
    /\ observers' = [observers EXCEPT ![id] = Spawn(@, type)]
    /\ UNCHANGED <<context, open, pages, reusable, kept, createLock, known, strays, doomed, job>>

Finalized(id, type) ==
    /\ observers[id] # None /\ type \in observers[id].finalizing
    /\ \/ /\ observers' = [observers EXCEPT ![id] = FinalizeRequest(@, type)]
          /\ job' = [t \in Tasks |-> IF t \in Served(observers[id], type) THEN Idle ELSE job[t]]
       \/ observers' = [observers EXCEPT ![id] = FinalizeFails(@, type)] /\ UNCHANGED job
    /\ UNCHANGED <<context, open, pages, reusable, kept, createLock, known, strays, doomed>>

-----------------------------------------------------------------------------
Progress(t) ==
    \/ EnsureStarted(t) \/ Launched(t) \/ LaunchFails(t) \/ AcquirePage(t) \/ NewPage(t)
    \/ Navigated(t) \/ Opened(t) \/ OpenFails(t)
    \/ GetCloseLock(t) \/ Replaced(t) \/ Destroyed(t) \/ VideoSaved(t) \/ VideoFails(t)
    \/ CloseFails(t)
    \/ TraceSaved(t) \/ StopNext(t) \/ StopContext(t) \/ ContextClosed(t)
    \/ ContextCloseFails(t) \/ Stopped(t)
    \/ Answered(t) \/ CallFails(t) \/ WaitTimesOut(t)

(* From one page to the next, and to the tables, stop does not suspend. *)
StopRuns == \E t \in Tasks : At(t, "stopping")

Next ==
    \/ \E t \in Tasks : (StopRuns => At(t, "stopping")) /\ Progress(t)
    \/ /\ ~StopRuns
       /\ \/ \E t \in Tasks :
              \/ BringStop(t)
              \/ \E id \in Ids :
                     \/ BringOpen(t, id) \/ BringClose(t, id)
                     \/ \E op \in Calls : BringCall(t, id, op)
                     \/ \E op \in Notes : Note(t, id, op)
                     \/ \E f \in WaitFilters : BringWait(t, id, f)
          \/ \E id \in Ids, type \in Types : RequestFinished(id, type) \/ Finalized(id, type)

Spec == Init /\ [][Next]_vars

-----------------------------------------------------------------------------
(* Types, among them the buffers of records, which do not outgrow their      *)
(* bound; and whoever holds the page lock is between its acquisition and its *)
(* release, whatever failed: a lock that is kept blocks every tab for good.  *)
TypeOK ==
    /\ context \in {"none", "launching", "up", "closing", "broken"}
    /\ open \subseteq Chrome /\ reusable \in Seq(Chrome)
    /\ pages \in [Ids -> Chrome \cup {None}] /\ kept \subseteq Ids \X Tables
    /\ observers \in [Ids -> Observers([task : Tasks, filter : WaitFilters]) \cup {None}]
    /\ \A id \in Ids : observers[id] # None =>
           /\ Len(observers[id].recent) <= RecordLimit
           /\ Len(observers[id].captured) <= RecordLimit
    /\ known \subseteq Ids /\ doomed \subseteq known
    /\ createLock # None =>
           job[createLock].at \in {"newpage", "navigate", "title", "replace", "destroy"}

(* The comment at browser/service.py:87: closers that overlap never leave    *)
(* the context without a page, for without a window no tab can be opened     *)
(* any more.                                                                 *)
NeverWithoutPage == context = "up" => open # {}

(* A page of the browser has one owner: two ids never share it, and the      *)
(* startup pages that wait to be used are nobody's.                          *)
PagesOwnedOnce ==
    /\ \A i, j \in Registered : pages[i] = pages[j] => i = j
    /\ \A n \in 1..Len(reusable) :
           reusable[n] \notin {pages[i] : i \in Ids} \cup {reusable[m] : m \in 1..(n - 1)}

(* What new_tab has returned stays usable: the id is registered and its page *)
(* open until close_tab has returned, whatever failed; but for pages that    *)
(* Chrome destroyed for a close that then raised or is still at the video,   *)
(* and those that stop has destroyed or forgotten.  And the lock without     *)
(* which no tab is closed is never left behind (TypeOK).                     *)
KnownPagesOpen ==
    /\ TypeOK
    /\ \A id \in known \ (doomed \cup strays) : id \in Registered /\ Alive(pages[id])

(* Handlers, sessions, videos and observers are never kept for an id that is *)
(* gone.  Only what stop could not close may leave an entry behind, and      *)
(* get_console_messages, which does not require the page.                    *)
NothingKeptForTheGone ==
    /\ \A entry \in kept :
           entry[2] # "messages" /\ entry[1] \notin strays => entry[1] \in Registered
    /\ \A id \in Ids : observers[id] # None => id \in Registered

(* A task that waits for a network record waits at the observer of an open   *)
(* page, and no record that it could have had is in the buffer.              *)
NobodyMissesARecord ==
    \A t \in Tasks : At(t, "waiting") /\ job[t].id \notin strays =>
        /\ observers[job[t].id] # None
        /\ \E w \in observers[job[t].id].waiters :
               w.task = t /\ ~Found(observers[job[t].id], w.filter)
=============================================================================
