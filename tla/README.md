# TLA+ models of Browser CLI

Browser CLI drives a Chrome profile from the command line. A short-lived CLI
process talks to one background daemon (asyncio, one event loop) which owns the
browser, either through Playwright or through an extension over a websocket;
several agents (`X_AGENT_ID`) share the daemon. A separate automation service
(threads and SQLite) runs scheduled tasks which are themselves clients of the
daemon.

Paths below are relative to `src/browser_cli/` of the repository unless they
start with another top-level directory.

## 1. Inventory

| part | state | operations | hard behaviour | model |
| --- | --- | --- | --- | --- |
| execution gate (`daemon/execution.py`) | active count, exclusive waiters, mode, one `Condition` | `scope(mode)` | who may overlap whom, lost wake-ups, starvation, cancellation while queued | `ExecutionGate` |
| run registry (`daemon/run_registry.py`) | runs, tasks, counter | `start_read`, `status`, `logs`, `cancel`, the run task, its done callback, eviction | cancellation racing completion, a failure of the end handler after the result, cancel before the first turn, bounded memory | `RunRegistry` |
| tab registry (`tabs/registry.py`) | tabs (owner, busy, closing, snapshot), active tab per agent, claim tasks | add, switch, claim, release, begin/end close, remove, replace | a page that disappears while an action owns it, stale claims, fall-back of the active tab | `TabRegistry` |
| command handlers (`daemon/app.py`) | none of their own; the tasks between two awaits | every action, batch, close-tab | an action, a batch and a close-tab on one page; cancellation of the interrupted request; publication of a result after a close; defaults and refusals of each argument | `PageCommands`, `CommandPath` |
| driver facade (`daemon/browser_service.py`) | driver, command depth, pending rebind | begin/end command, activate driver, watch the extension, rebuild workspace, pass-through operations | depth accounting, a driver replaced under a running command, tabs replayed while they change | `DriverRebind`, `CommandPath` |
| drivers (`drivers/`) | none; the extension driver writes artifacts | page operations | one argument renamed by two drivers | `CommandPath` |
| extension session (`extension/session.py`, `protocol.py`) | pending futures, chunk and artifact buffers, current session | `send_request`, responses, chunks, artifacts, disconnect, replacement | late, repeated and partial answers, a timeout racing an answer, replacement of a live session | `ExtensionSession` |
| daemon life cycle (`daemon/client.py`, `server.py`, `transport.py`, `state.py`, `health.py`, `models.py`; `commands/reload.py`, `recovery.py`) | run info file, socket, port, process | ensure daemon, clean up, spawn, stop, reload, recover, serve | two launches at once, a daemon that hangs while it stops, one of an older version, stale files | `Launcher` |
| Playwright browser (`browser/service.py` and helpers) | pages, startup pages, console, dialogs, videos, sessions, observers, one context, a page lock | launch, new tab, close tab, stop, some sixty page operations | the last page closed twice at once, a page handed out twice, tables cleaned at different awaits, a call that outlives its page | `BrowserPages` |
| network records (`network.py`, `browser/network_capture.py`) | two bounded buffers, waiters, finalizers | start, stop, get, wait, finalize | a wait racing the record that satisfies it, limits | `NetworkRecords`, in `BrowserPages` |
| semantic refs (`refs/`) | snapshot registry | generate, store, resolve, relocate | a ref of an old snapshot resolved on a changed page | - |
| automation store (`automation/persistence/store.py`) | SQLite: automations, runs, events | upsert, enable, create/claim/finish run | read-modify-write between threads, claims, crash while running | `AutomationRuns` |
| automation runtime (`automation/service/runtime.py`, `hooks.py`) | scheduler and executor threads | enqueue due runs, execute with deadline, retry, hooks, stop | duplicate enqueues, retries after a timeout, crash and restart | `AutomationRuns` |
| schedule (`automation/scheduler/schedule.py`) | none (pure) | next occurrence | clock changes, boundaries of days and weeks | `Schedule`, `ScheduledStarts` |
| automation publication (`automation/publisher.py`, `loader.py`, `projections.py`) | versioned directories | publish, load | version numbers, a failed publish | - |
| task runtime (`task_runtime/`) | none (a client of the daemon) | flows, entrypoints | thin wrapper | - |
| command line (`cli/`, `commands/`, `actions/`) | none | parse, build the request, call the daemon, render; status, doctor | arguments that exclude each other, defaults | `CommandLine` |
| profiles, outputs, errors, constants | none | discovery, formatting | pure | - |
| extension (`browser-cli-extension/`) | workspace binding, debugger attachments, traces | JS handlers of the same protocol | its own event ordering; how each handler reads its payload | `CommandPath` and `ExtensionSession`, in part |

### How the parts interact

A CLI process opens one connection per command. `BrowserDaemonApp.execute`
takes a scope of the **gate** (shared for actions, batch for a batch, exclusive
for stop and workspace rebuild, cleanup for close and close-tab), then calls
`BrowserService.begin_command` (which may replace the driver), the handler, and
`end_command`. A handler on the active page claims it in the **tab registry**
under its request id, awaits the driver, and checks the claim again before it
publishes anything. `close-tab` may interrupt that handler: it reserves the page
even though it is busy, closes it through the driver, and cancels the task that
held the claim. Background reads live in the **run registry**, each one a task
that takes a shared scope. The extension session answers the driver's requests
and its disconnection makes the facade switch drivers.

A property of asyncio is used throughout: only an `await` that really suspends
lets another task run. The critical sections of the gate's condition and of the
tab registry's lock never suspend while they hold the lock, so these locks are
never contended, and each `async with self._lock` body is one atomic step.

A CLI process looks for the daemon before it sends: it reads the run info,
probes the socket, and cleans up and launches one when nobody of its version
answers. The daemon and every CLI process share two files and a port without any
lock. Behind the Playwright driver, `BrowserService` of `browser/service.py` keeps the
pages of one persistent context, and an observer per page turns Chrome's network
events into records that commands wait for.

## 2. Modules

| module | models | uses |
| --- | --- | --- |
| `ExecutionGate` | `BrowserExecutionCoordinator.scope` | - |
| `TabRegistry` | the methods of the tab registry, as operators on one record | `SequencesExt` |
| `PageCommands` | the handlers of `BrowserDaemonApp` | `TabRegistry` (EXTENDS), `ExecutionGate` (INSTANCE: its actions are the steps of a request at the gate), `PageLeases` (INSTANCE: what it implements) |
| `PageLeases` | abstract: what the tab registry promises the commands that share it | - |
| `RunRegistry` | `RunRegistry` and the task of each read | - |
| `DriverRebind` | the driver facade `BrowserService` | - |
| `ExtensionSession` | the hub, its sessions and what the extension does with requests | `SequencesExt` |
| `NetworkRecords` | the buffers, waiters and finalizers of one page, as operators on one record | `SequencesExt` |
| `BrowserPages` | the Playwright service: pages, what is kept beside them, and stop | `NetworkRecords` (EXTENDS) |
| `Launcher` | the daemon's process and the CLI processes that look for, launch, replace and stop it | - |
| `CommandLine` | the 71 action commands: arguments, argparse and request builders, as functions | - |
| `CommandPath` | the way of a line through handler, facade and either driver | `CommandLine` (EXTENDS) |
| `AutomationRuns` | store, scheduler, executor and HTTP handlers of the automation service | - |
| `Schedule` | `compute_next_run_at`, with Python's aware datetimes, and what a schedule says | - |
| `ScheduledStarts` | an automation's `next_run_at` as time passes | `Schedule` (EXTENDS) |
| `ExecutionGateProofs`, `RunRegistryProofs`, `PageCommandsProofs`, `DriverRebindProofs`, `ExtensionSessionProofs`, `BrowserPagesProofs`, `LauncherProofs`, `AutomationRunsProofs` | theorems | the module of the same name, TLAPS |
| `MC...` | the instances for TLC | |

Definitions keep the name of the method they translate where they can. A
definition whose name has a suffix (`MayEnter_CleanupUnchecked`,
`Claim_Unlocked`) is a *slip*: the same code with one plausible mistake, which
no specification uses. Each property is known to fail when the definition is
replaced by one of its slips; `PROJECT.json` lists the pairs.

### ExecutionGate

`active`, `waiters` and `mode` are the fields `_active`, `_exclusive_waiters` and
`_mode`; `pc[r]` is where a request is (`outside`, `sleeping` on the condition,
`notified`, `inside`) and `kind[r]` its mode. Taking the condition's lock,
looking at the predicate and either entering or going to sleep is one step
(`EnterAtOnce`, `EnterAndWait`, `WakeAndEnter`, `WakeAndSleep`), for none of it
suspends. `CancelQueued` is the cancellation of a task in `wait_for`, whose
`finally` clause lowers the count and notifies; `Leave` is the other `finally`.

### TabRegistry and PageCommands

The registry is the record `reg` (tabs with owner, busy and closing; the claims;
the active page of each agent; the order of use and of creation, which decide the
fall-back of the active page). A task holds a program: a gate mode and one or
more commands. A handler is cut at its awaits: `op` (the driver's operation under
a claim), `summary` (the page summary under the same claim, after `check_claim`),
`switching`, `opening`/`opened`, `reading`, `listing`, `closing`, `destroyed`,
`draining`, `stopping`, `rebuilding` (of the workspace), and `begin` (begin_command). What a handler does from one
await to the next is one action; `PageAppears` and `PageDestroyed` are the moments at
which the browser really acts, which the daemon learns of only with the answer.
A cancelled task meets the cancellation at its next await (`MeetsCancel`), or, for a task of
`Lossy`, a driver call swallows it: `asyncio.wait_for` before Python 3.12
returns a result that came at the same moment and drops the cancellation.

`PageLeases` says what the registry is for, without gate, awaits, batches or cancellations:
pages with an owner, at most one worker and at most one closer, and seven actions (open,
work, rest, reserve, keep, forget, forget all). Both hold a task where the code has a
request id, and a task has one page in hand at a time. The mapping is in `PageCommands`: owner,
`busy` and `closing` of each tab, the task of a request id being its first component. Two
things show only there: only the one who reserved a page forgets it, and the rebuild of the workspace
that forgets all of them finds nobody with a page in hand. A stop empties no registry: a request that was
queued behind it finds the tabs. It says nothing of claims whose page is
gone, which the registry does not see either until `release_tab`; `ClaimsExact` does.

### RunRegistry

`stage[r]` follows `_execute_read` and `_read_in_scope` from task creation (`created`)
over the gate, begin_command, the read and end_command to the done callback;
`status` is the partial function of records that have not been evicted. `asked`
holds the runs with a cancellation to meet, `raising` how a run that is in its
`finally` clause will end.

### DriverRebind

The event loop runs one actor from an await to the next: an actor whose `at` is
one of `Straight` holds the loop. Tasks bring commands (`open`, `close`, `page`,
`read`, `rebuild`), the watcher reacts to `_session_changed`. `_activate_driver` is the
sequence `queued` (for `_rebind_lock`), `locked`, `stopping`, `starting`, `replay`, `settling`;
any of its awaits may fail, which is `BreakOff`. `live[b]` is the set of pages that
backend `b` can act on. A `close` that fails or is cancelled may have destroyed the page all the same
(`CloseGoesUnnoticed`): its tab stays in the registry, and the history variable `lost` names it until a
rebind reopens it or it is closed again.

### ExtensionSession

Connections are numbered in the order of `Accept`; a session belongs to a
connection. Messages are records in an inbox that `Read` consumes one at a time.
The response is one frame or two chunks, artifacts have a begin and an end. Chrome's
side (`Take`, `Emit`, `Reply`, `Connect`) answers on the socket it received the
request on, and loses everything when it restarts (`Cut`).

### NetworkRecords and BrowserPages

`pages`, `reusable`, `observers` and `createLock` are `_pages`, `_reusable_startup_pages`,
`_network_observers` and `_page_create_lock`; `kept` stands for the other tables keyed by page
id (console captures and messages, dialog handlers, videos, pending videos, CDP
sessions) as a set of pairs. `open` is Chrome's own set of pages. A task brings one
call at a time: `new_tab` (`start`, `launch`, `lock`, `newpage`, `navigate`, `title`), `close_tab`
(`closelock`, `replace`, `destroy`, and `video`, when one was asked for), `stop`, an operation on a page (`call`: the sequence of its
awaits is the table `Service`, under the driver's names by `Renamed`), a wait for a
record. Any await may fail, and a call that fails leaves what the code leaves: a close that fails,
or is cancelled, may leave the page open or gone (`CloseFailsAt`), a close of the context that fails
leaves `_context` set (`broken`). `stop` forgets the pages that it could not close; the history
variable `strays` names them. `doomed` names the ids whose page Chrome has destroyed while the
close that asked for it has not returned, or has raised.
A network record is its resource type; a finalizer is a task that may end at any
later time, and only its end makes the record.

### Launcher

A client runs a program of phases: a command is `ensure` and `send`; `stop`; reload is stop,
wait, clean up with SIGKILL, ensure, status; a recovery is ensure and status (`Check`), and after it,
as the status of the daemon recommends, nothing, a rebuild of the workspace, stop, wait,
ensure, status, or both. The phases of
`ensure_daemon_running` are `ensure` (reads the run info), `probe`, `again`, `kill`, `dying`, `remove`,
`reprobe`, `spawn`, `await`, `giveup`, each one system call or wait that others can slip between. Who has sent a request waits in
`reply` or `stopreply` until the daemon answers or its process ends: the client reads without a time
limit (`client.py:92`). `asked` are the daemons that have a stop request to handle; the answer to it
comes after `HandleStop`, that is after the browser has stopped, if ever.
A daemon goes from `spawned` (no signal handler yet: SIGTERM kills it) over `cleared` (it has
removed whatever socket was there), `bound` (the port), `listening` (the socket) to
`serving` (the run info), and back over `closed` and `released` to `gone`. `path` and `info` name the daemon
that the socket and the run info belong to, dead or alive. `Old` is a daemon of an
earlier version. `overlapped` is a history variable: two launches, or a launch and a
start, have been under way at once, or one was interrupted.

### CommandLine and CommandPath

A line gives each option of its command a value *class*: `zero`, `padded`, `blank`, `bare` (an
address without scheme), `unknown` (a ref) and so on. `Specs` and `Arguments` are the table of
`cli_specs.py`; `Request` the builders. Each further layer is a table of rows: which argument it
fills, how it reads it (`required`, `or` a default, `flag`, `not`, ...) and under which name it
looks. The layers are the handlers of `app.py`, the methods of the facade, the payloads
of the extension driver with the reads of `background/*.js`, and the calls of the
Playwright driver. A line is typed option by option, built, handled, sent to either
driver and executed, or refused on the way, by Chrome too where it is known to refuse
(`ChromeRefuses`). `SaidIsDone` compares each option of an executed line with what reaches the
page, to the letter: a text that was trimmed is not the text that was said. `KnownLoss` lists what
is lost, with what is left of it, and 5 says where.

### AutomationRuns

`defs` and `runs` are the two tables. Each call of the store is one step where it is one
transaction and several where it is not: `enqueue_due_runs` is `ListDue`, then per
automation `CheckPending`, `CreateScheduled`, `InsertScheduled`, `ReadForNext`, `WriteNext`.

Runs are claimed in the order of `queued_at`, which `create_run` reads from the clock some time before
the INSERT: the scheduler, the executor that retries and the handlers of either service may look in one
order and insert in the other. `Stamp` is the look (with the check that the automation is valid, right
before it), by `CreateScheduled`, `Retry`, `RunNow` and `RetryRequest`, and `Insert` the row, by `InsertScheduled`,
`InsertRetry` and `InsertRequested`. `queue[r]` is the set of the runs with no later `queued_at` than
`r`, once that has come: an order (`InLine`, `Ahead`), not a sequence of insertions. `First` is the row that
`claim_next_run` selects: no inserted one is ahead of it, but one whose row is still to come may be. A retry
with a backoff gets its place when the delay is over (`BackoffOver`). No clock is set back.

The executor goes through the stages of `_execute_run`; `late` says that the deadline has passed.
`orphans` and `overlapped` are history variables: they record a run that lost its
executor, and that two services have been up at once, for the properties to name
their exceptions.

### Schedule and ScheduledStarts

Instants and wall-clock times are counted in ticks; a zone is an offset that changes
once. `Local` and `Utc` are `astimezone` both ways with `fold`, `SetTime` is `replace` (which keeps the
fold) and `PlusDays` the addition of a timedelta (which clears it). `Occurrences` is a
reference definition that sets no clock: the instants at which the wall shows a time that
the schedule names. `NextRunIsNext` says exactly when `NextRunAt` is the next of them:
`MCAutomationRuns` evaluates it for the zones of `Zones`, and `AutomationRunsProofs` proves it
for every zone. `ScheduledStarts` lets time pass and computes anew whenever a run is queued or
the automation is saved.

## 3. Runs

| run | instance | what it shows |
| --- | --- | --- |
| `gate` | 4 requests of any mode, coming back for ever | isolation, counters, no lost wake-up, priority, admission |
| `runs` | 3 reads, 1 terminal record kept | balanced commands, final statuses, bounded memory, cancellation ends |
| `commands` | batch, close-tab and two more tasks, 2 agents, 3 pages and one to be opened, one task with a driver that swallows cancellations | claims, active page, isolation of batches, the leases of `PageLeases`, whom close-tab cancels; closing a page frees what hangs on it, and only a call of the browser that never ends keeps a request queued |
| `rebind` | 2 tasks, 1 page, cancellation anywhere | depth, replay, reachable pages |
| `rebind_live` | 1 task with every kind of command, 2 pages | every rebind ends or hangs in a call to a backend; a command keeps a backend |
| `session` | 2 requests, 2 connections, 1 artifact | late messages, replacement of a session, lost sessions |
| `pages` | 3 tasks, 2 page ids, 3 pages of Chrome, buffers of 1 record | one owner per page, never without a window, known pages stay, nothing kept for a page that is gone, no record missed, the lock given back |
| `launcher` | 2 CLI processes, an old daemon and 2 new ones, 1 fault | one daemon per lone launch, no command to another version, every command ends unless a living daemon never answers it |
| `lines` | 71 commands, every command line that there is, both drivers | what is said is done but for the losses named, or refused |
| `automation` | 2 services, 1 automation, 2 records, 1 retry, 2 interferences | claims, pending runs, orphans, retries |
| `automation_live` | 1 service, 3 records, 1 interference | queued runs are taken, schedules go on |
| `weekly_start` | every daily and weekly schedule and every clock change | a violation, see 5 |

### Bounds and why they are enough

- *Four requests at the gate*: one inside, one queued exclusive, one cleanup and
  one newcomer are all the roles the predicates tell apart, and requests come
  back, so the sequences are not bounded. The theorems lift the bound.
- *Two agents, four tasks, four pages* (`PageCommands`): the registry compares a page's
  owner with the asking agent and a claim with one request; a second agent and a third
  and fourth task are needed for an action against a batch against a close-tab against
  an open. A task brings one request, and a batch has two steps: the second is there to
  be started by mistake after the first was interrupted. The theorems lift the bound
  for all but the two liveness properties.
- *One terminal record of three runs*: eviction needs two terminal runs beside one
  that is active. The code keeps 100.
- *One page and two tasks with cancellation, two pages and one task without*
  (`DriverRebind`): the first is for interleavings, the second for replays that stop
  half way. Together they would not fit; the lock makes the rebinds themselves
  sequential. The theorems lift both bounds, for all but `RebindEnds`.
- *Two connections, two requests, one artifact* (`ExtensionSession`): one request before
  and one after a replacement, one chunked response. A third connection adds
  nothing to a hub that remembers only the latest, and the theorems hold for any
  number.
- *Three tasks, two ids, three pages of Chrome* (`BrowserPages`): two closers (or a closer
  and an opener, or stop) and one task that uses a page; two tabs, and the replacement
  that is opened before the last one goes. Ids and Chrome's pages are taken again when
  nothing refers to them, so the run is not bounded in length. `Calls` and `Notes` have
  one operation each that leaves something in a table at an await of its own: the
  others are the same two actions with another row of the table. `RecordLimit` 1 makes the
  buffer overflow at the second record; the code keeps 200. One page at a time has records, somebody who
  waits for them or a video (the constraint `OneRecorded`): observers of two pages never meet. The
  theorems lift all of these bounds, and hold for every table of operations.
- *Two clients, one old daemon and two new ones, one fault* (`Launcher`): one process that
  stops, reloads or checks (a recovery in its four forms is made of these, and the theorems
  are about them all) beside one with plain commands, each as often as it
  likes. `MaxFaults` counts crashes and interruptions; a start may take more than fifteen
  seconds any number of times. A daemon that nothing refers to any more is taken again; when none is left a
  launch fails. The theorems lift all of it.
- *`MaxOdd` = 8*: no command has more options, so TLC sees every line that can be said of
  the 71 commands (`EveryLine`). `SaidIsDone` and `ContradictionsRefused` are decided by that,
  not sampled; the values of an option are classes.
- *Days of six ticks* (`Schedule`): the repeated part of a day is two ticks, so that a
  time may come before, in and after it, and an instant too. The clock changes once, at
  any tick of a day, and `Horizon` covers the weeks around it.
- *`MaxRuns`*: a new run takes the first record that nothing refers to, as old
  records have no influence on new ones. When all are in use no run is made; the
  invariants are proved for any number.
- *`MaxEvents`*: a budget for requests, edits, deaths and failed calls. Services may
  start again without limit.

Deadlock is checked where the system never stops (`gate`, the rebinds, `pages` and `lines`). In
`runs`, `commands`, `session`, `launcher`, `automation` and `weekly_start` it may: every read is
over, every task has brought its request, every connection was used, a daemon hangs with
nobody left to run, no service is up, or the horizon is reached.

### Fairness

- The gate: a task that was notified runs, and the body of a scope ends. The loop
  is first in, first out and bodies end by answer, error or timeout. Nobody has to
  arrive.
- `RunRegistry`: the steps that only need the loop and `end_command`; `begin_command` and
  the read may hang.
- `PageCommands`: the steps that need the loop only: a notified task looks at its predicate, a cancelled
  one runs its `finally` clauses, a close-tab waits a tenth of a second for the task it interrupted. Nothing is
  assumed of a call of the driver, begin_command included: Playwright's `title`, `bring_to_front`, `close` and
  `stop` have no time limit. `QueuedForEverOnlyBehindAHang` says what is left: a request that stays in the queue
  is behind somebody who waits for ever for one such call.
- `DriverRebind`: strong fairness for each actor, because an actor is enabled only
  while nobody holds the loop, again and again; the loop's queue serves it in its
  turn. It is for the steps that need the loop only, and for what the extension is asked with a
  time limit. Nothing is assumed of the calls that carry a page, stop or start a backend: Playwright's `close`,
  `stop` and `title` have no limit. `RebindEnds` says what is left: a rebind, or a wait for its lock, that does
  not end is behind somebody who hangs for ever in one such call with the lock in hand.
- `Launcher`: the processes of the CLI run (weak fairness for each: `await` and the grace of a kill are
  left by an answer or by a deadline, one or the other at any moment). Nothing is assumed of a daemon:
  its start may take for ever, its connections or its browser may keep it when it stops, and it may never
  answer. `CommandsEnd` says what is left: a command that does not end waits for the
  answer of a daemon that lives on.
- `AutomationRuns`: the two threads of a service, a handler that has begun to make a run, and time. Stages end by
  themselves or not; a hanging stage is cut off at its deadline.

`ExtensionSession` assumes none: `NobodyWaitsInVain` says, as an invariant, that
what a waiting request needs has happened. `BrowserPages` has none either: any of its awaits
may hang in Chrome.

## 4. Theorems

All hold for every value of the constants that satisfies the module's `ASSUME`.

`ExecutionGateProofs`, from `GateAssumption` (finitely many requests): `IInv` joins
`TypeOK`, `CountsAgree`, `ExclusiveIsolation` and `NoLostWakeup`. The type is not inductive
alone, since `active - 1` is a natural only if the task that leaves was counted;
isolation needs "active = 0 means that nobody is inside", and the absence of lost
wake-ups needs that `mode` is set only while somebody is inside. The four parts
follow as theorems, and `ExclusivePriority` (the action property
`NoSharedPastQueuedExclusive`) from `CountsAgree`: the predicate of a shared action reads the counter,
the property speaks of the tasks. `NotAllAsleep` (`SomebodyMoves`) adds that the queue never
waits for nobody: with nobody inside and nobody woken the counters would be zero, some
predicate would hold, and its task would be asleep with a lost wake-up.

`RunRegistryProofs`: `IInv` joins the types, `DepthIsReaders` (the open commands are those of the
runs in `read`) and `RecordFollowsTask`, which says for each stage of a task what its record may
say and whether a cancellation is still to be met. Without the last `TerminalIsFinal` does
not follow: that a cancel never touches a finished run's record hangs on the stage of a
task which the registry does not look at. `MemoryStaysBounded` needs the arithmetic of the
eviction (`EvictBounds`): the least evictable record that is kept would have as many
removed ones below it as there were records too many, so none is kept beyond the limit.

`Moved` and `OthersKept` say once what a step of a task does to its own run and to the others. Three
further theorems rest on them. `ResultsAreKept`: what is called succeeded has its result. It is
inductive only with `CancelPending`, that a cancelled run which has not met its request is still
asked. `CancelsAreKept`: a cancel is never taken back, a run that waits
begins no command after it, and it succeeds only where asyncio has swallowed the request
(`LossyCancel`). `ReadsWindDown`: every step of a task shortens `TaskLeft`, and another's step or a
second cancel does not set it back.

`PageCommandsProofs`, from `CommandAssumption` (finitely many tasks; no page is opened twice
at the start; a request that is not a batch has one command and the mode `execute` gives it, and
no batch contains a stop or a rebuild), has five inductive invariants, each on top of the earlier ones.
- `AtTheGate`: a task that works is inside the gate, in the mode of its program.
  `CommandsUseTheGate` is a refinement: every step of the handlers, whatever their commands do
  to the registry, is a step of `ExecutionGate` or leaves it alone, so its theorems hold of
  the composition. With the gate's isolation it gives `BatchesUndisturbed`.
- `ClaimInv`: a claim's key is the page and the request that made it, tabs that are busy or being
  closed point at commands under way, a page that was opened and is not registered yet is nobody
  else's, and a claim is of a page of its task's agent. `CancelsOwn` follows from the part that ties
  the target of a close-tab to the claim it read.
- `ReservedThere`: a page that a close-tab has reserved stays in the registry, reserved by it,
  until it is done. Nobody else takes it out (`KeepsReserved`, one lemma per method), and the rebuild of the
  workspace, which empties the registry, is alone at the gate (`RebuildsAlone`). So `remove_tab` never
  raises after the browser has destroyed the page. With `ClaimInv` it gives `ClaimsAreExact`.
- `TabsInv`: the registry is sound (`Sound`): both orders list each tab once and nothing else, an
  agent's active page is its own, and it has one if it owns any. Each method keeps it so if it
  is called with a page that is there, or that the caller owns (`AddSound` to `ClearSound`),
  and what the handlers know under their claims and reservations says that it is. It gives
  `ActivePagesOwned` and `TypeCorrect`. The fall-back of the active page is the newest entry of the
  order of use that is the owner's: that it is there is `NewestExists`, a fact about
  finite sets of numbers.
- `InterruptInv`: a close-tab knows the request and the task at work on its page (`TargetKnown`: no
  claim is granted after the reservation, so what `begin_close` read stays true until the page is
  gone), and whoever works on a page that is not in the registry has been asked to stop
  (`Interrupted`). It gives `ClosureInterrupts` and the action property `ClosureEndsCommands`
  (`NothingAfterClosure`): the next step of such a command ends its request. Both are about tasks whose
  driver calls let a cancellation through (`Lossy` are the others), and are the safety half
  of `NobodyHangsOnAClosedPage`; that the step is taken is fairness.

`LeasesAreKept` is the refinement of `PageLeases`: one lemma for what each method does to the tabs
says which abstract action it is, the invariants supply the guards, and a method that finds
nothing to do (`release_tab` of a page that is gone, `end_close` after the removal) is a stutter.
`QueuedBehindSomebody` (`QueueMoves`) carries `NotAllAsleep` over to the commands: while a request is
at the gate some command runs or some request is about to look at its predicate.

`DriverRebindProofs`, from `RebindAssumption`. None of the properties is inductive; they rest on
the lock. `LockInv`: whoever is at `_rebind_lock` is in the queue, whoever is past it is the
head, and the backend in place is the target of the one that replays; so one actor at a time has
a snapshot (`AloneInside`). `SnapInv`: what is registered and was not opened beside
the snapshot is in it, and what the snapshot has and is still registered is reopened, still
to be, or destroyed since by a close that failed. `OpeningInv` (a page that is being opened is in no snapshot and nobody
else's) keeps it true when a late answer registers a page. When the last page is reopened,
`RestInv` follows: with nothing under way and nothing broken off the registered pages, but for the strays
and the lost, are on the backend in place, and without a backend no command is in its body. `DepthInv`
counts the commands that have begun, among them a read that waits for the fall-back. A
cancellation may take any actor out of the middle of the queue; `WithoutStep` shows that
the head stays the head. `LockIsNeverLost` is exact about that queue (`QueueIsExact`): it
has those who wait for the lock or hold it, each once, so no exception and no cancellation leaves
it taken. On top, `RebindsWindDown` says that whoever is at the lock gets nearer to its end by
each of its own steps, and that others neither overtake it nor set it back.

`ExtensionSessionProofs`: `IInv` joins the types, `Placed` (where a request may be, given its socket), `SessionIsUp`
(the installed session has not been left), `LostIsClosed` and `LostIsWoken` (what a session that
failed has done to its requests) and `TablesMatch` (who may have entries in the tables). Each
of the three invariants is short by comparison: that no table mentions a request that is over
is inductive only with the knowledge of which session a waiting request is on, and that
this session has not failed without waking it. `ArtifactsArrive` needs a second invariant on top,
`Delivery`: the extension works on a request once and on the socket it came on (`WorkFollows`),
what it has said of a request is what it has done (`WordsMatchWork`), and while an answer is
still to come each artifact of the request is in the session's tables or ahead of the answer in the
inbox (`ComingFirst`). A message of another request that is read in between, an answer in chunks and
the end of another connection must each leave this true; the loss of the session is the one exception.

`BrowserPagesProofs`, from `PagesAssumption` and `LimitAssumption`. The six properties hang together: whose a page
is decides which page a close destroys, which decides what may stay in the tables, which
decides who is woken. `IInv` joins them with `StageInv` (one holder of the page lock, one stop, who is at
which await), `ContextInv` (who launches the context and who closes it), `WaiterInv` (a waiter of an observer is a
task that waits there) and `LocalInv`, which says for each stage of a call what it knows of the tables while
it is suspended: the id of a tab that is being opened is nobody else's and nothing is kept for
it; a page that is being closed is no other id's and not among the startup pages; and when Chrome is
asked to close it, its handlers are gone and it is not the last one. A step of one actor must leave
what every other knows alone; the lemmas about `Frame` say once what that takes. `PageGoneStep` is the
end of a page in all its forms: the call returns, goes on to the video or raises.

`LauncherProofs`, from `DaemonAssumption` and `ProgramsAssumption`. `NoOtherVersion` rests on `OldIsUntouched`: as long as the
socket is the old daemon's, nobody has removed anything, no other daemon runs and no
client has seen another one. It needs `LooksFirst` (a client sends only after it has looked).
`OneDaemon` rests on `Lone`: while launches have not overlapped, at most one daemon is alive, it is
named by both files once it serves, and it is not starting, or not there at all, while a client
is about to remove files or to launch another. It needs `PortIsHeld`, for a daemon that finds the port taken
goes on to remove files that are not its own: with one daemon alive that cannot happen.
`CommandsWindDown` measures what is left of a client's program (`WorkLeft`): every step of its own
shortens it, though clean-up, probe and launch call each other, and no other's lengthens it.
`CommandsAreShort` bounds it by 134 steps: a recovery with a restart and a rebuild. Both are the
safety half of `CommandsEnd`; the wait for an answer is one step that nobody promises.

`AutomationRunsProofs`, from `AutomationAssumption`: `IInv` adds to the checked
invariants
- `RecordsInUse`: a record in use belongs to an automation, and an attempt number is at
  most `Retries` plus the interferences so far;
- `ExecutorsHold`: an executor that is not idle holds a run that was claimed, and one that
  is about to retry holds a failed run with attempts left. It is what makes a claim
  exclusive (the row selected is `queued`, what an executor holds is not) and
  what bounds retries;
- `SchedulersKnow`: schedulers of a service that is down are idle, and between
  `CheckPending` and `CreateScheduled` there is still no pending scheduled run, because no
  second scheduler is up and nobody else makes scheduled runs. Without it
  `ScheduledOncePending` is not inductive: the check and the insertion are two transactions.

The line's part of the type (`QueueType`: a total order, of runs that are queued or about to
be) is kept by whoever joins it and whoever leaves (`JoinsFacts`, `LeaveFacts`). One lemma per action
shows that `IInv` is preserved; a new run (`StampFacts`, `InsertFacts`), a status
(`SetStatusFacts`), an outcome (`OutcomePreserves`) and a released executor
(`ReleasePreserves`) are shared by several. `RetriesAreBounded` shows that only
`Retry` changes both tables of its premise.

`PlacesTell` adds what the place of a thread says: the run of an executor in a stage is running,
that of one which records a failure is running or (if `complete_run` raised after its
update) already a success, and the automation that a scheduler handles is on its list. With it:
- `OutcomesStand`: the life of a record. A claim takes the oldest that is due to `running`, only
  its executor gives it an outcome, and an outcome is replaced in one case, the one just
  named. A record is used anew only if no executor will look at it again;
- `NobodyIsOvertaken`: a run that waits is overtaken by none whose creator looked at the clock after its
  own, though that one's row be there first: the set of runs ahead of it only shrinks, with every
  claim of one of them, and no claim is of a run behind it. A row inserted later may still stand
  ahead, if its `queued_at` is older: such runs are in that set from the start;
- `RunsWindDown`: each step of an executor or of a scheduler shortens what it has to do, and
  nobody else touches it, but for the death of its service. `RunsAreShort` gives the
  numbers: twelve steps for a run, five per automation for a turn of the scheduler.

The same module proves the arithmetic of `Schedule`, from `ScheduleAssumption` alone, for days of any
length and every zone that sets its clock once, by a day at most (`IsZone`). What `NextDaily` and
`NextWeekly` reach on the wall is the first time after the present one that the schedule names
(`DailyFollows`, `WeeklyFollows`), and two such times are at least a day apart (`Congruent`). `WhereNext`
follows that time back to an instant, by where now and the result lie to the change
of the clock. Then `NothingBetween` shows that only second showings and times never shown are passed
over, and `FirstPass` that the result is past in the remaining case: `NextRunIsRight` is exact
about the finding in 5. `NextRunIsAhead` says that where clocks are only put forward the
scheduler never finds due what it has just queued.

The four theorems named "WindDown" and `NobodyIsOvertaken` are safety halves of liveness
properties: of `CancelTerminates` (`ReadsWindDown`), `RebindEnds` (`RebindsWindDown`: what is left is that the calls under the lock return), `CommandsEnd`
(`CommandsWindDown`), `QueuedIsTaken` and `ScheduleGoesOn` (`RunsWindDown`), as `SomebodyMoves` and
`QueueMoves` are for the gate. No thread can go round in circles or be put back for ever;
what is left to TLC is that the steps are taken, which is fairness.

Only model-checked:
- all liveness: the prover has no reasoning about fairness and `ENABLED`;
- `SaidIsDone` and `ContradictionsRefused` of `CommandPath`: they are about 71 fixed rows of
  `CommandLine`, merged with `@@`, and have no constant to generalise. TLC evaluates them for every
  line there is; a proof would be the same enumeration, row by row.

## 5. Findings and other deviations

One statement of the repository that the code does not keep has a run that TLC ends
with a counterexample:

- `weekly_start`: "every Monday at 09:00" starts an automation at other times. In the hour that the wall
  clock shows for the second time, a weekly schedule that names a later time of that
  hour is computed with the offset of the first pass; the next run lies in the past,
  and the automation is started back to back until the wall has passed that time
  (`automation/scheduler/schedule.py:99`).

Met while modelling, and excluded from the properties by a named condition or
recorded as hazards.

Daemon:
- close-tab cancels the task that held the page when the close began; a batch that
  continues on error may be at its next step, on another page, by then.
- `stop` leaves the tabs in the registry, so a request that was queued behind it may start a driver
  again and go on with them while the daemon shuts down.
- The preflight repairs a lost binding, and empties the tab registry, while another
  command runs; the popup's rebuild does not pass through the gate at all.
- `README.md:370` says that drivers are changed only at safe idle points; the
  decision is taken at depth 0 but executed some awaits later, beside commands
  that have begun in the meantime. In `DriverRebind` the property
  `[][driver' # driver => depth = 0]_vars` is violated.
- `README.md:369` prefers a connected extension. After a read fell back to
  Playwright nothing asks for the extension again until it reconnects; the watcher
  consumes a change once. A rebind that is pending is not dropped when the extension
  disconnects, and the active tabs are restored one await at a time.
- An answer that arrives in the same turn as the loss of the session is a success
  without its artifacts. A session that is replaced leaves its old requests to their
  timers of 30 s.
- Two launches at once lose the daemon: the second removes the first's socket, finds the
  port taken and removes the run info, and the first serves on where nobody finds it.
- Two tabs opened at once without a window pick the same active tab of the
  extension (`browser-cli-extension/src/background.js`, `openTab`).

Playwright service:
- A `goto` that fails in `new_tab` leaves the page open and registered under an id that nobody
  learns; a failed read of a page leaves its tab (`docs/browser-cli-project-guide-zh.md:35` promises otherwise).
- `stop` forgets pages that it could not close; a page whose closing fails has lost its
  handlers and its observer and stays; a cancelled `start_tracing` leaves the flag wrong.
- `close_tab` may raise when the page is gone already: a `page.close` that is cancelled or answers late
  leaves it in `_pages`; when the video cannot be saved (`browser/service.py:1564`) the service has forgotten
  the page, the tab registry has not. `KnownPagesOpen` excepts both by name (`doomed`).
- A `_context.close()` that fails leaves `_context` set and Playwright running: `ensure_started` takes the
  service for started, and every `new_tab` fails until the next `stop`.
- `get_console_messages` writes into its table for a page that is not registered.

Arguments (`KnownLoss`, and what the tables do not distinguish):
- The handlers trim: `type "  x"` types `x`, and so it is with what `fill`, `select`, a `verify-...`, a cookie or a filter is
  given; an option of spaces only is read as not given
  (`daemon/app.py:1128`, `_require_str` and `_optional_str`). Only the text of `wait`
  arrives as it was typed.
- `cookie-set --same-site Lax|Strict|None` fails through the extension: the value is handed on as it is and
  `chrome.cookies.set` knows `lax`, `strict` and `no_restriction`
  (`browser-cli-extension/src/background/observe_actions.js:41`). In the model Chrome refuses the
  line (`ChromeRefuses`); with Playwright it is executed.
- A zero is taken for nothing: `scroll --dy 0` scrolls by 700, `--timeout 0` and `wait 0` wait for the
  default, `mouse-click --count 0` clicks once. `snapshot -F` has no effect.
- The extension ignores `console --type` (the driver sends `message_type`, the handler reads `messageType`;
  `actions/cli_specs.py` calls it "Optional message type filter."), drops a cookie's expiry at zero and
  does not complete an address without scheme. Playwright ignores the size of a video.
- The drivers also differ in what they do with the same arguments: `dialog` handles the current
  dialog or arms the next, `mouse-down` of the extension is at (1, 1), a `verify-text` that times out
  raises or does not pass, `cookies-clear` of the extension sees the current address only, and
  `storage-save` has two formats.

Automation:
- A run whose service dies stays `running`, and no scheduled run of its automation is
  made again. `RunningIsExecuted` and `ScheduleGoesOn` name this as an exception.
- A hook that meets the deadline raises `subprocess.TimeoutExpired` and is retried,
  unlike any other timeout.
- `complete_run` that fails after its update turns a recorded success into a failure.
- `_update_next_run` may overwrite what an enable or an edit has written since it
  read the row, and then the automation has no next occurrence.
- Two clients may start two services.

## 6. Abstractions and what is not modelled

- `end_command` is one step in `PageCommands` (it suspends only to change drivers), and
  begin_command one await; `DriverRebind` has both in full and no registry of claims.
- A task that has replied and is closing its connection is over.
- Ties between a timer and an answer are not resolved by time: either order happens.
- `DriverRebind`: an extension without the required capabilities counts as absent; `stop()`,
  isolated contexts, snapshots and the active page of each agent are left out; the
  order in which pages are reopened is any.
- `ExtensionSession`: malformed messages, the HTTP endpoints and the heartbeat are left
  out.
- `BrowserPages`: Chrome's side of an await and the code up to the next are one step; waiters
  for the lock may run in any order; only the daemon closes pages; `new_page` needs an open
  window, and one that fails has made no page; a context whose close has failed has no page that can be reached; a
  `stop` is not cancelled. The tracing flag and the Playwright handle are left out. Isolated
  contexts, the service's own `read_page`, `capture_snapshot` and `*_ref` methods (no driver calls them) and what
  captures contain are not modelled. Closing an observer is one step.
- `NetworkRecords`: one criterion of a filter stands for all; a record is its type. Whether a body is
  kept, and how much of it, is data.
- `Launcher`: two unlinks in a row are one step, and so is the stop handler up to its answer; the
  process table never reuses a pid. The launcher of the automation service
  (`automation/service/client.py:58`) has no lock either and is not modelled.
- `CommandPath`: values by class; the fields of fill-form and the items of a batch are one value, since
  items pass through the same handlers without argparse; what an operation does to a
  page, and console, dialog and mouse state across navigations, are not modelled.
- `Schedule`: seconds are 0 in the code and left out; an interval is `now` plus its length; second
  passes and times that are never shown may be skipped; what `normalize_schedule` refuses
  is left out.
- `AutomationRuns`: events, logs, listings, `last_run_at`; PUT, create, enable and
  disable are one `Upsert`; a graceful stop is a death, for it waits two seconds only.
  `create_run` checks the definition and looks at the clock in one step; the clock of the machine is one, and
  is not set back.
  The moments of a schedule are open (`BecomesDue`); that the next one is right is `NextRunIsNext`,
  which TLC evaluates with both runs and `NextRunIsRight` proves.

Not modelled: the semantic refs (the registry that handlers clear on navigation, close and
rebind; building locators from accessibility trees is text processing), the extension's workspace
binding and page scripts, publication, the task runtime, the commands `read`, `run-*`, `task` and
`automation`, rendering, status and doctor (pure classification), profiles, the Node client and
the scripts. `PROJECT.json` has each with its reason.

## 7. Plan

Done: the gate, the run registry, the tab registry with the handlers, the driver facade,
the extension session, the Playwright pages with their network records, the daemon's life
cycle, the command line with both drivers, the automation service and its schedules; theorems about
eight of them. What would come next, in this order:

1. `WorkspaceBinding`: the extension's serialised writes, restarts of the service
   worker and restores; abstract specification: memory after a restore is a subset
   of what was managed and still lives. What it must be able to get wrong: a queued write that
   brings back a removed tab (`browser-cli-extension/src/background/workspace_binding.js`).
2. `Snapshots`: refs and their registry against navigation, close and driver change. A
   late snapshot can store the registry entry of a page that close-tab has removed, and
   refs survive a navigation by click: only navigate, reload, back, forward, close, rebind and stop clear them.
3. `Publisher`: two publishers of one automation, and a publication that fails half way.
4. The status classification and the runtime presentation against the states of `DriverRebind`;
   `scroll_until_stable`.
5. Isolated batch contexts and `stop()` in `DriverRebind`; the automation service's launcher as an
   instance of `Launcher`.
6. Proofs: `NetworkRecords` as an abstract buffer, and the leases of `PageLeases` kept across a
   change of drivers.
