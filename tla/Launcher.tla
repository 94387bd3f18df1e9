------------------------------- MODULE Launcher -------------------------------
(* The life of the browser daemon: the commands of the CLI that look for it, *)
(* replace it, launch it and stop it (daemon/client.py, commands/reload.py,  *)
(* commands/recovery.py), and the process that is launched                   *)
(* (daemon/server.py).  They share three things and no lock: the path of the *)
(* Unix socket, the run info file and the port of the extension's listener.  *)
EXTENDS Integers, FiniteSets, Sequences

CONSTANTS Clients,    \* CLI processes
          Daemons,    \* daemon processes, taken again when nothing refers to them
          ProgramsOf, \* the commands that each client may be
          Old,        \* the one that an older version has left running, if any
          MaxFaults,  \* bound: crashes and interruptions
          None

ASSUME DaemonAssumption == Old \in Daemons \cup {None} /\ None \notin Daemons /\ MaxFaults \in Nat

VARIABLES
    at,         \* how far each daemon is
    shutdown,   \* the daemons whose shutdown_event is set
    asked,      \* the daemons that have a stop request to handle
    path,       \* the daemon that bound the socket at the path, dead or alive
    info,       \* the daemon that the run info file names
    port,       \* the daemon that listens for the extension
    pc,         \* what each client does
    job,        \* what it knows: [seen, victim, own, then, fast, todo]; own is
                \* the daemon that it has launched or asked
    faults,
    overlapped  \* history: launches have overlapped, or one was interrupted
                \* (a launch lasts until the daemon has written its run info)

vars == <<at, shutdown, asked, path, info, port, pc, job, faults, overlapped>>
daemonVars == <<at, shutdown, asked, path, info, port>>

-----------------------------------------------------------------------------
Starting == {"spawned", "cleared", "bound", "listening"}
Ending == {"closed", "released"}
Alive(d) == at[d] \in Starting \cup {"serving"} \cup Ending
Accepting(d) == at[d] \in {"listening", "serving"}

(* probe_socket: somebody accepts the connection at the path. *)
Reachable == path # None /\ Accepting(path)

(* What a CLI command does, phase by phase.  What a recovery does is for the *)
(* status of the daemon to say: nothing, a rebuild of the workspace, a       *)
(* restart, or both.                                                         *)
Command == <<"ensure", "send">>
Stop    == <<"stop">>
Reload  == <<"stop", "waitstop", "clean", "ensure", "status">>
Check   == <<"ensure", "status">>
Rebuild == <<"ensure", "status", "ensure", "send", "status">>
Recover == <<"ensure", "status", "stop", "waitstop", "ensure", "status">>
RecoverAndRebuild ==
    <<"ensure", "status", "stop", "waitstop", "ensure", "status", "ensure", "send", "status">>

ASSUME ProgramsAssumption ==
    \A c \in Clients :
        ProgramsOf[c] \subseteq {Command, Stop, Reload, Check, Rebuild, Recover, RecoverAndRebuild}

Launching(c) ==
    pc[c] \in {"waitstop", "kill", "dying", "remove", "reprobe", "spawn", "await", "giveup"}
Blank == [seen |-> None, victim |-> None, own |-> None, then |-> "idle", fast |-> FALSE,
          todo |-> << >>]

Init ==
    /\ at = [d \in Daemons |-> IF d = Old THEN "serving" ELSE "gone"]
    /\ shutdown = {} /\ asked = {}
    /\ path = Old /\ info = Old /\ port = Old
    /\ pc = [c \in Clients |-> "idle"] /\ job = [c \in Clients |-> Blank]
    /\ faults = 0 /\ overlapped = FALSE

-----------------------------------------------------------------------------
(* Clients.                                                                  *)
Goto(c, place) == pc' = [pc EXCEPT ![c] = place]
Overlap(c) ==
    overlapped' = (\/ overlapped
                   \/ \E b \in Clients \ {c} : Launching(b)
                   \/ \E d \in Daemons : at[d] \in Starting)

(* The next phase; "clean" is cleanup_runtime(fast_kill=True). *)
Proceed(c) ==
    LET todo == job[c].todo IN
    IF todo = << >>
    THEN Goto(c, "idle") /\ job' = [job EXCEPT ![c] = Blank]
    ELSE /\ Goto(c, IF Head(todo) = "clean" THEN "kill" ELSE Head(todo))
         /\ job' = [job EXCEPT ![c] = [Blank EXCEPT !.todo = Tail(todo),
                         !.fast = Head(todo) = "clean",
                         !.then = IF Head(todo) = "clean" THEN "proceed" ELSE "idle"]]

Fail(c) == Goto(c, "idle") /\ job' = [job EXCEPT ![c] = Blank]

Begin(c, program) ==
    /\ pc[c] = "idle"
    /\ Goto(c, Head(program)) /\ job' = [job EXCEPT ![c].todo = Tail(program)]
    /\ UNCHANGED <<daemonVars, faults, overlapped>>

(* ensure_daemon_running: the run info is read, then the socket is probed;   *)
(* up to three more probes have a clean-up between them.                     *)
ReadInfo(c) ==
    /\ pc[c] = "ensure"
    /\ Goto(c, "probe") /\ job' = [job EXCEPT ![c].seen = info]
    /\ UNCHANGED <<daemonVars, faults, overlapped>>

Compatible(d) == d \notin {None, Old}

(* Slip: who answers is taken without a look at the version. *)
Probe_AnyVersion(c) ==
    /\ pc[c] = "probe"
    /\ IF Reachable THEN Proceed(c) ELSE Goto(c, "again") /\ UNCHANGED job
    /\ UNCHANGED <<daemonVars, faults, overlapped>>

Probe(c) ==
    /\ pc[c] = "probe"
    /\ IF Reachable /\ Compatible(job[c].seen)
       THEN Proceed(c)
       ELSE Goto(c, "again") /\ job' = [job EXCEPT ![c].seen = None]
    /\ UNCHANGED <<daemonVars, faults, overlapped>>

ProbeAgain(c) ==
    /\ pc[c] = "again" /\ Goto(c, "kill")
    /\ job' = [job EXCEPT ![c].then = IF Reachable THEN "retry" ELSE "last"]
    /\ UNCHANGED <<daemonVars, faults, overlapped>>

(* _cleanup_stale_runtime: the process that the run info names is terminated *)
(* if it exists, with SIGKILL at once or after a grace period.               *)
Die(d) ==
    /\ at' = [at EXCEPT ![d] = "gone"] /\ shutdown' = shutdown \ {d} /\ asked' = asked \ {d}
    /\ port' = IF port = d THEN None ELSE port

(* SIGTERM sets shutdown_event once serve() has installed its handlers. *)
Terminate(d) ==
    IF at[d] = "spawned" THEN Die(d)
    ELSE shutdown' = shutdown \cup {d} /\ UNCHANGED <<at, asked, port>>

(* Slip: the files are cleaned up and the process is left. *)
Kill_InfoOnly(c) ==
    /\ pc[c] = "kill" /\ Overlap(c) /\ Goto(c, "remove")
    /\ UNCHANGED <<daemonVars, job, faults>>

Kill(c) ==
    /\ pc[c] = "kill" /\ Overlap(c)
    /\ IF info = None \/ ~Alive(info)
       THEN Goto(c, "remove") /\ UNCHANGED <<at, shutdown, asked, port, job>>
       ELSE IF job[c].fast /\ ~Reachable
            THEN Goto(c, "remove") /\ Die(info) /\ UNCHANGED job
            ELSE Goto(c, "dying") /\ Terminate(info) /\ job' = [job EXCEPT ![c].victim = info]
    /\ UNCHANGED <<path, info, faults>>

Dead(c) ==
    /\ pc[c] = "dying" /\ ~Alive(job[c].victim)
    /\ Goto(c, "remove") /\ job' = [job EXCEPT ![c].victim = None]
    /\ UNCHANGED <<daemonVars, faults, overlapped>>

(* Slip: the wait for the process has no limit. *)
GraceOver_NoLimit(c) ==
    /\ pc[c] = "dying" /\ ~Alive(job[c].victim)
    /\ Goto(c, "remove") /\ job' = [job EXCEPT ![c].victim = None]
    /\ UNCHANGED <<daemonVars, faults, overlapped>>

GraceOver(c) ==
    /\ pc[c] = "dying" /\ Alive(job[c].victim)
    /\ Die(job[c].victim) /\ Goto(c, "remove") /\ job' = [job EXCEPT ![c].victim = None]
    /\ UNCHANGED <<path, info, faults, overlapped>>

(* Both files go, whoever they belong to, and the socket is probed again.    *)
(* Nothing can answer at a path that was just removed; only a daemon that is *)
(* launched meanwhile can.                                                   *)
Remove(c) ==
    /\ pc[c] = "remove"
    /\ info' = None /\ path' = None
    /\ IF job[c].then = "proceed" THEN Proceed(c)
                                  ELSE Goto(c, "reprobe") /\ UNCHANGED job
    /\ UNCHANGED <<at, shutdown, asked, port, faults, overlapped>>

Reprobe(c) ==
    /\ pc[c] = "reprobe"
    /\ IF Reachable THEN Proceed(c)
       ELSE /\ Goto(c, IF job[c].then = "retry" THEN "kill" ELSE "spawn")
            /\ job' = [job EXCEPT ![c].then = "last"]
    /\ UNCHANGED <<daemonVars, faults, overlapped>>

(* _spawn_daemon *)
Unborn(d) ==
    /\ d # Old /\ ~Alive(d) /\ d \notin {path, info}
    /\ \A b \in Clients : d \notin {job[b].seen, job[b].victim, job[b].own}
(* Bound: a launch for which Daemons has no room left fails. *)
Spawn(c) ==
    /\ pc[c] = "spawn" /\ Overlap(c)
    /\ \/ \E d \in Daemons : /\ Unborn(d)
                             /\ at' = [at EXCEPT ![d] = "spawned"]
                             /\ job' = [job EXCEPT ![c].own = d]
                             /\ Goto(c, "await")
       \/ (\A d \in Daemons : ~Unborn(d)) /\ Fail(c) /\ UNCHANGED at
    /\ UNCHANGED <<shutdown, asked, path, info, port, faults>>

Started(c) ==
    /\ pc[c] = "await" /\ Reachable
    /\ Proceed(c)
    /\ UNCHANGED <<daemonVars, faults, overlapped>>

(* Fifteen seconds are over: the start takes that long, the process has      *)
(* ended, or it serves where nobody finds it.                                *)
StartupTimesOut(c) ==
    LET d == job[c].own IN
    /\ pc[c] = "await" /\ ~Reachable
    /\ IF Alive(d) THEN Terminate(d) /\ Goto(c, "giveup") /\ UNCHANGED job
                   ELSE Fail(c) /\ UNCHANGED <<at, shutdown, asked, port>>
    /\ UNCHANGED <<path, info, faults, overlapped>>

GivenUp(c) ==
    LET d == job[c].own IN
    /\ pc[c] = "giveup"
    /\ IF Alive(d) THEN Die(d) ELSE UNCHANGED <<at, shutdown, asked, port>>
    /\ Fail(c)
    /\ UNCHANGED <<path, info, faults, overlapped>>

(* A request is sent and its answer awaited without a time limit.  "then"    *)
(* says what an error does: a reload goes on when its stop fails, and a      *)
(* status has its error in the report.                                       *)
Ask(c, place, then) ==
    Goto(c, place) /\ job' = [job EXCEPT ![c].own = path, ![c].then = then]

Send(c) ==
    /\ pc[c] = "send"
    /\ IF Reachable THEN Ask(c, "reply", "idle") ELSE Fail(c)
    /\ UNCHANGED <<daemonVars, faults, overlapped>>

(* Nobody there to be stopped is as good as stopped. *)
SendStop(c) ==
    /\ pc[c] = "stop"
    /\ IF Reachable
       THEN /\ Ask(c, "stopreply", IF job[c].todo = Tail(Reload) THEN "proceed" ELSE "idle")
            /\ asked' = asked \cup {path}
       ELSE Proceed(c) /\ UNCHANGED asked
    /\ UNCHANGED <<at, shutdown, path, info, port, faults, overlapped>>

(* collect_status_report asks a daemon unless it is known to be of another   *)
(* version.                                                                  *)
AskStatus(c) ==
    /\ pc[c] = "status"
    /\ IF Reachable /\ info # Old THEN Ask(c, "reply", "proceed") ELSE Proceed(c)
    /\ UNCHANGED <<daemonVars, faults, overlapped>>

(* The daemon answers, for better or worse: to a stop not before the browser *)
(* has been stopped.                                                         *)
Waiting(c) == pc[c] \in {"reply", "stopreply"}
Answered(c) ==
    /\ Waiting(c) /\ Alive(job[c].own)
    /\ pc[c] = "stopreply" => job[c].own \notin asked
    /\ Proceed(c) \/ (job[c].then = "idle" /\ Fail(c))
    /\ UNCHANGED <<daemonVars, faults, overlapped>>

(* The connection ends with the process of the daemon. *)
HungUp(c) ==
    /\ Waiting(c) /\ ~Alive(job[c].own)
    /\ IF job[c].then = "proceed" THEN Proceed(c) ELSE Fail(c)
    /\ UNCHANGED <<daemonVars, faults, overlapped>>

(* wait_for_daemon_stop gives up after three seconds. *)
WaitStop(c) ==
    /\ pc[c] = "waitstop" /\ Overlap(c)
    /\ Proceed(c)
    /\ UNCHANGED <<daemonVars, faults>>

Interrupted(c) ==
    /\ pc[c] # "idle" /\ faults < MaxFaults /\ faults' = faults + 1
    /\ overlapped' = (overlapped \/ Launching(c))
    /\ Fail(c)
    /\ UNCHANGED daemonVars

-----------------------------------------------------------------------------
(* The daemon.                                                               *)
Advance(d, from, to) == at[d] = from /\ at' = [at EXCEPT ![d] = to]

(* serve: the signal handlers, then whatever socket is at the path goes. *)
ClearPath(d) ==
    /\ Advance(d, "spawned", "cleared") /\ path' = None
    /\ UNCHANGED <<shutdown, asked, info, port, pc, job, faults, overlapped>>

BindPort(d) ==
    /\ port = None
    /\ Advance(d, "cleared", "bound") /\ port' = d
    /\ UNCHANGED <<shutdown, asked, path, info, pc, job, faults, overlapped>>

(* EADDRINUSE: the finally clause follows. *)
PortInUse(d) ==
    /\ port # None
    /\ Advance(d, "cleared", "closed")
    /\ UNCHANGED <<shutdown, asked, path, info, port, pc, job, faults, overlapped>>

(* start_unix_server replaces what is at the path. *)
Listen(d) ==
    /\ Advance(d, "bound", "listening") /\ path' = d
    /\ UNCHANGED <<shutdown, asked, info, port, pc, job, faults, overlapped>>

WriteInfo(d) ==
    /\ Advance(d, "listening", "serving") /\ info' = d
    /\ UNCHANGED <<shutdown, asked, path, port, pc, job, faults, overlapped>>

(* _handle_stop: the browser and the extension's listener are stopped, then  *)
(* shutdown_event is set; a listener that does not stop is an error, and the *)
(* daemon serves on.                                                         *)
HandleStop(d) ==
    /\ d \in asked /\ Alive(d) /\ asked' = asked \ {d}
    /\ \/ shutdown' = shutdown \cup {d} /\ port' = (IF port = d THEN None ELSE port)
       \/ UNCHANGED <<shutdown, port>>
    /\ UNCHANGED <<at, path, info, pc, job, faults, overlapped>>

(* The socket is closed (and waits for its connections), the browser and the *)
(* extension's listener are stopped, then both files go, whoever they belong *)
(* to by now: two system calls in a row.                                     *)
CloseSocket(d) ==
    /\ d \in shutdown /\ Advance(d, "serving", "closed")
    /\ UNCHANGED <<shutdown, asked, path, info, port, pc, job, faults, overlapped>>

StopBrowser(d) ==
    /\ Advance(d, "closed", "released")
    /\ port' = IF port = d THEN None ELSE port
    /\ UNCHANGED <<shutdown, asked, path, info, pc, job, faults, overlapped>>

Exit(d) ==
    /\ Advance(d, "released", "gone")
    /\ info' = None /\ path' = None /\ shutdown' = shutdown \ {d} /\ asked' = asked \ {d}
    /\ UNCHANGED <<port, pc, job, faults, overlapped>>

Crash(d) ==
    /\ Alive(d) /\ faults < MaxFaults /\ faults' = faults + 1
    /\ Die(d)
    /\ UNCHANGED <<path, info, pc, job, overlapped>>

-----------------------------------------------------------------------------
Look(c) ==
    \/ ReadInfo(c) \/ Probe(c) \/ ProbeAgain(c) \/ Kill(c) \/ Dead(c) \/ GraceOver(c)
    \/ Remove(c) \/ Reprobe(c) \/ Spawn(c) \/ Started(c) \/ StartupTimesOut(c) \/ GivenUp(c)
    \/ Send(c) \/ SendStop(c) \/ AskStatus(c) \/ HungUp(c) \/ WaitStop(c)

Serve(d) == ClearPath(d) \/ BindPort(d) \/ PortInUse(d) \/ Listen(d) \/ WriteInfo(d)

Next ==
    \/ \E c \in Clients : \/ Look(c) \/ Answered(c) \/ Interrupted(c)
                          \/ \E program \in ProgramsOf[c] : Begin(c, program)
    \/ \E d \in Daemons : \/ Serve(d) \/ HandleStop(d) \/ CloseSocket(d) \/ StopBrowser(d)
                          \/ Exit(d) \/ Crash(d)

Spec == Init /\ [][Next]_vars

(* The processes of the CLI run, and the fifteen seconds of a start pass.    *)
(* Nothing is assumed of a daemon: its start may take for ever, it may never *)
(* answer, and its connections and its browser may keep it when it stops.    *)
FairSpec == Spec /\ \A c \in Clients : WF_vars(Look(c))

-----------------------------------------------------------------------------
(* As long as the CLI commands that launch or replace the daemon do not      *)
(* overlap and are not interrupted, there is at most one daemon process,     *)
(* whatever crashes, is too slow, hangs while it stops or was left by an     *)
(* older version; and one that serves is found, at the socket and by its pid.*)
LoneLaunchesLeaveOne ==
    ~overlapped =>
        /\ Cardinality({d \in Daemons : Alive(d)}) <= 1
        /\ \A d \in Daemons : at[d] = "serving" => path = d /\ info = d

(* A command is never sent to a daemon of another version, launches that     *)
(* overlap included.                                                         *)
CommandsReachThisVersion ==
    \A c \in Clients : pc[c] = "send" /\ Reachable => Compatible(path)

(* Every command of the CLI ends, although the daemon that it replaces may   *)
(* hang while it stops and others kill the one that it launches or asks: but *)
(* for one that has reached a daemon which lives on and never answers it.    *)
CommandsEnd ==
    \A c \in Clients :
        \/ []<>(pc[c] = "idle")
        \/ <>[](Waiting(c) /\ Alive(job[c].own))
=============================================================================
