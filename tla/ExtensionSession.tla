-------------------------- MODULE ExtensionSession --------------------------
(* The daemon's side of the extension socket (extension/session.py): the     *)
(* hub, which keeps the latest connection, and the sessions, which match     *)
(* responses, response chunks and artifacts to the requests that wait for    *)
(* them, while the extension (src/background.js) works on several requests,  *)
(* loses its socket, restarts and connects again.                            *)
EXTENDS Naturals, FiniteSets, SequencesExt

CONSTANTS
    Requests,   \* the calls of send_request
    Sockets,    \* 1..n, in the order in which the extension connects
    None,
    MaxFiles    \* artifacts that the extension emits for one request

ASSUME SessionAssumption ==
    /\ IsFiniteSet(Requests)
    /\ Sockets \subseteq Nat \ {0} /\ IsFiniteSet(Sockets)
    /\ None \notin Requests \cup Sockets
    /\ MaxFiles \in Nat

VARIABLES
    started,    \* the hub listens
    session,    \* _session: a socket or None
    ready,      \* _session_ready
    link,       \* the state of each socket
    inbox,      \* for each socket what the extension sent and nobody read
    outbox,     \* for each socket the requests that have not arrived
    lock,       \* for each session its _lock: the holder, then the waiters
    req,        \* for each request its stage and the session it is on
    pending,    \* _pending, of all sessions together
    answer,     \* the future of each request
    event,      \* its artifact event
    buffers,    \* _artifact_buffers
    completed,  \* _completed_artifacts
    chunks,     \* _response_buffers: the indexes received
    ws,         \* the extension's state.ws
    work,       \* what the extension does about each request
    lost        \* history: the requests under way when their session failed

daemon == <<pending, answer, event, buffers, completed, chunks>>
ext == <<ws, work>>
hub == <<started, session, ready>>
vars == <<hub, link, inbox, outbox, lock, req, daemon, ext, lost>>

Files == 1..MaxFiles
(* A response that does not fit into a frame comes as two chunks. *)
LastChunk == 1
UnderWay == {"queued", "sending", "waiting", "collecting"}
Over == {"ok", "refused", "failed", "timeout", "cancelled"}

Idle == [at |-> "idle", on |-> None, got |-> {}]
Free == [on |-> None, at |-> "none", files |-> {}]

Init ==
    /\ started = TRUE /\ session = None /\ ready = FALSE
    /\ link = [s \in Sockets |-> "unused"]
    /\ inbox = [s \in Sockets |-> << >>]
    /\ outbox = [s \in Sockets |-> {}]
    /\ lock = [s \in Sockets |-> << >>]
    /\ req = [r \in Requests |-> Idle]
    /\ pending = {} /\ buffers = {} /\ completed = {}
    /\ answer = [r \in Requests |-> "open"]
    /\ event = [r \in Requests |-> TRUE]
    /\ chunks = [r \in Requests |-> {}]
    /\ ws = None
    /\ work = [r \in Requests |-> Free]
    /\ lost = {}

On(s) == {r \in Requests : req[r].on = s /\ req[r].at \in UnderWay}
Without(q, r) ==
    IF r \in Range(q) THEN RemoveAt(q, CHOOSE i \in DOMAIN q : q[i] = r) ELSE q

-----------------------------------------------------------------------------
(* send_request *)

(* Its finally clause: the request leaves every table, and the lock if it    *)
(* held it or waited for it.  The future and the event are gone with it.     *)
Discard(r) ==
    /\ pending' = pending \ {r}
    /\ buffers' = {b \in buffers : b[1] # r}
    /\ completed' = {c \in completed : c[1] # r}
    /\ chunks' = [chunks EXCEPT ![r] = {}]
    /\ answer' = [answer EXCEPT ![r] = "open"]
    /\ event' = [event EXCEPT ![r] = TRUE]

Leave(r, outcome) ==
    /\ req' = [req EXCEPT ![r] = [at |-> outcome, on |-> req[r].on,
                                  got |-> IF outcome = "ok"
                                          THEN {f \in Files : <<r, f>> \in completed} ELSE {}]]
    /\ lock' = [lock EXCEPT ![req[r].on] = Without(@, r)]
    /\ Discard(r)
    /\ UNCHANGED <<hub, link, inbox, outbox, ext, lost>>

(* With the lock held the request is registered and written to the socket.   *)
(* A socket that the daemon knows to be closed refuses it.                   *)
Transmit(r, s) ==
    /\ link[s] \in {"up", "cut"}
    /\ req' = [req EXCEPT ![r] = [at |-> "sending", on |-> s, got |-> {}]]
    /\ pending' = pending \cup {r}
    /\ answer' = [answer EXCEPT ![r] = "open"]
    /\ event' = [event EXCEPT ![r] = TRUE]
    /\ outbox' = [outbox EXCEPT ![s] = IF link[s] = "up" THEN @ \cup {r} ELSE @]
    /\ UNCHANGED <<hub, link, inbox, buffers, completed, chunks, ext, lost>>

(* _require_session and send_request up to the first suspension.  A cut      *)
(* socket may or may not be known to be closed already.                      *)
Send(r) ==
    /\ req[r].at = "idle"
    /\ session # None /\ link[session] \in {"up", "cut"}
    /\ lock' = [lock EXCEPT ![session] = Append(@, r)]
    /\ \/ lock[session] = << >> /\ Transmit(r, session)
       \/ /\ lock[session] # << >>
          /\ req' = [req EXCEPT ![r] = [at |-> "queued", on |-> session, got |-> {}]]
          /\ UNCHANGED <<hub, link, inbox, outbox, daemon, ext, lost>>

GetLock(r) ==
    LET s == req[r].on
    IN  /\ req[r].at = "queued" /\ Head(lock[s]) = r
        /\ \/ Transmit(r, s) /\ UNCHANGED lock
           \/ link[s] # "up" /\ Leave(r, "failed")

Sent(r) ==
    LET s == req[r].on
    IN  /\ req[r].at = "sending"
        /\ \/ /\ req' = [req EXCEPT ![r].at = "waiting"]
              /\ lock' = [lock EXCEPT ![s] = Without(@, r)]
              /\ UNCHANGED <<hub, link, inbox, outbox, daemon, ext, lost>>
           \/ link[s] # "up" /\ Leave(r, "failed")

(* The future is done, some turns of the loop ago: fail it or go on to wait  *)
(* for the artifacts.                                                        *)
Answered(r) ==
    /\ req[r].at = "waiting" /\ answer[r] # "open"
    /\ \/ answer[r] = "error" /\ Leave(r, "failed")
       \/ /\ answer[r] # "error"
          /\ req' = [req EXCEPT ![r].at = "collecting"]
          /\ UNCHANGED <<hub, link, inbox, outbox, lock, daemon, ext, lost>>

Collected(r) ==
    /\ req[r].at = "collecting" /\ event[r]
    /\ Leave(r, IF answer[r] = "yes" THEN "ok" ELSE "refused")

(* Either wait is given 30 seconds. *)
Timeout(r) ==
    /\ \/ req[r].at = "waiting" /\ answer[r] = "open"
       \/ req[r].at = "collecting" /\ ~event[r]
    /\ Leave(r, "timeout")

Cancel(r) == req[r].at \in UnderWay /\ Leave(r, "cancelled")

Request(r) == GetLock(r) \/ Sent(r) \/ Answered(r) \/ Collected(r)

-----------------------------------------------------------------------------
(* fail_all *)

(* Slip: the table is emptied before its futures are failed. *)
FailAll_ClearedFirst(s) ==
    LET known == On(s) \cap pending
    IN  /\ pending' = pending \ known
        /\ buffers' = {b \in buffers : b[1] \notin known}
        /\ completed' = {c \in completed : c[1] \notin known}
        /\ chunks' = [r \in Requests |-> IF r \in known THEN {} ELSE chunks[r]]
        /\ event' = [r \in Requests |-> event[r] \/ r \in known]
        /\ lost' = lost \cup On(s)
        /\ UNCHANGED answer

FailAll(s) ==
    LET known == On(s) \cap pending
    IN  /\ answer' = [r \in Requests |->
                        IF r \in known /\ answer[r] = "open" THEN "error" ELSE answer[r]]
        /\ pending' = pending \ known
        /\ buffers' = {b \in buffers : b[1] \notin known}
        /\ completed' = {c \in completed : c[1] \notin known}
        /\ chunks' = [r \in Requests |-> IF r \in known THEN {} ELSE chunks[r]]
        /\ event' = [r \in Requests |-> event[r] \/ r \in known]
        /\ lost' = lost \cup On(s)

-----------------------------------------------------------------------------
(* _handle_websocket: the hello installs the session, whatever the old one. *)
Accept(s) ==
    /\ link[s] \in {"up", "cut"} /\ inbox[s] # << >> /\ Head(inbox[s]).type = "hello"
    /\ inbox' = [inbox EXCEPT ![s] = Tail(@)]
    /\ session' = s /\ ready' = TRUE
    /\ UNCHANGED <<started, link, outbox, lock, req, daemon, ext, lost>>

(* What the session does with a message about one of its pending requests. *)
Awaited(r) == r \in pending /\ answer[r] = "open"

Resolve(r, ok) == answer' = [answer EXCEPT ![r] = IF ok THEN "yes" ELSE "no"]

OnResponse(m) ==
    /\ IF Awaited(m.r) THEN Resolve(m.r, m.ok) ELSE UNCHANGED answer
    /\ UNCHANGED <<pending, event, buffers, completed, chunks>>

OnChunk(m) ==
    LET have == chunks[m.r] \cup {m.n}
    IN  /\ \/ /\ ~Awaited(m.r)
              /\ chunks' = [chunks EXCEPT ![m.r] = {}]
              /\ UNCHANGED answer
           \/ /\ Awaited(m.r) /\ m.n # LastChunk
              /\ chunks' = [chunks EXCEPT ![m.r] = have]
              /\ UNCHANGED answer
           \/ /\ Awaited(m.r) /\ m.n = LastChunk
              /\ chunks' = [chunks EXCEPT ![m.r] = {}]
              /\ IF have = 0..LastChunk THEN Resolve(m.r, m.ok)
                 ELSE answer' = [answer EXCEPT ![m.r] = "error"]
        /\ UNCHANGED <<pending, event, buffers, completed>>

(* Slip: a late artifact is buffered too. *)
OnBegin_Late(m) ==
    /\ buffers' = buffers \cup {<<m.r, m.n>>}
    /\ event' = [event EXCEPT ![m.r] = FALSE]
    /\ UNCHANGED <<pending, answer, completed, chunks>>

OnBegin(m) ==
    /\ IF m.r \in pending
       THEN /\ buffers' = buffers \cup {<<m.r, m.n>>}
            /\ event' = [event EXCEPT ![m.r] = FALSE]
       ELSE UNCHANGED <<buffers, event>>
    /\ UNCHANGED <<pending, answer, completed, chunks>>

OnEnd(m) ==
    /\ IF <<m.r, m.n>> \in buffers
       THEN /\ buffers' = buffers \ {<<m.r, m.n>>}
            /\ completed' = completed \cup {<<m.r, m.n>>}
            /\ event' = [event EXCEPT ![m.r] = @ \/ \A b \in buffers' : b[1] # m.r]
       ELSE UNCHANGED <<buffers, completed, event>>
    /\ UNCHANGED <<pending, answer, chunks>>

(* The session knows its own requests only. *)
Read(s) ==
    /\ link[s] \in {"up", "cut", "shut"} /\ inbox[s] # << >> /\ Head(inbox[s]).type # "hello"
    /\ inbox' = [inbox EXCEPT ![s] = Tail(@)]
    /\ LET m == Head(inbox[s])
       IN  IF req[m.r].on # s THEN UNCHANGED daemon
           ELSE \/ m.type = "response" /\ OnResponse(m)
                \/ m.type = "chunk" /\ OnChunk(m)
                \/ m.type = "begin" /\ OnBegin(m)
                \/ m.type = "end" /\ OnEnd(m)
    /\ UNCHANGED <<hub, link, outbox, lock, req, ext, lost>>

(* Slip: the end of any connection ends the session. *)
ReaderEnds_Unchecked(s) ==
    /\ link[s] \in {"cut", "shut"}
    /\ link' = [link EXCEPT ![s] = "gone"]
    /\ inbox' = [inbox EXCEPT ![s] = << >>]
    /\ ready' = FALSE /\ FailAll(s)
    /\ session' = IF session = s THEN None ELSE session
    /\ UNCHANGED <<started, outbox, lock, req, ext>>

(* Its finally clause; what was not read is lost with the connection.  A     *)
(* connection that said no hello has no session.                             *)
ReaderEnds(s) ==
    /\ link[s] \in {"cut", "shut"}
    /\ link' = [link EXCEPT ![s] = "gone"]
    /\ inbox' = [inbox EXCEPT ![s] = << >>]
    /\ IF session = s
       THEN session' = None /\ ready' = FALSE /\ FailAll(s)
       ELSE UNCHANGED <<session, ready, daemon, lost>>
    /\ UNCHANGED <<started, outbox, lock, req, ext>>

(* ExtensionHub.stop: the server closes every connection. *)
HubStop ==
    /\ started
    /\ started' = FALSE /\ session' = None /\ ready' = FALSE
    /\ IF session = None THEN UNCHANGED <<daemon, lost>> ELSE FailAll(session)
    /\ link' = [s \in Sockets |-> IF link[s] \in {"up", "cut"} THEN "shut" ELSE link[s]]
    /\ UNCHANGED <<inbox, outbox, lock, req, ext>>

-----------------------------------------------------------------------------
(* The extension. *)
Message(type, r, n, ok) == [type |-> type, r |-> r, n |-> n, ok |-> ok]
IsOpen(s) == s # None /\ link[s] = "up"
Put(s, ms) == inbox' = [inbox EXCEPT ![s] = @ \o ms]

(* connectOnce: a new socket unless the present one is open; the hello is    *)
(* the first thing it sends.                                                 *)
Connect ==
    /\ started /\ ~IsOpen(ws)
    /\ \E s \in Sockets :
         /\ link[s] = "unused" /\ \A q \in Sockets : q < s => link[q] # "unused"
         /\ link' = [link EXCEPT ![s] = "up"]
         /\ ws' = s
         /\ Put(s, <<Message("hello", None, 0, TRUE)>>)
    /\ UNCHANGED <<hub, outbox, lock, req, daemon, work, lost>>

(* onmessage and handleRequest: a request that comes on a replaced socket is *)
(* ignored.                                                                  *)
Take(r) ==
    /\ \E s \in Sockets :
         /\ r \in outbox[s]
         /\ outbox' = [outbox EXCEPT ![s] = @ \ {r}]
         /\ IF s = ws /\ link[s] = "up"
            THEN work' = [work EXCEPT ![r] = [on |-> s, at |-> "working", files |-> {}]]
            ELSE UNCHANGED work
    /\ UNCHANGED <<hub, link, inbox, lock, req, daemon, ws, lost>>

(* Slip: the handler does not wait for the artifact before it answers. *)
Emit_NotAwaited(r) ==
    /\ work[r].at \in {"working", "done"} /\ IsOpen(ws)
    /\ \E f \in Files \ work[r].files :
         /\ work' = [work EXCEPT ![r].files = @ \cup {f}]
         /\ Put(ws, <<Message("begin", r, f, TRUE), Message("end", r, f, TRUE)>>)
    /\ UNCHANGED <<hub, link, outbox, lock, req, daemon, ws, lost>>

(* emitArtifact: on the socket of the moment, whichever the request came on. *)
Emit(r) ==
    /\ work[r].at = "working" /\ IsOpen(ws)
    /\ \E f \in Files \ work[r].files :
         /\ f = Cardinality(work[r].files) + 1
         /\ work' = [work EXCEPT ![r].files = @ \cup {f}]
         /\ Put(ws, <<Message("begin", r, f, TRUE), Message("end", r, f, TRUE)>>)
    /\ UNCHANGED <<hub, link, outbox, lock, req, daemon, ws, lost>>

(* The answer, on the socket of the request only, whole or in chunks. *)
Reply(r) ==
    LET s == work[r].on
    IN  /\ work[r].at = "working"
        /\ \E ok \in BOOLEAN :
             /\ work' = [work EXCEPT ![r].at = IF ok THEN "done" ELSE "refused"]
             /\ IF s = ws /\ IsOpen(s)
                THEN \/ Put(s, <<Message("response", r, 0, ok)>>)
                     \/ Put(s, [i \in 1..(LastChunk + 1) |-> Message("chunk", r, i - 1, ok)])
                ELSE UNCHANGED inbox
        /\ UNCHANGED <<hub, link, outbox, lock, req, daemon, ws, lost>>

(* A connection ends, with what it was carrying; the extension notices, or   *)
(* is restarted and forgets what it was doing.                               *)
Cut(s) ==
    /\ link[s] = "up"
    /\ link' = [link EXCEPT ![s] = "cut"]
    /\ outbox' = [outbox EXCEPT ![s] = {}]
    /\ \/ UNCHANGED ext
       \/ ws' = None /\ UNCHANGED work
       \/ ws' = None /\ work' = [r \in Requests |-> [work[r] EXCEPT !.at =
                                    IF @ = "working" THEN "forgotten" ELSE @]]
    /\ UNCHANGED <<hub, inbox, lock, req, daemon, lost>>

Next ==
    \/ \E r \in Requests : \/ Send(r) \/ Request(r) \/ Timeout(r) \/ Cancel(r)
                           \/ Take(r) \/ Emit(r) \/ Reply(r)
    \/ \E s \in Sockets : Accept(s) \/ Read(s) \/ ReaderEnds(s) \/ Cut(s)
    \/ Connect \/ HubStop

Spec == Init /\ [][Next]_vars

-----------------------------------------------------------------------------
About(types, n, ok) == [type : types, r : Requests, n : n, ok : ok]
MessageType ==
    [type : {"hello"}, r : {None}, n : {0}, ok : {TRUE}] \cup About({"response"}, {0}, BOOLEAN)
        \cup About({"chunk"}, 0..LastChunk, BOOLEAN) \cup About({"begin", "end"}, Files, {TRUE})

(* The type of the state. *)
TypeOK ==
    /\ started \in BOOLEAN /\ ready \in BOOLEAN
    /\ session \in Sockets \cup {None} /\ ws \in Sockets \cup {None}
    /\ link \in [Sockets -> {"unused", "up", "cut", "shut", "gone"}]
    /\ inbox \in [Sockets -> Seq(MessageType)]
    /\ outbox \in [Sockets -> SUBSET Requests]
    /\ lock \in [Sockets -> Seq(Requests)]
    /\ req \in [Requests -> [at : {"idle"} \cup UnderWay \cup Over,
                             on : Sockets \cup {None}, got : SUBSET Files]]
    /\ pending \subseteq Requests /\ lost \subseteq Requests
    /\ answer \in [Requests -> {"open", "yes", "no", "error"}]
    /\ event \in [Requests -> BOOLEAN]
    /\ buffers \subseteq Requests \X Files /\ completed \subseteq Requests \X Files
    /\ chunks \in [Requests -> SUBSET (0..LastChunk)]
    /\ work \in [Requests -> [on : Sockets \cup {None}, files : SUBSET Files,
                     at : {"none", "working", "done", "refused", "forgotten"}]]

(* Late results and artifacts of an interrupted request are discarded: no    *)
(* table mentions a request that is over or whose session has failed,        *)
(* although its messages keep arriving.                                      *)
NothingLeftBehind ==
    /\ TypeOK
    /\ pending \subseteq {r \in Requests : req[r].at \in {"sending", "waiting", "collecting"}} \ lost
    /\ \A r \in Requests :
         r \notin pending => /\ chunks[r] = {}
                             /\ \A f \in Files : <<r, f>> \notin buffers \cup completed

(* The hub hands out a session exactly while one is installed, and an        *)
(* installed session has not failed: the end of an old connection does not   *)
(* take away the new one.                                                    *)
ReadyMeansSession ==
    /\ ready <=> session # None
    /\ session # None => link[session] # "gone" /\ On(session) \cap lost = {}

(* A request succeeds with every artifact the extension emitted for it, and  *)
(* only if the extension did what was asked, unless its session failed.      *)
ArtifactsComplete ==
    \A r \in Requests : (req[r].at = "ok" /\ r \notin lost) =>
        work[r].at = "done" /\ req[r].got = work[r].files

(* Nobody waits for a session that has failed, whatever the request was      *)
(* doing when it failed: it can go on without the help of its timers, and    *)
(* what it goes on with is an error, from its future or from the socket.     *)
Released(r) ==
    CASE req[r].at = "queued" -> link[req[r].on] \in {"shut", "gone"}
      [] req[r].at \in {"sending", "waiting"} -> answer[r] # "open"
      [] req[r].at = "collecting" -> event[r]
NobodyWaitsInVain ==
    \A r \in lost : req[r].at \in UnderWay => Released(r)

=============================================================================
