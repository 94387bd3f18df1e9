----------------------- MODULE ExtensionSessionProofs -----------------------
(* Theorems about ExtensionSession, for any number of requests, connections  *)
(* and artifacts: the newest session is installed until it fails, whatever a *)
(* failure interrupts leaves no trace and waits for nothing, and an answer   *)
(* comes with its artifacts.                                                 *)
EXTENDS ExtensionSession, TLAPS

(* What a failed session leaves: its connection never carries a request      *)
(* again, and the requests that were under way on it have been woken.        *)
LostIsClosed ==
    \A r \in lost : req[r].at # "idle" /\ link[req[r].on] \in {"shut", "gone"}
LostIsWoken ==
    \A r \in lost :
        /\ req[r].at \in {"sending", "waiting"} => answer[r] # "open"
        /\ req[r].at \in {"sending", "waiting", "collecting"} => event[r]

(* The session is that of a connection that has not ended.  Nothing ends it  *)
(* from within: its end and the stop of the hub take it away.                *)
SessionIsUp ==
    /\ ready <=> session # None
    /\ session # None => session \in Sockets /\ link[session] \in {"up", "cut"}

(* A request is in the table from its send to its end or to the end of its   *)
(* session, and only then may the other tables mention it.                   *)
Exchanging == {r \in Requests : req[r].at \in {"sending", "waiting", "collecting"}}
Unmentioned(r) == chunks[r] = {} /\ \A f \in Files : <<r, f>> \notin buffers \cup completed
TablesMatch ==
    /\ pending = Exchanging \ lost
    /\ \A r \in Requests \ pending : Unmentioned(r)

(* A request that is under way is on a connection. *)
Placed == \A r \in Requests : req[r].at # "idle" => req[r].on \in Sockets

IInv == TypeOK /\ Placed /\ SessionIsUp /\ LostIsClosed /\ LostIsWoken /\ TablesMatch

USE DEF UnderWay, Over

-----------------------------------------------------------------------------
LEMMA InitIInv == Init => IInv
<1> SUFFICES ASSUME Init PROVE IInv OBVIOUS
<1>1. None \notin Sockets /\ None \notin Requests BY SessionAssumption
<1>2. TypeOK
  <2>1. inbox \in [Sockets -> Seq(MessageType)] /\ lock \in [Sockets -> Seq(Requests)]
    BY DEF Init
  <2>2. req \in [Requests -> [at : {"idle"} \cup UnderWay \cup Over,
                             on : Sockets \cup {None}, got : SUBSET Files]]
    BY DEF Init, Idle
  <2>3. work \in [Requests -> [on : Sockets \cup {None}, files : SUBSET Files,
                   at : {"none", "working", "done", "refused", "forgotten"}]]
    BY DEF Init, Free
  <2>4. /\ link \in [Sockets -> {"unused", "up", "cut", "shut", "gone"}]
        /\ outbox \in [Sockets -> SUBSET Requests]
        /\ answer \in [Requests -> {"open", "yes", "no", "error"}]
        /\ event \in [Requests -> BOOLEAN]
        /\ chunks \in [Requests -> SUBSET (0..LastChunk)]
    BY DEF Init
  <2> QED BY <2>1, <2>2, <2>3, <2>4 DEF Init, TypeOK
<1>3. Placed /\ SessionIsUp /\ LostIsClosed /\ LostIsWoken
  BY DEF Init, Placed, SessionIsUp, LostIsClosed, LostIsWoken, Idle
<1>4. TablesMatch BY DEF Init, TablesMatch, Exchanging, Unmentioned, Idle
<1> QED BY <1>2, <1>3, <1>4 DEF IInv

LEMMA WithoutType ==
    ASSUME NEW q \in Seq(Requests), NEW r PROVE Without(q, r) \in Seq(Requests)
<1>1. CASE r \notin Range(q) BY <1>1 DEF Without
<1>2. CASE r \in Range(q)
  <2> DEFINE i == CHOOSE k \in DOMAIN q : q[k] = r
  <2>1. i \in DOMAIN q BY <1>2 DEF Range
  <2>2. i \in 1..Len(q) BY <2>1
  <2> HIDE DEF i
  <2>3. SubSeq(q, 1, i - 1) \in Seq(Requests) BY <2>2
  <2>4. SubSeq(q, i + 1, Len(q)) \in Seq(Requests) BY <2>2
  <2>5. RemoveAt(q, i) \in Seq(Requests) BY <2>3, <2>4 DEF RemoveAt
  <2> QED BY <2>5, <1>2 DEF Without, i
<1> QED BY <1>1, <1>2

(* A request leaves: with its result or an error, cancelled or after a       *)
(* time-out.                                                                 *)
LEMMA LeavePreserves ==
    ASSUME IInv, NEW r \in Requests, req[r].at \in UnderWay,
           NEW outcome \in Over, Leave(r, outcome)
    PROVE  IInv'
<1> USE DEF Leave, Discard
<1> DEFINE Record == [at : {"idle"} \cup UnderWay \cup Over,
                      on : Sockets \cup {None}, got : SUBSET Files]
           left == [at |-> outcome, on |-> req[r].on,
                    got |-> IF outcome = "ok" THEN {f \in Files : <<r, f>> \in completed} ELSE {}]
<1>a. req[r].on \in Sockets /\ req \in [Requests -> Record]
  BY DEF IInv, TypeOK, Placed
<1>b. left \in Record BY <1>a
<1>c. req' = [req EXCEPT ![r] = left] OBVIOUS
<1> HIDE DEF left
<1>d. left.at = outcome /\ left.on = req[r].on BY DEF left
<1>0. /\ req' \in [Requests -> Record]
      /\ req'[r].at = outcome /\ req'[r].on = req[r].on
      /\ \A q \in Requests \ {r} : req'[q] = req[q]
  BY <1>a, <1>b, <1>c, <1>d
<1>1. TypeOK'
  <2>1. lock' \in [Sockets -> Seq(Requests)]
    <3>1. lock[req[r].on] \in Seq(Requests) BY <1>a DEF IInv, TypeOK
    <3>2. Without(lock[req[r].on], r) \in Seq(Requests) BY <3>1, WithoutType
    <3> QED BY <3>2 DEF IInv, TypeOK
  <2>2. /\ pending' \subseteq Requests
        /\ answer' \in [Requests -> {"open", "yes", "no", "error"}]
        /\ event' \in [Requests -> BOOLEAN]
        /\ buffers' \subseteq Requests \X Files /\ completed' \subseteq Requests \X Files
        /\ chunks' \in [Requests -> SUBSET (0..LastChunk)]
    BY DEF IInv, TypeOK
  <2> QED BY <1>0, <2>1, <2>2 DEF IInv, TypeOK, hub, ext
<1>2. Placed' BY <1>0 DEF IInv, Placed, TypeOK
<1>3. SessionIsUp' BY DEF IInv, SessionIsUp, hub
<1>4. LostIsClosed'
  <2>1. lost' = lost /\ link' = link /\ lost \subseteq Requests BY DEF IInv, TypeOK
  <2> QED BY <1>0, <2>1 DEF IInv, LostIsClosed
<1>5. LostIsWoken'
  BY <1>0 DEF IInv, LostIsWoken, TypeOK
<1>6. TablesMatch'
  <2>1. pending' = (Exchanging \ lost)' BY <1>0 DEF IInv, TablesMatch, Exchanging
  <2>2. ASSUME NEW q \in Requests \ pending' PROVE Unmentioned(q)'
    <3>1. chunks'[q] = {} BY DEF IInv, TablesMatch, Unmentioned, TypeOK
    <3>2. ASSUME NEW f \in Files PROVE <<q, f>> \notin buffers' \cup completed'
      <4>1. <<q, f>>[1] = q OBVIOUS
      <4> QED BY <4>1 DEF IInv, TablesMatch, Unmentioned
    <3> QED BY <3>1, <3>2 DEF Unmentioned
  <2> QED BY <2>1, <2>2 DEF TablesMatch
<1> QED BY <1>1, <1>2, <1>3, <1>4, <1>5, <1>6 DEF IInv

(* A request is registered and written to the socket, while its session      *)
(* lives.                                                                    *)
LEMMA TransmitPreserves ==
    ASSUME IInv, NEW r \in Requests, NEW s \in Sockets, Transmit(r, s),
           req[r].at \in {"idle", "queued"}, r \notin lost,
           lock' \in [Sockets -> Seq(Requests)]
    PROVE  IInv'
<1> USE DEF Transmit
<1> DEFINE Record == [at : {"idle"} \cup UnderWay \cup Over,
                      on : Sockets \cup {None}, got : SUBSET Files]
           sending == [at |-> "sending", on |-> s, got |-> {}]
<1>a. sending \in Record OBVIOUS
<1>b. sending.at = "sending" /\ sending.on = s OBVIOUS
<1>c. req' = [req EXCEPT ![r] = sending] OBVIOUS
<1> HIDE DEF sending
<1>0. /\ req' \in [Requests -> Record]
      /\ req'[r].at = "sending" /\ req'[r].on = s
      /\ \A q \in Requests \ {r} : req'[q] = req[q]
  BY <1>a, <1>b, <1>c DEF IInv, TypeOK
<1>1. TypeOK'
  <2>1. /\ pending' \subseteq Requests
        /\ answer' \in [Requests -> {"open", "yes", "no", "error"}]
        /\ event' \in [Requests -> BOOLEAN]
        /\ outbox' \in [Sockets -> SUBSET Requests]
    BY DEF IInv, TypeOK
  <2> QED BY <1>0, <2>1 DEF IInv, TypeOK, hub, ext
<1>2. Placed' BY <1>0 DEF IInv, Placed
<1>3. SessionIsUp' BY DEF IInv, SessionIsUp, hub
<1>4. LostIsClosed'
  <2>1. lost' = lost /\ link' = link /\ lost \subseteq Requests \ {r} BY DEF IInv, TypeOK
  <2> QED BY <1>0, <2>1 DEF IInv, LostIsClosed
<1>5. LostIsWoken' BY <1>0 DEF IInv, LostIsWoken, TypeOK
<1>6. TablesMatch'
  <2>1. pending' = (Exchanging \ lost)' BY <1>0 DEF IInv, TablesMatch, Exchanging
  <2>2. \A q \in Requests \ pending' : Unmentioned(q)'
    BY DEF IInv, TablesMatch, Unmentioned
  <2> QED BY <2>1, <2>2 DEF TablesMatch
<1> QED BY <1>1, <1>2, <1>3, <1>4, <1>5, <1>6 DEF IInv

(* A request goes on: it queues for the lock, its message is written, or its *)
(* future is done.                                                           *)
LEMMA GoesOnPreserves ==
    ASSUME IInv, NEW r \in Requests, NEW from, NEW to,
           from = req[r].at,
           <<from, to>> \in {<<"idle", "queued">>, <<"sending", "waiting">>,
                             <<"waiting", "collecting">>},
           req' \in [Requests -> [at : {"idle"} \cup UnderWay \cup Over,
                                  on : Sockets \cup {None}, got : SUBSET Files]],
           req'[r].at = to, req'[r].on \in Sockets,
           from # "idle" => req'[r].on = req[r].on,
           \A q \in Requests \ {r} : req'[q] = req[q],
           lock' \in [Sockets -> Seq(Requests)],
           UNCHANGED <<hub, link, inbox, outbox, daemon, ext, lost>>
    PROVE  IInv'
<1>0. from \in {"idle", "sending", "waiting"} /\ to \in {"queued", "waiting", "collecting"}
  OBVIOUS
<1>1. TypeOK' BY DEF IInv, TypeOK, hub, ext, daemon
<1>2. Placed' BY <1>0 DEF IInv, Placed
<1>3. SessionIsUp' BY DEF IInv, SessionIsUp, hub
<1>4. LostIsClosed'
  <2>1. lost' = lost /\ link' = link /\ lost \subseteq Requests BY DEF IInv, TypeOK
  <2>2. r \in lost => from # "idle" BY DEF IInv, LostIsClosed
  <2> QED BY <1>0, <2>1, <2>2 DEF IInv, LostIsClosed
<1>5. LostIsWoken'
  <2>1. lost' = lost /\ answer' = answer /\ event' = event /\ lost \subseteq Requests
    BY DEF IInv, TypeOK, daemon
  <2>2. r \in lost => from # "idle" BY DEF IInv, LostIsClosed
  <2> QED BY <2>1, <2>2 DEF IInv, LostIsWoken
<1>6. TablesMatch'
  <2>1. Exchanging' = Exchanging BY DEF Exchanging
  <2>2. UNCHANGED <<pending, lost, chunks, buffers, completed>> BY DEF daemon
  <2> QED BY <2>1, <2>2 DEF IInv, TablesMatch, Unmentioned
<1> QED BY <1>1, <1>2, <1>3, <1>4, <1>5, <1>6 DEF IInv

(* The session of a connection fails, which is closed in the same step.      *)
LEMMA FailPreserves ==
    ASSUME IInv, NEW s \in Sockets, FailAll(s),
           session' = None, ready' = FALSE, started' \in BOOLEAN,
           link' \in [Sockets -> {"unused", "up", "cut", "shut", "gone"}],
           link'[s] \in {"shut", "gone"},
           \A q \in Sockets : link[q] \in {"shut", "gone"} => link'[q] \in {"shut", "gone"},
           inbox' \in [Sockets -> Seq(MessageType)],
           UNCHANGED <<outbox, lock, req, ext>>
    PROVE  IInv'
<1> USE DEF FailAll
<1>0. lost' = lost \cup On(s) /\ On(s) \subseteq Requests /\ lost \subseteq Requests
  BY DEF On, IInv, TypeOK
<1>1. TypeOK'
  <2>1. /\ pending' \subseteq Requests
        /\ answer' \in [Requests -> {"open", "yes", "no", "error"}]
        /\ event' \in [Requests -> BOOLEAN]
        /\ buffers' \subseteq Requests \X Files /\ completed' \subseteq Requests \X Files
        /\ chunks' \in [Requests -> SUBSET (0..LastChunk)]
    BY DEF IInv, TypeOK
  <2> QED BY <1>0, <2>1 DEF IInv, TypeOK, ext
<1>2. Placed' BY DEF IInv, Placed
<1>3. SessionIsUp' BY DEF SessionIsUp
<1>4. LostIsClosed'
  <2> SUFFICES ASSUME NEW r \in lost'
               PROVE  req[r].at # "idle" /\ link'[req[r].on] \in {"shut", "gone"}
    BY DEF LostIsClosed
  <2>1. CASE r \in lost
    <3>1. req[r].at # "idle" /\ link[req[r].on] \in {"shut", "gone"}
      BY <2>1 DEF IInv, LostIsClosed
    <3>2. req[r].on \in Sockets BY <1>0, <3>1 DEF IInv, Placed
    <3> QED BY <3>1, <3>2
  <2>2. CASE r \in On(s) BY <2>2 DEF On
  <2> QED BY <1>0, <2>1, <2>2
<1>5. LostIsWoken'
  <2> SUFFICES ASSUME NEW r \in lost'
               PROVE  /\ req[r].at \in {"sending", "waiting"} => answer'[r] # "open"
                      /\ req[r].at \in {"sending", "waiting", "collecting"} => event'[r]
    BY DEF LostIsWoken
  <2>0. r \in Requests BY <1>0
  <2>1. CASE r \in lost BY <2>0, <2>1 DEF IInv, LostIsWoken
  <2>2. CASE r \in On(s) \ lost
    <3>1. req[r].at \in {"sending", "waiting", "collecting"} => r \in pending
      BY <2>0, <2>2 DEF IInv, TablesMatch, Exchanging
    <3> QED BY <2>0, <2>2, <3>1
  <2> QED BY <1>0, <2>1, <2>2
<1>6. TablesMatch'
  <2>1. pending' = (Exchanging \ lost)' BY <1>0 DEF IInv, TablesMatch, Exchanging
  <2>2. ASSUME NEW q \in Requests \ pending' PROVE Unmentioned(q)'
    <3>1. chunks'[q] = {} BY DEF IInv, TablesMatch, Unmentioned
    <3>2. ASSUME NEW f \in Files PROVE <<q, f>> \notin buffers' \cup completed'
      <4>1. <<q, f>>[1] = q OBVIOUS
      <4> QED BY <4>1 DEF IInv, TablesMatch, Unmentioned
    <3> QED BY <3>1, <3>2 DEF Unmentioned
  <2> QED BY <2>1, <2>2 DEF TablesMatch
<1> QED BY <1>1, <1>2, <1>3, <1>4, <1>5, <1>6 DEF IInv

(* Chrome's side, and the connections: what changes there never revives a    *)
(* connection that was closed, nor touches the tables.                       *)
LEMMA OutsidePreserves ==
    ASSUME IInv, TypeOK', SessionIsUp',
           \A q \in Sockets : link[q] \in {"shut", "gone"} => link'[q] \in {"shut", "gone"},
           UNCHANGED <<req, daemon, lost>>
    PROVE  IInv'
<1>1. UNCHANGED <<pending, answer, event, buffers, completed, chunks>> BY DEF daemon
<1>2. Placed' BY DEF IInv, Placed
<1>3. LostIsClosed'
  <2>1. \A r \in lost : req[r].on \in Sockets BY DEF IInv, LostIsClosed, Placed, TypeOK
  <2> QED BY <2>1 DEF IInv, LostIsClosed
<1>4. LostIsWoken' BY <1>1 DEF IInv, LostIsWoken
<1>5. TablesMatch' BY <1>1 DEF IInv, TablesMatch, Exchanging, Unmentioned
<1> QED BY <1>2, <1>3, <1>4, <1>5 DEF IInv

-----------------------------------------------------------------------------
(* The requests.                                                             *)
ReqType == [Requests -> [at : {"idle"} \cup UnderWay \cup Over,
                         on : Sockets \cup {None}, got : SUBSET Files]]

LEMMA StageType ==
    ASSUME req \in ReqType, NEW r \in Requests, NEW to \in UnderWay,
           req' = [req EXCEPT ![r].at = to]
    PROVE  /\ req' \in ReqType /\ req'[r].at = to /\ req'[r].on = req[r].on
           /\ \A q \in Requests \ {r} : req'[q] = req[q]
<1> DEFINE next == [req[r] EXCEPT !.at = to]
<1>1. next \in [at : {"idle"} \cup UnderWay \cup Over, on : Sockets \cup {None}, got : SUBSET Files]
  BY DEF ReqType
<1>2. next.at = to /\ next.on = req[r].on BY DEF ReqType
<1>3. req' = [req EXCEPT ![r] = next] OBVIOUS
<1> HIDE DEF next
<1> QED BY <1>1, <1>2, <1>3 DEF ReqType

LEMMA SendPreserves == ASSUME IInv, NEW r \in Requests, Send(r) PROVE IInv'
<1>1. session \in Sockets /\ link[session] \in {"up", "cut"} BY DEF Send, IInv, SessionIsUp
<1>2. r \notin lost BY DEF Send, IInv, LostIsClosed
<1>3. lock' \in [Sockets -> Seq(Requests)] BY <1>1 DEF Send, IInv, TypeOK
<1>4. CASE Transmit(r, session) BY <1>1, <1>2, <1>3, <1>4, TransmitPreserves DEF Send
<1>5. CASE /\ req' = [req EXCEPT ![r] = [at |-> "queued", on |-> session, got |-> {}]]
           /\ UNCHANGED <<hub, link, inbox, outbox, daemon, ext, lost>>
  <2> DEFINE queued == [at |-> "queued", on |-> session, got |-> {}]
  <2>1. /\ queued \in [at : {"idle"} \cup UnderWay \cup Over, on : Sockets \cup {None},
                       got : SUBSET Files]
        /\ queued.at = "queued" /\ queued.on \in Sockets
    BY <1>1
  <2>2. req' = [req EXCEPT ![r] = queued] BY <1>5
  <2> HIDE DEF queued
  <2>3. /\ req' \in ReqType /\ req'[r].at = "queued" /\ req'[r].on \in Sockets
        /\ \A q \in Requests \ {r} : req'[q] = req[q]
    BY <2>1, <2>2 DEF IInv, TypeOK, ReqType
  <2>4. req[r].at = "idle" BY DEF Send
  <2> QED BY <1>3, <1>5, <2>3, <2>4, GoesOnPreserves DEF ReqType
<1> QED BY <1>4, <1>5 DEF Send

LEMMA GetLockPreserves == ASSUME IInv, NEW r \in Requests, GetLock(r) PROVE IInv'
<1>1. req[r].at = "queued" /\ req[r].on \in Sockets BY DEF GetLock, IInv, Placed
<1>2. CASE Transmit(r, req[r].on) /\ UNCHANGED lock
  <2>1. r \notin lost BY <1>1, <1>2 DEF Transmit, IInv, LostIsClosed
  <2>2. lock' \in [Sockets -> Seq(Requests)] BY <1>2 DEF IInv, TypeOK
  <2> QED BY <1>1, <1>2, <2>1, <2>2, TransmitPreserves
<1>3. CASE Leave(r, "failed") BY <1>1, <1>3, LeavePreserves
<1> QED BY <1>2, <1>3 DEF GetLock

LEMMA SentPreserves == ASSUME IInv, NEW r \in Requests, Sent(r) PROVE IInv'
<1>1. req[r].at = "sending" /\ req[r].on \in Sockets BY DEF Sent, IInv, Placed
<1>2. CASE /\ req' = [req EXCEPT ![r].at = "waiting"]
           /\ lock' = [lock EXCEPT ![req[r].on] = Without(@, r)]
           /\ UNCHANGED <<hub, link, inbox, outbox, daemon, ext, lost>>
  <2>1. lock[req[r].on] \in Seq(Requests) BY <1>1 DEF IInv, TypeOK
  <2>2. Without(lock[req[r].on], r) \in Seq(Requests) BY <2>1, WithoutType
  <2>3. lock' \in [Sockets -> Seq(Requests)] BY <1>2, <2>2 DEF IInv, TypeOK
  <2>4. /\ req' \in ReqType /\ req'[r].at = "waiting" /\ req'[r].on = req[r].on
        /\ \A q \in Requests \ {r} : req'[q] = req[q]
    BY <1>2, StageType DEF IInv, TypeOK, ReqType
  <2> QED BY <1>1, <1>2, <2>3, <2>4, GoesOnPreserves DEF ReqType
<1>3. CASE Leave(r, "failed") BY <1>1, <1>3, LeavePreserves
<1> QED BY <1>2, <1>3 DEF Sent

LEMMA AnsweredPreserves == ASSUME IInv, NEW r \in Requests, Answered(r) PROVE IInv'
<1>1. req[r].at = "waiting" /\ req[r].on \in Sockets BY DEF Answered, IInv, Placed
<1>2. CASE /\ req' = [req EXCEPT ![r].at = "collecting"]
           /\ UNCHANGED <<hub, link, inbox, outbox, lock, daemon, ext, lost>>
  <2>1. lock' \in [Sockets -> Seq(Requests)] BY <1>2 DEF IInv, TypeOK
  <2>2. /\ req' \in ReqType /\ req'[r].at = "collecting" /\ req'[r].on = req[r].on
        /\ \A q \in Requests \ {r} : req'[q] = req[q]
    BY <1>2, StageType DEF IInv, TypeOK, ReqType
  <2> QED BY <1>1, <1>2, <2>1, <2>2, GoesOnPreserves DEF ReqType
<1>3. CASE Leave(r, "failed") BY <1>1, <1>3, LeavePreserves
<1> QED BY <1>2, <1>3 DEF Answered

LEMMA EndsPreserve ==
    ASSUME IInv, NEW r \in Requests, Collected(r) \/ Timeout(r) \/ Cancel(r) PROVE IInv'
<1>1. PICK outcome \in Over : req[r].at \in UnderWay /\ Leave(r, outcome)
  BY DEF Collected, Timeout, Cancel
<1> QED BY <1>1, LeavePreserves

-----------------------------------------------------------------------------
(* The connections.                                                          *)
LEMMA TailType ==
    ASSUME TypeOK, NEW s \in Sockets, inbox[s] # << >>,
           inbox' = [inbox EXCEPT ![s] = Tail(@)]
    PROVE  inbox' \in [Sockets -> Seq(MessageType)] /\ Head(inbox[s]) \in MessageType
<1>1. inbox[s] \in Seq(MessageType) BY DEF TypeOK
<1>2. Tail(inbox[s]) \in Seq(MessageType) /\ Head(inbox[s]) \in MessageType BY <1>1
<1> QED BY <1>2 DEF TypeOK

LEMMA AcceptPreserves == ASSUME IInv, NEW s \in Sockets, Accept(s) PROVE IInv'
<1>0. inbox' \in [Sockets -> Seq(MessageType)] BY TailType DEF Accept, IInv
<1>1. TypeOK' BY <1>0 DEF Accept, IInv, TypeOK, daemon, ext
<1>2. SessionIsUp'
  <2>1. s # None BY SessionAssumption
  <2> QED BY <2>1 DEF Accept, SessionIsUp
<1> QED BY <1>1, <1>2, OutsidePreserves DEF Accept

LEMMA ReaderEndsPreserves == ASSUME IInv, NEW s \in Sockets, ReaderEnds(s) PROVE IInv'
<1>0. /\ link' \in [Sockets -> {"unused", "up", "cut", "shut", "gone"}] /\ link'[s] = "gone"
      /\ \A q \in Sockets \ {s} : link'[q] = link[q]
      /\ inbox' \in [Sockets -> Seq(MessageType)]
  BY DEF ReaderEnds, IInv, TypeOK
<1>1. CASE session = s
  BY <1>0, <1>1, FailPreserves DEF ReaderEnds, IInv, TypeOK
<1>2. CASE session # s
  <2>1. TypeOK' BY <1>0, <1>2 DEF ReaderEnds, IInv, TypeOK, daemon, ext
  <2>2. SessionIsUp' BY <1>0, <1>2 DEF ReaderEnds, IInv, SessionIsUp
  <2> QED BY <1>0, <1>2, <2>1, <2>2, OutsidePreserves DEF ReaderEnds
<1> QED BY <1>1, <1>2

LEMMA HubStopPreserves == ASSUME IInv, HubStop PROVE IInv'
<1>0. /\ link' \in [Sockets -> {"unused", "up", "cut", "shut", "gone"}]
      /\ \A q \in Sockets : link[q] \in {"up", "cut", "shut", "gone"}
                              => link'[q] \in {"shut", "gone"}
  BY DEF HubStop, IInv, TypeOK
<1>1. CASE session # None
  <2>1. session \in Sockets /\ link[session] \in {"up", "cut"} BY <1>1 DEF IInv, SessionIsUp
  <2>2. FailAll(session) BY <1>1 DEF HubStop
  <2> QED BY <1>0, <2>1, <2>2, FailPreserves DEF HubStop, IInv, TypeOK
<1>2. CASE session = None
  <2>1. TypeOK' BY <1>0, <1>2 DEF HubStop, IInv, TypeOK, daemon, ext
  <2>2. SessionIsUp' BY DEF HubStop, SessionIsUp
  <2> QED BY <1>0, <1>2, <2>1, <2>2, OutsidePreserves DEF HubStop
<1> QED BY <1>1, <1>2

LEMMA PutType ==
    ASSUME TypeOK, NEW s \in Sockets, NEW ms \in Seq(MessageType), Put(s, ms)
    PROVE  inbox' \in [Sockets -> Seq(MessageType)]
<1>1. inbox[s] \in Seq(MessageType) BY DEF TypeOK
<1>2. inbox[s] \o ms \in Seq(MessageType) BY <1>1
<1> QED BY <1>2 DEF Put, TypeOK

LEMMA Tuples ==
    ASSUME NEW S, NEW a \in S, NEW b \in S PROVE <<a>> \in Seq(S) /\ <<a, b>> \in Seq(S)
OBVIOUS

LEMMA MessagesType ==
    ASSUME NEW r \in Requests, NEW ok \in BOOLEAN
    PROVE  /\ <<Message("hello", None, 0, TRUE)>> \in Seq(MessageType)
           /\ <<Message("response", r, 0, ok)>> \in Seq(MessageType)
           /\ \A f \in Files : <<Message("begin", r, f, TRUE), Message("end", r, f, TRUE)>>
                                \in Seq(MessageType)
           /\ [i \in 1..(LastChunk + 1) |-> Message("chunk", r, i - 1, ok)] \in Seq(MessageType)
<1> USE DEF Message, MessageType, About
<1>1. /\ Message("hello", None, 0, TRUE) \in MessageType
      /\ Message("response", r, 0, ok) \in MessageType
  OBVIOUS
<1>2. \A f \in Files : /\ Message("begin", r, f, TRUE) \in MessageType
                       /\ Message("end", r, f, TRUE) \in MessageType
  OBVIOUS
<1>3. \A i \in 1..(LastChunk + 1) : Message("chunk", r, i - 1, ok) \in MessageType
  <2> SUFFICES ASSUME NEW i \in 1..2 PROVE Message("chunk", r, i - 1, ok) \in MessageType
    BY DEF LastChunk
  <2>1. i - 1 \in 0..LastChunk BY DEF LastChunk
  <2> QED BY <2>1
<1> HIDE DEF Message, MessageType
<1>4. [i \in 1..(LastChunk + 1) |-> Message("chunk", r, i - 1, ok)]
        \in [1..(LastChunk + 1) -> MessageType]
  BY <1>3
<1>5. LastChunk + 1 \in Nat BY DEF LastChunk
<1>6. [i \in 1..(LastChunk + 1) |-> Message("chunk", r, i - 1, ok)] \in Seq(MessageType)
  BY <1>4, <1>5
<1>7. /\ <<Message("hello", None, 0, TRUE)>> \in Seq(MessageType)
      /\ <<Message("response", r, 0, ok)>> \in Seq(MessageType)
  BY <1>1, Tuples
<1>8. ASSUME NEW f \in Files
      PROVE  <<Message("begin", r, f, TRUE), Message("end", r, f, TRUE)>> \in Seq(MessageType)
  BY <1>2, Tuples
<1> QED BY <1>6, <1>7, <1>8

LEMMA ConnectPreserves == ASSUME IInv, Connect PROVE IInv'
<1>1. PICK s \in Sockets : /\ link[s] = "unused" /\ link' = [link EXCEPT ![s] = "up"]
                           /\ ws' = s /\ Put(s, <<Message("hello", None, 0, TRUE)>>)
  BY DEF Connect
<1>2. inbox' \in [Sockets -> Seq(MessageType)]
  <2>1. <<Message("hello", None, 0, TRUE)>> \in Seq(MessageType)
    BY DEF Message, MessageType
  <2> QED BY <1>1, <2>1, PutType DEF IInv
<1>3. /\ link' \in [Sockets -> {"unused", "up", "cut", "shut", "gone"}]
      /\ \A q \in Sockets : link[q] # "unused" => link'[q] = link[q]
  BY <1>1 DEF IInv, TypeOK
<1>4. TypeOK' BY <1>1, <1>2, <1>3 DEF Connect, IInv, TypeOK, hub, daemon
<1>5. SessionIsUp' BY <1>3 DEF Connect, hub, IInv, SessionIsUp
<1> QED BY <1>3, <1>4, <1>5, OutsidePreserves DEF Connect

LEMMA CutPreserves == ASSUME IInv, NEW s \in Sockets, Cut(s) PROVE IInv'
<1>1. /\ link' \in [Sockets -> {"unused", "up", "cut", "shut", "gone"}]
      /\ link[s] = "up" /\ link'[s] = "cut"
      /\ \A q \in Sockets \ {s} : link'[q] = link[q]
      /\ outbox' \in [Sockets -> SUBSET Requests]
  BY DEF Cut, IInv, TypeOK
<1>2. work' \in [Requests -> [on : Sockets \cup {None}, files : SUBSET Files,
                  at : {"none", "working", "done", "refused", "forgotten"}]]
  <2>1. CASE work' = [r \in Requests |-> [work[r] EXCEPT !.at =
                        IF @ = "working" THEN "forgotten" ELSE @]]
    <3> DEFINE Work == [on : Sockets \cup {None}, files : SUBSET Files,
                        at : {"none", "working", "done", "refused", "forgotten"}]
    <3>1. work \in [Requests -> Work] BY DEF IInv, TypeOK
    <3>2. ASSUME NEW w \in Work
          PROVE  [w EXCEPT !.at = IF @ = "working" THEN "forgotten" ELSE @] \in Work
      OBVIOUS
    <3> HIDE DEF Work
    <3>3. \A r \in Requests :
            [work[r] EXCEPT !.at = IF @ = "working" THEN "forgotten" ELSE @] \in Work
      BY <3>1, <3>2
    <3>4. work' \in [Requests -> Work] BY <2>1, <3>3
    <3> QED BY <3>4 DEF Work
  <2>2. CASE work' = work BY <2>2 DEF IInv, TypeOK
  <2> QED BY <2>1, <2>2 DEF Cut, ext
<1>3. TypeOK'
  <2>1. ws' \in Sockets \cup {None} BY DEF Cut, ext, IInv, TypeOK
  <2>2. TypeOK /\ UNCHANGED <<started, session, ready, inbox, lock, req, pending, answer, event,
                              buffers, completed, chunks, lost>>
    BY DEF Cut, IInv, hub, daemon
  <2> QED BY <1>1, <1>2, <2>1, <2>2 DEF TypeOK
<1>4. SessionIsUp' BY <1>1 DEF Cut, hub, IInv, SessionIsUp
<1> QED BY <1>1, <1>3, <1>4, OutsidePreserves DEF Cut

LEMMA ExtensionPreserves ==
    ASSUME IInv, NEW r \in Requests, Take(r) \/ Emit(r) \/ Reply(r) PROVE IInv'
<1> DEFINE Work == [on : Sockets \cup {None}, files : SUBSET Files,
                    at : {"none", "working", "done", "refused", "forgotten"}]
<1>0. work \in [Requests -> Work] BY DEF IInv, TypeOK
<1>1. /\ UNCHANGED <<hub, link, lock, req, daemon, ws, lost>>
      /\ work' \in [Requests -> Work] /\ inbox' \in [Sockets -> Seq(MessageType)]
      /\ outbox' \in [Sockets -> SUBSET Requests]
  <2>1. CASE Take(r)
    <3>1. PICK s \in Sockets : /\ outbox' = [outbox EXCEPT ![s] = @ \ {r}]
                               /\ IF s = ws /\ link[s] = "up"
                                  THEN work' = [work EXCEPT ![r] =
                                         [on |-> s, at |-> "working", files |-> {}]]
                                  ELSE UNCHANGED work
      BY <2>1 DEF Take
    <3>2. [on |-> s, at |-> "working", files |-> {}] \in Work OBVIOUS
    <3>3. work' \in [Requests -> Work] BY <1>0, <3>1, <3>2
    <3> QED BY <2>1, <3>1, <3>3 DEF Take, IInv, TypeOK
  <2>2. CASE Emit(r)
    <3>1. PICK f \in Files :
            /\ work' = [work EXCEPT ![r].files = @ \cup {f}]
            /\ Put(ws, <<Message("begin", r, f, TRUE), Message("end", r, f, TRUE)>>)
      BY <2>2 DEF Emit
    <3>2. ws \in Sockets BY <2>2 DEF Emit, IsOpen, IInv, TypeOK
    <3>3. inbox' \in [Sockets -> Seq(MessageType)]
      BY <3>1, <3>2, PutType, MessagesType DEF IInv
    <3>4. [work[r] EXCEPT !.files = @ \cup {f}] \in Work BY <1>0
    <3>5. work' \in [Requests -> Work] BY <1>0, <3>1, <3>4
    <3> QED BY <2>2, <3>3, <3>5 DEF Emit, IInv, TypeOK
  <2>3. CASE Reply(r)
    <3> DEFINE s == work[r].on
    <3>1. PICK ok \in BOOLEAN :
            /\ work' = [work EXCEPT ![r].at = IF ok THEN "done" ELSE "refused"]
            /\ IF s = ws /\ IsOpen(s)
               THEN \/ Put(s, <<Message("response", r, 0, ok)>>)
                    \/ Put(s, [i \in 1..(LastChunk + 1) |-> Message("chunk", r, i - 1, ok)])
               ELSE UNCHANGED inbox
      BY <2>3 DEF Reply
    <3>2. inbox' \in [Sockets -> Seq(MessageType)]
      <4>1. CASE s = ws /\ IsOpen(s)
        <5>1. s \in Sockets BY <4>1 DEF IsOpen, IInv, TypeOK
        <5> HIDE DEF s
        <5> QED BY <3>1, <4>1, <5>1, PutType, MessagesType DEF IInv
      <4>2. CASE ~(s = ws /\ IsOpen(s)) BY <3>1, <4>2 DEF IInv, TypeOK
      <4> QED BY <4>1, <4>2
    <3>3. [work[r] EXCEPT !.at = IF ok THEN "done" ELSE "refused"] \in Work BY <1>0
    <3>4. work' \in [Requests -> Work] BY <1>0, <3>1, <3>3
    <3> QED BY <2>3, <3>2, <3>4 DEF Reply, IInv, TypeOK
  <2> QED BY <2>1, <2>2, <2>3
<1>2. TypeOK' BY <1>1 DEF IInv, TypeOK, hub, daemon
<1>3. SessionIsUp' BY <1>1 DEF IInv, SessionIsUp, hub
<1> QED BY <1>1, <1>2, <1>3, OutsidePreserves

-----------------------------------------------------------------------------
(* What the session reads.                                                   *)
LEMMA ReadPreserves == ASSUME IInv, NEW s \in Sockets, Read(s) PROVE IInv'
<1> DEFINE m == Head(inbox[s])
<1>1. /\ inbox' \in [Sockets -> Seq(MessageType)] /\ m \in MessageType
      /\ m.type # "hello"
      /\ UNCHANGED <<hub, link, outbox, lock, req, ext, lost>>
  BY TailType DEF Read, IInv
<1>2. m.r \in Requests /\ m.ok \in BOOLEAN /\ m.type \in {"response", "chunk", "begin", "end"}
      /\ (m.type \in {"begin", "end"} => m.n \in Files)
      /\ (m.type = "chunk" => m.n \in 0..LastChunk)
  BY <1>1 DEF MessageType, About
<1>3. \/ UNCHANGED daemon
      \/ m.type = "response" /\ OnResponse(m)
      \/ m.type = "chunk" /\ OnChunk(m)
      \/ m.type = "begin" /\ OnBegin(m)
      \/ m.type = "end" /\ OnEnd(m)
  BY DEF Read
<1> HIDE DEF m
(* Whatever the message, only a request in the table is touched.             *)
<1>4. /\ UNCHANGED pending
      /\ answer' \in [Requests -> {"open", "yes", "no", "error"}]
      /\ event' \in [Requests -> BOOLEAN]
      /\ chunks' \in [Requests -> SUBSET (0..LastChunk)]
      /\ buffers' \subseteq Requests \X Files /\ completed' \subseteq Requests \X Files
      /\ \A q \in Requests : /\ answer[q] # "open" => answer'[q] # "open"
                             /\ q \notin pending /\ event[q] => event'[q]
      /\ \A q \in Requests \ pending : Unmentioned(q)'
  <2>0. /\ TypeOK /\ pending \subseteq Requests
        /\ \A q \in Requests \ pending : Unmentioned(q)
    BY DEF IInv, TypeOK, TablesMatch
  <2>1. CASE UNCHANGED daemon BY <2>0, <2>1 DEF TypeOK, daemon, Unmentioned
  <2>2. CASE OnResponse(m)
    BY <1>2, <2>0, <2>2 DEF OnResponse, Awaited, Resolve, TypeOK, Unmentioned
  <2>3. CASE m.type = "chunk" /\ OnChunk(m)
    <3>1. UNCHANGED <<pending, event, buffers, completed>> BY <2>3 DEF OnChunk
    <3> DEFINE have == chunks[m.r] \cup {m.n}
    <3>a. \/ chunks' = [chunks EXCEPT ![m.r] = {}]
          \/ m.r \in pending /\ chunks' = [chunks EXCEPT ![m.r] = have]
      BY <2>3 DEF OnChunk, Awaited
    <3>b. have \in SUBSET (0..LastChunk) BY <1>2, <2>0, <2>3 DEF TypeOK
    <3> HIDE DEF have
    <3>2. PICK c \in SUBSET (0..LastChunk) :
            /\ chunks' = [chunks EXCEPT ![m.r] = c] /\ (m.r \notin pending => c = {})
      BY <3>a, <3>b
    <3>3. UNCHANGED answer \/ \E a \in {"yes", "no", "error"} : answer' = [answer EXCEPT ![m.r] = a]
      BY <1>2, <2>3 DEF OnChunk, Resolve
    <3>4. /\ answer' \in [Requests -> {"open", "yes", "no", "error"}]
          /\ \A q \in Requests : answer[q] # "open" => answer'[q] # "open"
      <4>0. answer \in [Requests -> {"open", "yes", "no", "error"}] BY <2>0 DEF TypeOK
      <4>1. CASE UNCHANGED answer BY <4>0, <4>1
      <4>2. ASSUME NEW a \in {"yes", "no", "error"}, answer' = [answer EXCEPT ![m.r] = a]
            PROVE  /\ answer' \in [Requests -> {"open", "yes", "no", "error"}]
                   /\ \A q \in Requests : answer[q] # "open" => answer'[q] # "open"
        BY <4>0, <4>2, <1>2
      <4> QED BY <3>3, <4>1, <4>2
    <3>5. /\ chunks' \in [Requests -> SUBSET (0..LastChunk)]
          /\ \A q \in Requests \ pending : Unmentioned(q)'
      BY <1>2, <2>0, <3>1, <3>2 DEF TypeOK, Unmentioned
    <3> QED BY <2>0, <3>1, <3>4, <3>5 DEF TypeOK
  <2>4. CASE m.type = "begin" /\ OnBegin(m)
    <3>1. <<m.r, m.n>> \in Requests \X Files BY <1>2, <2>4
    <3>2. \A q \in Requests, f \in Files : <<q, f>> = <<m.r, m.n>> => q = m.r OBVIOUS
    <3>3. /\ UNCHANGED <<pending, answer, completed, chunks>>
          /\ buffers' \subseteq buffers \cup {<<m.r, m.n>>}
          /\ m.r \notin pending => UNCHANGED <<buffers, event>>
      BY <2>4 DEF OnBegin
    <3>4. /\ event' \in [Requests -> BOOLEAN]
          /\ \A q \in Requests \ {m.r} : event'[q] = event[q]
      BY <1>2, <2>0, <2>4 DEF OnBegin, TypeOK
    <3>5. \A q \in Requests \ pending : Unmentioned(q)'
      BY <2>0, <3>2, <3>3 DEF Unmentioned
    <3> QED BY <2>0, <3>1, <3>3, <3>4, <3>5 DEF TypeOK
  <2>5. CASE m.type = "end" /\ OnEnd(m)
    <3>1. <<m.r, m.n>> \in Requests \X Files BY <1>2, <2>5
    <3>2. \A q \in Requests, f \in Files : <<q, f>> = <<m.r, m.n>> => q = m.r OBVIOUS
    <3>3. <<m.r, m.n>> \in buffers => m.r \in pending BY <1>2, <2>0, <2>5 DEF Unmentioned
    <3>4. event' \in [Requests -> BOOLEAN] /\ \A q \in Requests : event[q] => event'[q]
      BY <1>2, <2>0, <2>5 DEF OnEnd, TypeOK
    <3>5. UNCHANGED <<pending, answer, chunks>> BY <2>5 DEF OnEnd
    <3>6. /\ buffers' \subseteq buffers
          /\ completed' \subseteq completed \cup {<<m.r, m.n>>}
          /\ m.r \notin pending => completed' = completed
      BY <2>5, <3>3 DEF OnEnd
    <3>7. \A q \in Requests \ pending : Unmentioned(q)'
      BY <2>0, <3>2, <3>5, <3>6 DEF Unmentioned
    <3> QED BY <2>0, <3>1, <3>4, <3>5, <3>6, <3>7 DEF TypeOK
  <2> QED BY <1>3, <2>1, <2>2, <2>3, <2>4, <2>5
<1>5. TypeOK' BY <1>1, <1>4 DEF IInv, TypeOK, hub, ext
<1>6. Placed' BY <1>1 DEF IInv, Placed
<1>7. SessionIsUp' BY <1>1 DEF IInv, SessionIsUp, hub
<1>8. LostIsClosed' BY <1>1 DEF IInv, LostIsClosed
<1>9. LostIsWoken'
  <2>1. lost \subseteq Requests /\ lost \cap pending = {} BY DEF IInv, TypeOK, TablesMatch
  <2> QED BY <1>1, <1>4, <2>1 DEF IInv, LostIsWoken
<1>10. TablesMatch' BY <1>1, <1>4 DEF IInv, TablesMatch, Exchanging
<1> QED BY <1>5, <1>6, <1>7, <1>8, <1>9, <1>10 DEF IInv

-----------------------------------------------------------------------------
LEMMA StepIInv == IInv /\ [Next]_vars => IInv'
<1> SUFFICES ASSUME IInv, [Next]_vars PROVE IInv' OBVIOUS
<1>1. ASSUME NEW r \in Requests, Send(r) PROVE IInv' BY <1>1, SendPreserves
<1>2. ASSUME NEW r \in Requests, Request(r) PROVE IInv'
  BY <1>2, GetLockPreserves, SentPreserves, AnsweredPreserves, EndsPreserve DEF Request
<1>3. ASSUME NEW r \in Requests, Timeout(r) \/ Cancel(r) PROVE IInv' BY <1>3, EndsPreserve
<1>4. ASSUME NEW r \in Requests, Take(r) \/ Emit(r) \/ Reply(r) PROVE IInv'
  BY <1>4, ExtensionPreserves
<1>5. ASSUME NEW s \in Sockets, Accept(s) \/ Read(s) \/ ReaderEnds(s) \/ Cut(s) PROVE IInv'
  BY <1>5, AcceptPreserves, ReadPreserves, ReaderEndsPreserves, CutPreserves
<1>6. CASE Connect BY <1>6, ConnectPreserves
<1>7. CASE HubStop BY <1>7, HubStopPreserves
<1>8. CASE UNCHANGED vars
  <2>1. UNCHANGED <<req, daemon, lost, link, hub, inbox, outbox, lock, ext>> BY <1>8 DEF vars
  <2>2. TypeOK' BY <2>1 DEF IInv, TypeOK, hub, daemon, ext
  <2>3. SessionIsUp' BY <2>1 DEF IInv, SessionIsUp, hub
  <2> QED BY <2>1, <2>2, <2>3, OutsidePreserves
<1> QED BY <1>1, <1>2, <1>3, <1>4, <1>5, <1>6, <1>7, <1>8 DEF Next

(* Types, the installed session, what a failed session leaves and the        *)
(* tables are together inductive.                                            *)
THEOREM Invariance == Spec => []IInv
<1> QED BY InitIInv, StepIInv, PTL DEF Spec

(* The hub hands out exactly the session that is installed, and none of the  *)
(* requests under way on it have been failed: neither the end of an older    *)
(* connection nor a stop leaves a dead session behind.                       *)
THEOREM SessionIsAlive == Spec => []ReadyMeansSession
<1>1. IInv => ReadyMeansSession
  <2> SUFFICES ASSUME IInv PROVE ReadyMeansSession OBVIOUS
  <2>1. session # None => On(session) \cap lost = {}
    BY DEF IInv, SessionIsUp, LostIsClosed, On
  <2> QED BY <2>1 DEF IInv, SessionIsUp, ReadyMeansSession
<1> QED BY <1>1, Invariance, PTL

(* No table mentions a request that is over or whose session has failed,     *)
(* however late its chunks and artifacts arrive.                             *)
THEOREM NothingIsLeftBehind == Spec => []NothingLeftBehind
<1>1. IInv => NothingLeftBehind
  BY DEF IInv, TypeOK, TablesMatch, Exchanging, Unmentioned, NothingLeftBehind
<1> QED BY <1>1, Invariance, PTL

(* A request whose session fails while it is queued, sending, waiting or     *)
(* collecting can go on at once, without the help of a timer.                *)
THEOREM NobodyIsForgotten == Spec => []NobodyWaitsInVain
<1>1. IInv => NobodyWaitsInVain
  <2> SUFFICES ASSUME IInv, NEW r \in lost, req[r].at \in UnderWay PROVE Released(r)
    BY DEF NobodyWaitsInVain
  <2>1. CASE req[r].at = "queued" BY <2>1 DEF IInv, LostIsClosed, Released
  <2>2. CASE req[r].at \in {"sending", "waiting"} BY <2>2 DEF IInv, LostIsWoken, Released
  <2>3. CASE req[r].at = "collecting" BY <2>3 DEF IInv, LostIsWoken, Released
  <2> QED BY <2>1, <2>2, <2>3
<1> QED BY <1>1, Invariance, PTL

-----------------------------------------------------------------------------
(* What the extension says arrives in order.  That a successful request has  *)
(* all its artifacts is a matter of both sides: what the extension has done  *)
(* for a request is in the tables, or on its way and before the answer.      *)
Begin(r, f) == Message("begin", r, f, TRUE)
End(r, f) == Message("end", r, f, TRUE)
Answers(m) == m.type \in {"response", "chunk"}

(* The extension works on a request that was sent, on the socket it came on. *)
WorkFollows ==
    \A r \in Requests :
        /\ \A s \in Sockets : r \in outbox[s] =>
               work[r].at = "none" /\ req[r].on = s /\ req[r].at \notin {"idle", "queued"}
        /\ IF work[r].at = "none" THEN work[r].files = {}
           ELSE /\ work[r].on \in Sockets /\ link[work[r].on] # "unused"
                /\ work[r].on = req[r].on /\ req[r].at \notin {"idle", "queued"}

(* What it said is what it has done. *)
WordsMatchWork ==
    /\ \A s \in Sockets : \A k \in DOMAIN inbox[s] :
         LET m == inbox[s][k]
         IN  m.type = "hello" \/ IF Answers(m)
                                 THEN work[m.r].at = IF m.ok THEN "done" ELSE "refused"
                                 ELSE m.n \in work[m.r].files
    /\ \A r \in Requests, f \in Files :
         <<r, f>> \in buffers \cup completed => f \in work[r].files

(* The artifact f of r is complete when the messages before the k-th of q    *)
(* have been read.                                                           *)
Coming(q, begun, ended, r, f, k) ==
    \/ <<r, f>> \in ended
    \/ \E j \in 1..(k - 1) :
         /\ q[j] = End(r, f)
         /\ <<r, f>> \in begun \/ \E i \in 1..(j - 1) : q[i] = Begin(r, f)

AllComing(r, k) ==
    \A f \in work[r].files : Coming(inbox[req[r].on], buffers, completed, r, f, k)

Reporting(r) == work[r].at = "working" /\ ws = work[r].on /\ link[ws] = "up"

(* The artifacts come before the answer, and none goes astray as long as the *)
(* extension can still answer.                                               *)
ComingFirst(r) ==
    LET q == inbox[req[r].on]
    IN  /\ \A k \in DOMAIN q : Answers(q[k]) /\ q[k].r = r => AllComing(r, k)
        /\ Reporting(r) => AllComing(r, Len(q) + 1)
        /\ answer[r] = "yes" => work[r].at = "done" /\ \A f \in work[r].files : <<r, f>> \in completed

Delivery ==
    /\ WorkFollows /\ WordsMatchWork /\ ArtifactsComplete
    /\ \A r \in pending : ComingFirst(r)

LEMMA InitDelivery == Init => Delivery
<1> SUFFICES ASSUME Init PROVE Delivery OBVIOUS
<1>1. WorkFollows BY DEF Init, WorkFollows, Free
<1>2. WordsMatchWork BY DEF Init, WordsMatchWork
<1>3. ArtifactsComplete BY DEF Init, ArtifactsComplete, Idle
<1> QED BY <1>1, <1>2, <1>3 DEF Init, Delivery

LEMMA PendingPlaced ==
    ASSUME IInv, NEW r \in pending
    PROVE  /\ r \in Requests \ lost /\ req[r].on \in Sockets
           /\ req[r].at \in {"sending", "waiting", "collecting"}
BY DEF IInv, TablesMatch, Exchanging, Placed

(* A step of the daemon that reads nothing and sends nothing: requests go on *)
(* or leave the table, connections end.                                      *)
LEMMA QuietStep ==
    ASSUME IInv, IInv', Delivery, ArtifactsComplete', UNCHANGED <<work, ws>>,
           \A s \in Sockets : /\ link'[s] = "up" => link[s] = "up"
                              /\ link[s] # "unused" => link'[s] # "unused"
                              /\ outbox'[s] \subseteq outbox[s]
                              /\ inbox'[s] = inbox[s] \/ (inbox'[s] = << >> /\ link'[s] # "up"),
           \A r \in Requests : req[r].at \notin {"idle", "queued"} =>
               req'[r].on = req[r].on /\ req'[r].at \notin {"idle", "queued"},
           pending' \subseteq pending,
           buffers' \subseteq buffers, completed' \subseteq completed,
           \A r \in pending' : /\ answer'[r] = answer[r]
                               /\ \A f \in Files : /\ <<r, f>> \in buffers => <<r, f>> \in buffers'
                                                   /\ <<r, f>> \in completed => <<r, f>> \in completed'
    PROVE  Delivery'
<1>1. WorkFollows' BY DEF Delivery, WorkFollows
<1>2. WordsMatchWork'
  <2>1. \A s \in Sockets : \A k \in DOMAIN inbox'[s] : k \in DOMAIN inbox[s] /\ inbox'[s][k] = inbox[s][k]
    OBVIOUS
  <2> QED BY <2>1 DEF Delivery, WordsMatchWork
<1>3. ASSUME NEW r \in pending' PROVE ComingFirst(r)'
  <2>1. r \in pending /\ r \in Requests /\ req[r].on \in Sockets /\ req'[r].on = req[r].on
    BY <1>3, PendingPlaced
  <2> DEFINE s == req[r].on
  <2>2. s \in Sockets BY <2>1
  <2> HIDE DEF s
  <2>3. ComingFirst(r) BY <2>1 DEF Delivery
  <2>4. work[r].files \subseteq Files BY <2>1 DEF IInv, TypeOK
  <2>5. ASSUME NEW f \in work[r].files, NEW k, Coming(inbox[s], buffers, completed, r, f, k),
               inbox'[s] = inbox[s]
        PROVE  Coming(inbox'[s], buffers', completed', r, f, k)
    BY <1>3, <2>4, <2>5 DEF Coming
  <2>6. ASSUME NEW k \in DOMAIN inbox'[s], Answers(inbox'[s][k]) /\ inbox'[s][k].r = r
        PROVE  AllComing(r, k)'
    <3>1. inbox'[s] = inbox[s] BY <2>2, <2>6
    <3>2. AllComing(r, k) BY <2>3, <2>6, <3>1 DEF ComingFirst, s
    <3> QED BY <2>1, <2>5, <3>1, <3>2 DEF AllComing, s
  <2>7. ASSUME Reporting(r)' PROVE AllComing(r, Len(inbox[req[r].on]) + 1)'
    <3>1. work[r].on = s BY <2>1, <2>7 DEF Reporting, Delivery, WorkFollows, s
    <3>2. Reporting(r) /\ inbox'[s] = inbox[s] BY <2>2, <2>7, <3>1 DEF Reporting
    <3>3. AllComing(r, Len(inbox[s]) + 1) BY <2>3, <3>2 DEF ComingFirst, s
    <3> QED BY <2>1, <2>5, <3>2, <3>3 DEF AllComing, s
  <2>8. answer'[r] = "yes" => work[r].at = "done" /\ \A f \in work[r].files : <<r, f>> \in completed'
    BY <1>3, <2>3, <2>4 DEF ComingFirst
  <2> QED BY <2>1, <2>6, <2>7, <2>8 DEF ComingFirst, s
<1> QED BY <1>1, <1>2, <1>3 DEF Delivery

LEMMA CompleteStays ==
    ASSUME ArtifactsComplete, UNCHANGED work, lost \subseteq lost',
           \A r \in Requests : req'[r].at = "ok" => req'[r] = req[r]
    PROVE  ArtifactsComplete'
BY DEF ArtifactsComplete

LEMMA LeaveDelivers ==
    ASSUME IInv, IInv', Delivery, NEW r \in Requests, req[r].at \in UnderWay, NEW outcome \in Over,
           outcome = "ok" => req[r].at = "collecting" /\ answer[r] = "yes",
           Leave(r, outcome)
    PROVE  Delivery'
<1> USE DEF Leave, Discard
<1>0. UNCHANGED <<hub, link, inbox, outbox, work, ws, lost>> BY DEF ext
<1> DEFINE left == [at |-> outcome, on |-> req[r].on,
                    got |-> IF outcome = "ok" THEN {f \in Files : <<r, f>> \in completed} ELSE {}]
<1>a. req' = [req EXCEPT ![r] = left] /\ r \in DOMAIN req BY DEF IInv, TypeOK
<1>b. left.at = outcome /\ left.on = req[r].on
      /\ (outcome = "ok" => left.got = {f \in Files : <<r, f>> \in completed}) OBVIOUS
<1> HIDE DEF left
<1>1. /\ req'[r] = left
      /\ \A q \in Requests \ {r} : req'[q] = req[q]
  BY <1>a DEF IInv, TypeOK
<1>2. ArtifactsComplete'
  <2> SUFFICES ASSUME NEW q \in Requests, req'[q].at = "ok", q \notin lost
               PROVE  work[q].at = "done" /\ req'[q].got = work[q].files
    BY <1>0 DEF ArtifactsComplete
  <2>1. CASE q # r BY <1>1, <2>1 DEF Delivery, ArtifactsComplete
  <2>2. CASE q = r
    <3>1. outcome = "ok" BY <1>b, <1>1, <2>2
    <3>2. r \in pending BY <2>2, <3>1 DEF IInv, TablesMatch, Exchanging
    <3>3. work[r].at = "done" /\ \A f \in work[r].files : <<r, f>> \in completed
      BY <3>1, <3>2 DEF Delivery, ComingFirst
    <3>4. work[r].files \subseteq Files BY DEF IInv, TypeOK
    <3>5. \A f \in Files : <<r, f>> \in completed => f \in work[r].files
      BY DEF Delivery, WordsMatchWork
    <3>6. left.got = {f \in Files : <<r, f>> \in completed} BY <1>b, <3>1
    <3> QED BY <1>1, <2>2, <3>3, <3>4, <3>5, <3>6
  <2> QED BY <2>1, <2>2
<1>3. \A q \in Requests : req[q].at \notin {"idle", "queued"} =>
               req'[q].on = req[q].on /\ req'[q].at \notin {"idle", "queued"}
  BY <1>b, <1>1
<1>4. ASSUME NEW q \in pending'
      PROVE  /\ answer'[q] = answer[q]
             /\ \A f \in Files : /\ <<q, f>> \in buffers => <<q, f>> \in buffers'
                                 /\ <<q, f>> \in completed => <<q, f>> \in completed'
  <2>1. q \in Requests /\ q # r BY PendingPlaced
  <2>2. \A f \in Files : <<q, f>>[1] = q OBVIOUS
  <2> QED BY <2>1, <2>2 DEF IInv, TypeOK
<1> QED BY <1>0, <1>2, <1>3, <1>4, QuietStep DEF Discard

LEMMA FailDelivers ==
    ASSUME IInv, IInv', Delivery, NEW s, FailAll(s), UNCHANGED <<outbox, lock, req, ext>>,
           \A q \in Sockets : /\ link'[q] = "up" => link[q] = "up"
                              /\ link[q] # "unused" => link'[q] # "unused"
                              /\ inbox'[q] = inbox[q] \/ (inbox'[q] = << >> /\ link'[q] # "up")
    PROVE  Delivery'
<1> USE DEF FailAll
<1>1. ArtifactsComplete' BY CompleteStays DEF Delivery, ext
<1>2. ASSUME NEW q \in pending'
      PROVE  /\ answer'[q] = answer[q]
             /\ \A f \in Files : /\ <<q, f>> \in buffers => <<q, f>> \in buffers'
                                 /\ <<q, f>> \in completed => <<q, f>> \in completed'
  <2>1. q \in Requests /\ q \notin On(s) \cap pending BY PendingPlaced
  <2>2. \A f \in Files : <<q, f>>[1] = q OBVIOUS
  <2> QED BY <2>1, <2>2
<1> QED BY <1>1, <1>2, QuietStep DEF ext

(* A request queues for the lock, is on its way, or waits for artifacts. *)
LEMMA GoesOnDelivers ==
    ASSUME IInv, IInv', Delivery, NEW r \in Requests, req[r].at \notin Over,
           req'[r].at \notin Over,
           req[r].at \notin {"idle", "queued"} =>
               req'[r].on = req[r].on /\ req'[r].at \notin {"idle", "queued"},
           \A q \in Requests \ {r} : req'[q] = req[q],
           UNCHANGED <<hub, link, inbox, outbox, daemon, ext, lost>>
    PROVE  Delivery'
<1>1. ArtifactsComplete' BY CompleteStays DEF Delivery, ext
<1> QED BY <1>1, QuietStep DEF hub, daemon, ext

(* A request is written to its socket: nothing has been said about it yet. *)
LEMMA TransmitDelivers ==
    ASSUME IInv, IInv', Delivery, NEW r \in Requests, NEW s \in Sockets, Transmit(r, s),
           req[r].at \in {"idle", "queued"}
    PROVE  Delivery'
<1> USE DEF Transmit
<1>0. UNCHANGED <<link, inbox, work, ws, buffers, completed, lost>> BY DEF ext
<1> DEFINE sending == [at |-> "sending", on |-> s, got |-> {}]
<1>a. req' = [req EXCEPT ![r] = sending] OBVIOUS
<1>b. sending.at = "sending" /\ sending.on = s OBVIOUS
<1> HIDE DEF sending
<1>1. /\ req'[r].at = "sending" /\ req'[r].on = s
      /\ \A q \in Requests \ {r} : req'[q] = req[q]
  BY <1>a, <1>b DEF IInv, TypeOK
<1>2. work[r].at = "none" /\ work[r].files = {} /\ \A q \in Sockets : r \notin outbox[q]
  BY DEF Delivery, WorkFollows
<1>3. /\ \A q \in Sockets \ {s} : outbox'[q] = outbox[q]
      /\ outbox'[s] \subseteq outbox[s] \cup {r}
  BY DEF IInv, TypeOK
<1>4. WorkFollows'
  <2>1. ASSUME NEW q \in Requests, NEW t \in Sockets, q \in outbox'[t]
        PROVE  work[q].at = "none" /\ req'[q].on = t /\ req'[q].at \notin {"idle", "queued"}
    <3>1. CASE q = r BY <1>1, <1>2, <1>3, <2>1, <3>1
    <3>2. CASE q # r BY <1>1, <1>3, <2>1, <3>2 DEF Delivery, WorkFollows
    <3> QED BY <3>1, <3>2
  <2>2. ASSUME NEW q \in Requests
        PROVE  IF work[q].at = "none" THEN work[q].files = {}
               ELSE /\ work[q].on \in Sockets /\ link[work[q].on] # "unused"
                    /\ work[q].on = req'[q].on /\ req'[q].at \notin {"idle", "queued"}
    <3>1. CASE q = r BY <1>2, <3>1
    <3>2. CASE q # r BY <1>1, <3>2 DEF Delivery, WorkFollows
    <3> QED BY <3>1, <3>2
  <2> QED BY <1>0, <2>1, <2>2 DEF WorkFollows
<1>5. WordsMatchWork' BY <1>0 DEF Delivery, WordsMatchWork
<1>6. ArtifactsComplete' BY <1>0, <1>1, CompleteStays DEF Delivery
<1>7. ASSUME NEW q \in pending' PROVE ComingFirst(q)'
  <2>1. CASE q = r
    <3>1. ~Reporting(r)' /\ answer'[r] # "yes"
      BY <1>0, <1>2 DEF Reporting, IInv, TypeOK
    <3> QED BY <1>0, <1>2, <2>1, <3>1 DEF ComingFirst, AllComing
  <2>2. CASE q # r
    <3>1. q \in pending /\ q \in Requests BY <2>2, PendingPlaced DEF IInv, TypeOK
    <3>2. req'[q] = req[q] /\ answer'[q] = answer[q] BY <1>1, <2>2, <3>1 DEF IInv, TypeOK
    <3>3. ComingFirst(q) BY <3>1 DEF Delivery
    <3> QED BY <1>0, <3>2, <3>3 DEF ComingFirst, AllComing, Reporting
  <2> QED BY <2>1, <2>2
<1> QED BY <1>4, <1>5, <1>6, <1>7 DEF Delivery

(* The daemon reads the first message of a connection. *)
Hears(s, m) ==
    /\ inbox[s] # << >> /\ m = Head(inbox[s])
    /\ inbox' = [inbox EXCEPT ![s] = Tail(@)]
    /\ UNCHANGED <<link, outbox, req, pending, lost, work, ws>>
    /\ buffers' \subseteq buffers \cup {<<m.r, m.n>> : x \in {m.type} \cap {"begin"}}
    /\ completed' \subseteq completed \cup buffers
    /\ completed \subseteq completed' /\ buffers \subseteq buffers' \cup completed'
    /\ \A r \in pending : req[r].on = s => \A f \in Files :
          /\ m = Begin(r, f) => <<r, f>> \in buffers'
          /\ m = End(r, f) /\ <<r, f>> \in buffers => <<r, f>> \in completed'
    /\ \A r \in pending : answer'[r] # answer[r] =>
          /\ req[r].on = s
          /\ answer'[r] = "yes" => Answers(m) /\ m.r = r /\ m.ok

LEMMA ReadsDeliver ==
    ASSUME IInv, IInv', Delivery, NEW s \in Sockets, NEW m, Hears(s, m)
    PROVE  Delivery'
<1> SUFFICES ASSUME
           inbox[s] # << >>,
           inbox' = [inbox EXCEPT ![s] = Tail(@)],
           UNCHANGED <<link, outbox, req, pending, lost, work, ws>>,
           m = Head(inbox[s]),
           buffers' \subseteq buffers \cup {<<m.r, m.n>> : x \in {m.type} \cap {"begin"}},
           completed' \subseteq completed \cup buffers,
           completed \subseteq completed', buffers \subseteq buffers' \cup completed',
           \A r \in pending : req[r].on = s => \A f \in Files :
               /\ m = Begin(r, f) => <<r, f>> \in buffers'
               /\ m = End(r, f) /\ <<r, f>> \in buffers => <<r, f>> \in completed',
           \A r \in pending : answer'[r] # answer[r] =>
               /\ req[r].on = s
               /\ answer'[r] = "yes" => Answers(m) /\ m.r = r /\ m.ok
             PROVE Delivery'
  BY DEF Hears
<1>0. inbox[s] \in Seq(MessageType) BY DEF IInv, TypeOK
<1>1. /\ m = inbox[s][1] /\ 1 \in DOMAIN inbox[s] /\ m \in MessageType
      /\ Len(inbox'[s]) = Len(inbox[s]) - 1 /\ Len(inbox[s]) \in Nat
      /\ DOMAIN inbox'[s] = 1..Len(inbox'[s]) /\ DOMAIN inbox[s] = 1..Len(inbox[s])
      /\ \A k \in 1..Len(inbox'[s]) : inbox'[s][k] = inbox[s][k + 1]
      /\ \A q \in Sockets \ {s} : inbox'[q] = inbox[q]
  BY <1>0 DEF IInv, TypeOK
<1>2. WorkFollows' BY DEF Delivery, WorkFollows
<1>3. WordsMatchWork'
  <2>1. ASSUME NEW q \in Sockets, NEW k \in DOMAIN inbox'[q]
        PROVE  \E i \in DOMAIN inbox[q] : inbox'[q][k] = inbox[q][i]
    <3>1. CASE q = s
      <4>1. k + 1 \in DOMAIN inbox[s] /\ inbox'[s][k] = inbox[s][k + 1] BY <1>1, <2>1, <3>1
      <4> QED BY <3>1, <4>1
    <3>2. CASE q # s BY <1>1, <2>1, <3>2
    <3> QED BY <3>1, <3>2
  <2>2. m.type = "begin" => m.n \in work[m.r].files BY <1>1 DEF Delivery, WordsMatchWork, Answers
  <2>3. ASSUME NEW r \in Requests, NEW f \in Files, <<r, f>> \in buffers' \cup completed'
        PROVE  f \in work[r].files
    <3>1. <<r, f>> \in buffers \cup completed \/ (m.type = "begin" /\ <<r, f>> = <<m.r, m.n>>)
      BY <2>3
    <3> QED BY <2>2, <3>1 DEF Delivery, WordsMatchWork
  <2> QED BY <2>1, <2>3 DEF Delivery, WordsMatchWork
<1>4. ArtifactsComplete' BY CompleteStays DEF Delivery
<1>5. ASSUME NEW r \in pending' PROVE ComingFirst(r)'
  <2>1. r \in pending /\ r \in Requests /\ req[r].on \in Sockets BY <1>5, PendingPlaced
  <2>2. ComingFirst(r) BY <2>1 DEF Delivery
  <2>3. work[r].files \subseteq Files BY <2>1 DEF IInv, TypeOK
  <2>4. CASE req[r].on # s
    <3>1. inbox'[req[r].on] = inbox[req[r].on] /\ answer'[r] = answer[r] BY <1>1, <2>1, <2>4
    <3>2. ASSUME NEW k, AllComing(r, k) PROVE AllComing(r, k)'
      <4>1. ASSUME NEW f \in work[r].files,
                   Coming(inbox[req[r].on], buffers, completed, r, f, k)
            PROVE  Coming(inbox'[req[r].on], buffers', completed', r, f, k)
        BY <3>1, <4>1 DEF Coming
      <4> QED BY <3>2, <4>1 DEF AllComing
    <3>3. Reporting(r)' => Reporting(r) BY DEF Reporting
    <3>4. answer'[r] = "yes" => work[r].at = "done" /\ \A f \in work[r].files : <<r, f>> \in completed'
      BY <2>2, <3>1 DEF ComingFirst
    <3>5. \A k \in DOMAIN inbox'[req[r].on] :
            Answers(inbox'[req[r].on][k]) /\ inbox'[req[r].on][k].r = r => AllComing(r, k)'
      BY <2>2, <3>1, <3>2 DEF ComingFirst
    <3>6. Reporting(r)' => AllComing(r, Len(inbox[req[r].on]) + 1)'
      BY <2>2, <3>1, <3>2, <3>3 DEF ComingFirst
    <3> QED BY <3>4, <3>5, <3>6 DEF ComingFirst
  <2>5. CASE req[r].on = s
    <3>1. ASSUME NEW k \in 2..(Len(inbox[s]) + 1), AllComing(r, k) PROVE AllComing(r, k - 1)'
      <4> SUFFICES ASSUME NEW f \in work[r].files,
                          Coming(inbox[s], buffers, completed, r, f, k)
                   PROVE  Coming(inbox'[s], buffers', completed', r, f, k - 1)
        BY <2>5, <3>1 DEF AllComing
      <4>1. CASE <<r, f>> \in completed BY <4>1 DEF Coming
      <4>2. ASSUME NEW j \in 1..(k - 1), inbox[s][j] = End(r, f),
                   <<r, f>> \in buffers \/ \E i \in 1..(j - 1) : inbox[s][i] = Begin(r, f),
                   <<r, f>> \notin completed'
            PROVE  Coming(inbox'[s], buffers', completed', r, f, k - 1)
        <5>1. j # 1 BY <1>1, <2>1, <2>3, <2>5, <4>2
        <5>2. j - 1 \in 1..(k - 2) /\ inbox'[s][j - 1] = End(r, f)
          <6>1. j - 1 \in 1..Len(inbox'[s]) BY <1>1, <3>1, <4>2, <5>1
          <6> QED BY <1>1, <3>1, <4>2, <5>1, <6>1
        <5>3. <<r, f>> \in buffers' \/ \E i \in 1..(j - 2) : inbox'[s][i] = Begin(r, f)
          <6>1. CASE <<r, f>> \in buffers BY <4>2, <6>1
          <6>2. ASSUME NEW i \in 1..(j - 1), inbox[s][i] = Begin(r, f)
                PROVE  <<r, f>> \in buffers' \/ \E h \in 1..(j - 2) : inbox'[s][h] = Begin(r, f)
            <7>1. CASE i = 1 BY <1>1, <2>1, <2>3, <2>5, <6>2, <7>1
            <7>2. CASE i # 1
              <8>1. i - 1 \in 1..(j - 2) /\ i - 1 \in 1..Len(inbox'[s]) BY <1>1, <3>1, <4>2, <6>2, <7>2
              <8>2. inbox'[s][i - 1] = inbox[s][(i - 1) + 1] BY <1>1, <8>1
              <8>3. (i - 1) + 1 = i BY <6>2
              <8> QED BY <6>2, <8>1, <8>2, <8>3
            <7> QED BY <7>1, <7>2
          <6> QED BY <4>2, <6>1, <6>2
        <5> DEFINE h == j - 1
        <5>4. h \in 1..((k - 1) - 1) /\ h - 1 = j - 2 BY <3>1, <4>2, <5>2
        <5>5. inbox'[s][h] = End(r, f) BY <5>2
        <5> HIDE DEF h
        <5> QED BY <5>3, <5>4, <5>5 DEF Coming
      <4> QED BY <4>1, <4>2 DEF Coming
    <3>2. ASSUME NEW k \in DOMAIN inbox'[s], Answers(inbox'[s][k]) /\ inbox'[s][k].r = r
          PROVE  AllComing(r, k)'
      <4>1. k + 1 \in 2..(Len(inbox[s]) + 1) /\ k + 1 \in DOMAIN inbox[s] /\ (k + 1) - 1 = k
        BY <1>1, <3>2
      <4>2. inbox'[s][k] = inbox[s][k + 1] BY <1>1, <3>2
      <4>3. AllComing(r, k + 1) BY <2>2, <2>5, <3>2, <4>1, <4>2 DEF ComingFirst
      <4> QED BY <3>1, <4>1, <4>3
    <3>3. ASSUME Reporting(r)' PROVE AllComing(r, Len(inbox[s]) + 1)'
      <4>1. Reporting(r) BY <3>3 DEF Reporting
      <4>2. AllComing(r, Len(inbox[s]) + 1) BY <2>2, <2>5, <4>1 DEF ComingFirst
      <4>3. Len(inbox[s]) + 1 \in 2..(Len(inbox[s]) + 1) /\ (Len(inbox[s]) + 1) - 1 = Len(inbox'[s]) + 1
        BY <1>1
      <4> QED BY <3>1, <4>2, <4>3
    <3>4. ASSUME answer'[r] = "yes"
          PROVE  work[r].at = "done" /\ \A f \in work[r].files : <<r, f>> \in completed'
      <4>1. CASE answer'[r] = answer[r] BY <2>2, <3>4, <4>1 DEF ComingFirst
      <4>2. CASE answer'[r] # answer[r]
        <5>1. Answers(m) /\ m.r = r /\ m.ok BY <2>1, <3>4, <4>2
        <5>2. work[r].at = "done" BY <1>1, <5>1 DEF Delivery, WordsMatchWork, Answers
        <5>3. AllComing(r, 1) BY <1>1, <2>2, <2>5, <5>1 DEF ComingFirst
        <5>4. \A f \in work[r].files : <<r, f>> \in completed BY <5>3 DEF AllComing, Coming
        <5> QED BY <5>2, <5>4
      <4> QED BY <4>1, <4>2
    <3> QED BY <2>5, <3>2, <3>3, <3>4 DEF ComingFirst
  <2> QED BY <2>4, <2>5
<1> QED BY <1>2, <1>3, <1>4, <1>5 DEF Delivery

LEMMA ReadDelivers == ASSUME IInv, IInv', Delivery, NEW s \in Sockets, Read(s) PROVE Delivery'
<1> DEFINE m == Head(inbox[s])
<1>1. inbox[s] # << >> /\ inbox' = [inbox EXCEPT ![s] = Tail(@)]
      /\ UNCHANGED <<link, outbox, req, lost, work, ws>>
  BY DEF Read, ext
<1>2. m \in MessageType /\ m.type # "hello" BY TailType DEF Read, IInv
<1>3. m.r \in Requests /\ m.ok \in BOOLEAN BY <1>2 DEF MessageType, About
<1>4. \/ UNCHANGED daemon /\ req[m.r].on # s
      \/ /\ req[m.r].on = s
         /\ \/ m.type = "response" /\ OnResponse(m)
            \/ m.type = "chunk" /\ OnChunk(m)
            \/ m.type = "begin" /\ OnBegin(m)
            \/ m.type = "end" /\ OnEnd(m)
  BY DEF Read
<1> HIDE DEF m
<1>5. \A r, f : /\ m = Begin(r, f) => m.r = r /\ m.n = f /\ m.type = "begin"
                /\ m = End(r, f) => m.r = r /\ m.n = f /\ m.type = "end"
  BY DEF Begin, End, Message
<1>6. pending \subseteq Requests /\ answer \in [Requests -> {"open", "yes", "no", "error"}]
  BY DEF IInv, TypeOK
<1>7. UNCHANGED pending
      BY <1>4 DEF daemon, OnResponse, OnChunk, OnBegin, OnEnd
<1>8. /\ buffers' \subseteq buffers \cup {<<m.r, m.n>> : x \in {m.type} \cap {"begin"}}
      /\ completed' \subseteq completed \cup buffers
      /\ completed \subseteq completed' /\ buffers \subseteq buffers' \cup completed'
  <2>1. CASE UNCHANGED <<buffers, completed>> BY <2>1
  <2>2. CASE m.type = "begin" /\ OnBegin(m) BY <2>2 DEF OnBegin
  <2>3. CASE m.type = "end" /\ OnEnd(m) BY <2>3 DEF OnEnd
  <2> QED BY <1>4, <2>1, <2>2, <2>3 DEF daemon, OnResponse, OnChunk
<1>9. ASSUME NEW r \in pending, req[r].on = s, NEW f \in Files
      PROVE  /\ m = Begin(r, f) => <<r, f>> \in buffers'
             /\ m = End(r, f) /\ <<r, f>> \in buffers => <<r, f>> \in completed'
  BY <1>4, <1>5, <1>9 DEF OnBegin, OnEnd
<1>10. ASSUME NEW r \in pending, answer'[r] # answer[r]
       PROVE  req[r].on = s /\ (answer'[r] = "yes" => Answers(m) /\ m.r = r /\ m.ok)
  <2>1. CASE OnResponse(m) /\ m.type = "response" /\ req[m.r].on = s
    BY <1>3, <1>6, <1>10, <2>1 DEF OnResponse, Resolve, Answers
  <2>2. CASE OnChunk(m) /\ m.type = "chunk" /\ req[m.r].on = s
    BY <1>3, <1>6, <1>10, <2>2 DEF OnChunk, Resolve, Answers
  <2>3. CASE UNCHANGED answer BY <1>10, <2>3
  <2> QED BY <1>4, <2>1, <2>2, <2>3 DEF daemon, OnBegin, OnEnd
<1>11. m = Head(inbox[s]) BY DEF m
<1>12. UNCHANGED <<link, outbox, req, pending, lost, work, ws>> /\ inbox[s] # << >>
       /\ inbox' = [inbox EXCEPT ![s] = Tail(@)]
  BY <1>1, <1>7
<1>13. Hears(s, m)
  BY <1>8, <1>9, <1>10, <1>11, <1>12 DEF Hears
<1> QED BY <1>13, ReadsDeliver

LEMMA AcceptDelivers == ASSUME IInv, IInv', Delivery, NEW s \in Sockets, Accept(s) PROVE Delivery'
<1> DEFINE m == Head(inbox[s])
<1>1. inbox[s] # << >> /\ inbox' = [inbox EXCEPT ![s] = Tail(@)]
      /\ UNCHANGED <<link, outbox, req, lost, work, ws, daemon>> /\ m.type = "hello"
  BY DEF Accept, ext
<1>2. m = Head(inbox[s]) OBVIOUS
<1> HIDE DEF m
<1>3. \A r, f : m # Begin(r, f) /\ m # End(r, f) BY <1>1 DEF Begin, End, Message
<1>4. UNCHANGED <<pending, answer, buffers, completed>> BY <1>1 DEF daemon
<1>5. /\ buffers' \subseteq buffers \cup {<<m.r, m.n>> : x \in {m.type} \cap {"begin"}}
      /\ completed' \subseteq completed \cup buffers
      /\ completed \subseteq completed' /\ buffers \subseteq buffers' \cup completed'
  BY <1>4
<1>6. \A r \in pending : req[r].on = s => \A f \in Files :
               /\ m = Begin(r, f) => <<r, f>> \in buffers'
               /\ m = End(r, f) /\ <<r, f>> \in buffers => <<r, f>> \in completed'
  BY <1>3
<1>7. \A r \in pending : answer'[r] # answer[r] =>
               /\ req[r].on = s
               /\ answer'[r] = "yes" => Answers(m) /\ m.r = r /\ m.ok
  BY <1>4
<1>8. UNCHANGED <<link, outbox, req, pending, lost, work, ws>>
      /\ inbox[s] # << >> /\ inbox' = [inbox EXCEPT ![s] = Tail(@)]
  BY <1>1, <1>4
<1>9. Hears(s, m)
  BY <1>2, <1>5, <1>6, <1>7, <1>8 DEF Hears
<1> QED BY <1>9, ReadsDeliver

-----------------------------------------------------------------------------
(* Chrome's side: more is said, on the socket of the moment.                 *)
LEMMA PutKeeps ==
    ASSUME TypeOK, NEW s \in Sockets, NEW ms \in Seq(MessageType), Put(s, ms)
    PROVE  /\ \A q \in Sockets \ {s} : inbox'[q] = inbox[q]
           /\ DOMAIN inbox[s] = 1..Len(inbox[s])
           /\ DOMAIN inbox'[s] = 1..Len(inbox'[s])
           /\ Len(inbox[s]) \in Nat /\ Len(ms) \in Nat
           /\ Len(inbox'[s]) = Len(inbox[s]) + Len(ms)
           /\ \A k \in 1..Len(inbox[s]) : inbox'[s][k] = inbox[s][k]
           /\ \A k \in 1..Len(ms) : inbox'[s][Len(inbox[s]) + k] = ms[k]
           /\ \A k \in Len(inbox[s]) + 1 .. Len(inbox'[s]) :
                  k - Len(inbox[s]) \in 1..Len(ms) /\ inbox'[s][k] = ms[k - Len(inbox[s])]
<1>1. inbox[s] \in Seq(MessageType) BY DEF TypeOK
<1>2. inbox'[s] = inbox[s] \o ms /\ \A q \in Sockets \ {s} : inbox'[q] = inbox[q]
  BY DEF Put, TypeOK
<1> HIDE DEF Put
<1> QED BY <1>1, <1>2

(* What the extension says or does leaves what it has answered, and what is  *)
(* on its way, in order.                                                     *)
Fits(m, w) ==
    \/ m.type = "hello"
    \/ IF Answers(m) THEN w[m.r].at = IF m.ok THEN "done" ELSE "refused"
       ELSE m.n \in w[m.r].files

LEMMA SaysMore ==
    ASSUME IInv, IInv', Delivery, WorkFollows',
           UNCHANGED <<req, pending, answer, buffers, completed, lost>>,
           \A q \in Requests : /\ work[q].files \subseteq work'[q].files
                               /\ work[q].at \in {"done", "refused"} => work'[q] = work[q],
           \A s \in Sockets : \A k \in DOMAIN inbox[s] : inbox'[s][k] = inbox[s][k],
           \A s \in Sockets : Len(inbox[s]) <= Len(inbox'[s]),
           \A s \in Sockets : \A k \in DOMAIN inbox'[s] \ DOMAIN inbox[s] :
               /\ Fits(inbox'[s][k], work')
               /\ \A r \in pending : req[r].on = s /\ Answers(inbox'[s][k]) /\ inbox'[s][k].r = r
                    => AllComing(r, k)',
           \A r \in pending : Reporting(r)' => AllComing(r, Len(inbox[req[r].on]) + 1)'
    PROVE  Delivery'
<1>0. \A s \in Sockets : /\ DOMAIN inbox[s] = 1..Len(inbox[s]) /\ Len(inbox[s]) \in Nat
                         /\ DOMAIN inbox'[s] = 1..Len(inbox'[s]) /\ Len(inbox'[s]) \in Nat
                         /\ \A k \in DOMAIN inbox[s] : inbox[s][k] \in MessageType
  <2>1. ASSUME NEW s \in Sockets
        PROVE  inbox[s] \in Seq(MessageType) /\ inbox'[s] \in Seq(MessageType)
    BY DEF IInv, TypeOK
  <2>2. ASSUME NEW q \in Seq(MessageType)
        PROVE  /\ DOMAIN q = 1..Len(q) /\ Len(q) \in Nat
               /\ \A k \in DOMAIN q : q[k] \in MessageType
    OBVIOUS
  <2> QED BY <2>1, <2>2
<1>1. WordsMatchWork'
  <2>1. ASSUME NEW s \in Sockets, NEW k \in DOMAIN inbox[s] PROVE Fits(inbox'[s][k], work')
    <3> DEFINE m == inbox[s][k]
    <3>1. m.type # "hello" => m.r \in Requests BY <1>0 DEF MessageType, About
    <3>2. m.type = "hello" \/ IF Answers(m) THEN work[m.r].at = IF m.ok THEN "done" ELSE "refused"
                              ELSE m.n \in work[m.r].files
      BY DEF Delivery, WordsMatchWork
    <3>3. m = inbox'[s][k] OBVIOUS
    <3> HIDE DEF m
    <3>4. Fits(m, work') BY <3>1, <3>2 DEF Fits
    <3> QED BY <3>3, <3>4 DEF Fits
  <2>2. \A s \in Sockets : \A k \in DOMAIN inbox'[s] : Fits(inbox'[s][k], work') BY <2>1
  <2>3. \A r \in Requests, f \in Files : <<r, f>> \in buffers' \cup completed' => f \in work'[r].files
    BY DEF Delivery, WordsMatchWork
  <2> QED BY <2>2, <2>3 DEF WordsMatchWork, Fits
<1>2. ArtifactsComplete' BY DEF Delivery, ArtifactsComplete
<1>3. ASSUME NEW r \in pending' PROVE ComingFirst(r)'
  <2>1. r \in pending /\ r \in Requests /\ req[r].on \in Sockets BY <1>3, PendingPlaced
  <2>2. ComingFirst(r) BY <2>1 DEF Delivery
  <2> DEFINE s == req[r].on
  <2>3. ASSUME NEW k \in DOMAIN inbox[s], Answers(inbox[s][k]) /\ inbox[s][k].r = r
        PROVE  AllComing(r, k)'
    <3>1. inbox[s][k].type # "hello" BY <2>3 DEF Answers
    <3>2. work[r].at \in {"done", "refused"} BY <2>1, <2>3, <3>1 DEF Delivery, WordsMatchWork
    <3>3. work'[r] = work[r] BY <2>1, <3>2
    <3>4. AllComing(r, k) BY <2>2, <2>3 DEF ComingFirst
    <3>5. ASSUME NEW f \in work[r].files, Coming(inbox[s], buffers, completed, r, f, k)
          PROVE  Coming(inbox'[s], buffers', completed', r, f, k)
      <4>1. \A j \in 1..(k - 1) : /\ j \in DOMAIN inbox[s]
                                 /\ \A i \in 1..(j - 1) : i \in DOMAIN inbox[s]
        BY <1>0, <2>1, <2>3
      <4> HIDE DEF s
      <4>2. \A j \in DOMAIN inbox[s] : inbox'[s][j] = inbox[s][j] BY <2>1 DEF s
      <4> QED BY <3>5, <4>1, <4>2 DEF Coming
    <3> QED BY <3>3, <3>4, <3>5 DEF AllComing
  <2>4. \A k \in DOMAIN inbox'[s] : Answers(inbox'[s][k]) /\ inbox'[s][k].r = r => AllComing(r, k)'
    BY <2>1, <2>3
  <2>5. answer'[r] = "yes" => work'[r].at = "done" /\ \A f \in work'[r].files : <<r, f>> \in completed'
    BY <2>1, <2>2 DEF ComingFirst
  <2> QED BY <2>1, <2>4, <2>5 DEF ComingFirst
<1> QED BY <1>1, <1>2, <1>3 DEF Delivery

LEMMA ConnectDelivers == ASSUME IInv, IInv', Delivery, Connect PROVE Delivery'
<1> DEFINE hello == Message("hello", None, 0, TRUE)
<1>1. PICK s \in Sockets : /\ link[s] = "unused" /\ link' = [link EXCEPT ![s] = "up"]
                           /\ ws' = s /\ Put(s, <<hello>>)
  BY DEF Connect
<1>2. UNCHANGED <<req, pending, answer, buffers, completed, lost, outbox, work>> BY DEF Connect, daemon
<1>3. <<hello>> \in Seq(MessageType) /\ hello.type = "hello" BY DEF Message, MessageType
<1>4. Len(<<hello>>) = 1 /\ <<hello>>[1] = hello OBVIOUS
<1>5. /\ \A q \in Sockets \ {s} : inbox'[q] = inbox[q]
      /\ DOMAIN inbox[s] = 1..Len(inbox[s])
      /\ DOMAIN inbox'[s] = 1..Len(inbox'[s])
      /\ Len(inbox[s]) \in Nat /\ Len(inbox'[s]) = Len(inbox[s]) + 1
      /\ \A k \in 1..Len(inbox[s]) : inbox'[s][k] = inbox[s][k]
      /\ inbox'[s][Len(inbox[s]) + 1] = hello
  <2> HIDE DEF hello
  <2> DEFINE ms == <<hello>>
  <2>1. ms \in Seq(MessageType) /\ Put(s, ms) /\ Len(ms) = 1 /\ ms[1] = hello BY <1>1, <1>3, <1>4
  <2> HIDE DEF ms
  <2>2. TypeOK BY DEF IInv
  <2>3. 1 \in 1..Len(ms) BY <2>1
  <2>4. /\ \A q \in Sockets \ {s} : inbox'[q] = inbox[q]
        /\ DOMAIN inbox[s] = 1..Len(inbox[s])
        /\ DOMAIN inbox'[s] = 1..Len(inbox'[s])
        /\ Len(inbox[s]) \in Nat /\ Len(inbox'[s]) = Len(inbox[s]) + Len(ms)
        /\ \A k \in 1..Len(inbox[s]) : inbox'[s][k] = inbox[s][k]
        /\ \A k \in 1..Len(ms) : inbox'[s][Len(inbox[s]) + k] = ms[k]
    BY <2>1, <2>2, PutKeeps
  <2> QED BY <2>1, <2>3, <2>4
<1> HIDE DEF hello
<1>6. WorkFollows' BY <1>1, <1>2 DEF Delivery, WorkFollows, IInv, TypeOK
<1>7. ASSUME NEW r \in pending PROVE ~Reporting(r)'
  <2>1. r \in Requests BY <1>7, PendingPlaced
  <2>2. work[r].at = "working" => work[r].on # s BY <1>1, <2>1 DEF Delivery, WorkFollows
  <2> QED BY <1>1, <1>2, <2>2 DEF Reporting
<1>8. \A q \in Sockets : Len(inbox[q]) <= Len(inbox'[q])
  <2>1. \A q \in Sockets \ {s} : Len(inbox[q]) \in Nat BY DEF IInv, TypeOK
  <2> QED BY <1>5, <2>1
<1>9. \A q \in Sockets : \A k \in DOMAIN inbox'[q] \ DOMAIN inbox[q] : inbox'[q][k].type = "hello"
  BY <1>3, <1>5
<1>10. \A q \in Sockets : \A k \in DOMAIN inbox[q] : inbox'[q][k] = inbox[q][k] BY <1>5
<1>11. \A q \in Sockets : \A k \in DOMAIN inbox'[q] \ DOMAIN inbox[q] :
         Fits(inbox'[q][k], work') /\ ~Answers(inbox'[q][k])
  BY <1>9 DEF Fits, Answers
<1> QED BY <1>2, <1>6, <1>7, <1>8, <1>10, <1>11, SaysMore

LEMMA TakeDelivers == ASSUME IInv, IInv', Delivery, NEW r \in Requests, Take(r) PROVE Delivery'
<1>1. PICK s \in Sockets :
        /\ r \in outbox[s]
        /\ outbox' = [outbox EXCEPT ![s] = @ \ {r}]
        /\ IF s = ws /\ link[s] = "up"
           THEN work' = [work EXCEPT ![r] = [on |-> s, at |-> "working", files |-> {}]]
           ELSE UNCHANGED work
  BY DEF Take
<1>2. UNCHANGED <<req, pending, answer, buffers, completed, lost, inbox, link, ws>> BY DEF Take, daemon
<1>3. work[r].at = "none" /\ req[r].on = s /\ req[r].at \notin {"idle", "queued"} /\ work[r].files = {}
  BY <1>1 DEF Delivery, WorkFollows
<1>4. /\ \A q \in Requests \ {r} : work'[q] = work[q]
      /\ work'[r].files = {}
      /\ work'[r] = work[r] \/ (work'[r].at = "working" /\ work'[r].on = s /\ link[s] = "up")
  <2> DEFINE begun == [on |-> s, at |-> "working", files |-> {}]
  <2>1. begun.files = {} /\ begun.at = "working" /\ begun.on = s OBVIOUS
  <2>2. (s = ws /\ link[s] = "up" /\ work' = [work EXCEPT ![r] = begun]) \/ UNCHANGED work BY <1>1
  <2> HIDE DEF begun
  <2> QED BY <1>3, <2>1, <2>2 DEF IInv, TypeOK
<1>5. \A q \in Requests, t \in Sockets : q \in outbox'[t] => q \in outbox[t] /\ q # r
  <2>1. ASSUME NEW t \in Sockets, r \in outbox'[t] PROVE FALSE
    <3>1. r \in outbox[t] BY <1>1, <2>1 DEF IInv, TypeOK
    <3>2. t = s BY <1>3, <3>1 DEF Delivery, WorkFollows
    <3> QED BY <1>1, <2>1, <3>2 DEF IInv, TypeOK
  <2>2. \A t \in Sockets : outbox'[t] \subseteq outbox[t] BY <1>1 DEF IInv, TypeOK
  <2> QED BY <2>1, <2>2
<1>6. WorkFollows'
  <2>1. ASSUME NEW q \in Requests, NEW t \in Sockets, q \in outbox'[t]
        PROVE  work'[q].at = "none" /\ req[q].on = t /\ req[q].at \notin {"idle", "queued"}
    BY <1>4, <1>5, <2>1 DEF Delivery, WorkFollows
  <2>2. ASSUME NEW q \in Requests
        PROVE  IF work'[q].at = "none" THEN work'[q].files = {}
               ELSE /\ work'[q].on \in Sockets /\ link[work'[q].on] # "unused"
                    /\ work'[q].on = req[q].on /\ req[q].at \notin {"idle", "queued"}
    <3>1. CASE q = r BY <1>3, <1>4, <3>1
    <3>2. CASE q # r BY <1>4, <3>2 DEF Delivery, WorkFollows
    <3> QED BY <3>1, <3>2
  <2> QED BY <1>2, <2>1, <2>2 DEF WorkFollows
<1>7. ASSUME NEW q \in pending, Reporting(q)' PROVE AllComing(q, Len(inbox[req[q].on]) + 1)'
  <2>1. CASE q = r BY <1>4, <2>1 DEF AllComing
  <2>2. CASE q # r
    <3>1. work'[q] = work[q] /\ q \in Requests BY <1>4, <2>2, PendingPlaced
    <3>2. Reporting(q) BY <1>2, <1>7, <3>1 DEF Reporting
    <3>3. AllComing(q, Len(inbox[req[q].on]) + 1) BY <3>2 DEF Delivery, ComingFirst
    <3> QED BY <1>2, <3>1, <3>3 DEF AllComing
  <2> QED BY <2>1, <2>2
<1>8. \A s1 \in Sockets : Len(inbox[s1]) \in Nat BY DEF IInv, TypeOK
<1>9. \A s1 \in Sockets : Len(inbox[s1]) <= Len(inbox'[s1]) BY <1>2, <1>8
<1>10. \A q \in Requests : /\ work[q].files \subseteq work'[q].files
                           /\ work[q].at \in {"done", "refused"} => work'[q] = work[q]
  BY <1>3, <1>4
<1> QED BY <1>2, <1>6, <1>7, <1>9, <1>10, SaysMore

LEMMA CutDelivers == ASSUME IInv, IInv', Delivery, NEW s \in Sockets, Cut(s) PROVE Delivery'
<1>1. UNCHANGED <<req, pending, answer, buffers, completed, lost, inbox>> BY DEF Cut, daemon
<1>2. ws' = ws \/ ws' = None BY DEF Cut, ext
<1>3. \A q \in Requests : /\ work'[q].files = work[q].files /\ work'[q].on = work[q].on
                          /\ \/ work'[q].at = work[q].at
                             \/ work[q].at = "working" /\ work'[q].at = "forgotten"
                          /\ work[q].at # "working" => work'[q] = work[q]
  <2>1. CASE work' = [r \in Requests |-> [work[r] EXCEPT !.at =
                        IF @ = "working" THEN "forgotten" ELSE @]]
    <3> SUFFICES ASSUME NEW q \in Requests
                 PROVE  /\ work'[q].files = work[q].files /\ work'[q].on = work[q].on
                        /\ \/ work'[q].at = work[q].at
                           \/ work[q].at = "working" /\ work'[q].at = "forgotten"
                        /\ work[q].at # "working" => work'[q] = work[q]
      OBVIOUS
    <3> DEFINE w == work[q]
               to == IF w.at = "working" THEN "forgotten" ELSE w.at
    <3>1. w \in [on : Sockets \cup {None}, files : SUBSET Files,
                 at : {"none", "working", "done", "refused", "forgotten"}] BY DEF IInv, TypeOK
    <3>2. work'[q] = [w EXCEPT !.at = to] BY <2>1
    <3> HIDE DEF w, to
    <3>3. [w EXCEPT !.at = to].files = w.files /\ [w EXCEPT !.at = to].on = w.on
          /\ [w EXCEPT !.at = to].at = to /\ (to = w.at => [w EXCEPT !.at = to] = w)
      BY <3>1
    <3> QED BY <3>2, <3>3 DEF w, to
  <2>2. CASE work' = work BY <2>2
  <2> QED BY <2>1, <2>2 DEF Cut, ext
<1>4. /\ link[s] = "up" /\ link'[s] = "cut"
      /\ \A q \in Sockets \ {s} : link'[q] = link[q]
      /\ \A q \in Sockets : outbox'[q] \subseteq outbox[q]
  BY DEF Cut, IInv, TypeOK
<1>5. WorkFollows'
  <2>1. ASSUME NEW q \in Requests
        PROVE  IF work'[q].at = "none" THEN work'[q].files = {}
               ELSE /\ work'[q].on \in Sockets /\ link'[work'[q].on] # "unused"
                    /\ work'[q].on = req[q].on /\ req[q].at \notin {"idle", "queued"}
    <3>1. IF work[q].at = "none" THEN work[q].files = {}
          ELSE /\ work[q].on \in Sockets /\ link[work[q].on] # "unused"
               /\ work[q].on = req[q].on /\ req[q].at \notin {"idle", "queued"}
      BY DEF Delivery, WorkFollows
    <3>2. \A t \in Sockets : link[t] # "unused" => link'[t] # "unused" BY <1>4
    <3> QED BY <1>3, <3>1, <3>2
  <2>2. ASSUME NEW q \in Requests, NEW t \in Sockets, q \in outbox'[t]
        PROVE  work'[q].at = "none" /\ req[q].on = t /\ req[q].at \notin {"idle", "queued"}
    BY <1>3, <1>4, <2>2 DEF Delivery, WorkFollows
  <2> QED BY <1>1, <2>1, <2>2 DEF WorkFollows
<1>6. ASSUME NEW q \in pending, Reporting(q)' PROVE AllComing(q, Len(inbox[req[q].on]) + 1)'
  <2>1. q \in Requests BY PendingPlaced
  <2>3. work[q].at = "working" => work[q].on \in Sockets BY <2>1 DEF Delivery, WorkFollows
  <2>4. work[q].files = work'[q].files BY <1>3, <2>1
  <2>5. Reporting(q)
    <3>1. work'[q].at = "working" /\ ws' = work[q].on /\ link'[work[q].on] = "up"
      BY <1>3, <1>6, <2>1 DEF Reporting
    <3>2. work[q].at = "working" BY <1>3, <2>1, <3>1
    <3>3. work[q].on # None BY <2>3, <3>2, SessionAssumption
    <3> QED BY <1>2, <1>4, <2>3, <3>1, <3>2, <3>3 DEF Reporting
  <2>6. AllComing(q, Len(inbox[req[q].on]) + 1) BY <2>5 DEF Delivery, ComingFirst
  <2> QED BY <1>1, <2>4, <2>6 DEF AllComing
<1>7. \A t \in Sockets : Len(inbox[t]) \in Nat BY DEF IInv, TypeOK
<1>8. \A t \in Sockets : Len(inbox[t]) <= Len(inbox'[t]) BY <1>1, <1>7
<1> QED BY <1>1, <1>3, <1>5, <1>6, <1>8, SaysMore

LEMMA ComingGrows ==
    ASSUME NEW n \in Nat, NEW q, NEW later, \A j \in 1..n : later[j] = q[j],
           NEW begun, NEW ended, NEW r, NEW f, NEW k \in 1..(n + 1), NEW l \in Nat, k <= l,
           Coming(q, begun, ended, r, f, k)
    PROVE  Coming(later, begun, ended, r, f, l)
<1>1. CASE <<r, f>> \in ended BY <1>1 DEF Coming
<1>2. ASSUME NEW j \in 1..(k - 1), q[j] = End(r, f),
             <<r, f>> \in begun \/ \E i \in 1..(j - 1) : q[i] = Begin(r, f)
      PROVE  Coming(later, begun, ended, r, f, l)
  <2>1. j \in 1..(l - 1) /\ j \in 1..n OBVIOUS
  <2>2. \A i \in 1..(j - 1) : i \in 1..n OBVIOUS
  <2>3. later[j] = End(r, f) BY <1>2, <2>1
  <2>4. <<r, f>> \in begun \/ \E i \in 1..(j - 1) : later[i] = Begin(r, f) BY <1>2, <2>2
  <2> QED BY <2>1, <2>3, <2>4 DEF Coming
<1> QED BY <1>1, <1>2 DEF Coming

LEMMA InboxLength ==
    ASSUME TypeOK, NEW s \in Sockets PROVE Len(inbox[s]) \in Nat /\ DOMAIN inbox[s] = 1..Len(inbox[s])
<1>1. inbox[s] \in Seq(MessageType) BY DEF TypeOK
<1> QED BY <1>1

LEMMA AllComingGrows ==
    ASSUME IInv, IInv', UNCHANGED <<req, buffers, completed>>,
           \A s \in Sockets : \A k \in DOMAIN inbox[s] : inbox'[s][k] = inbox[s][k],
           \A s \in Sockets : Len(inbox[s]) <= Len(inbox'[s]),
           NEW r \in pending, work'[r].files = work[r].files,
           AllComing(r, Len(inbox[req[r].on]) + 1)
    PROVE  /\ \A k \in Nat : k > Len(inbox[req[r].on]) => AllComing(r, k)'
           /\ AllComing(r, Len(inbox[req[r].on]) + 1)'
<1> DEFINE s == req[r].on
           n == Len(inbox[s])
<1>1. s \in Sockets BY PendingPlaced
<1>2. n \in Nat /\ DOMAIN inbox[s] = 1..n BY <1>1, InboxLength DEF IInv
<1>3. Len(inbox'[s]) \in Nat /\ n <= Len(inbox'[s])
  <2>1. TypeOK' BY DEF IInv
  <2>2. inbox'[s] \in Seq(MessageType) BY <1>1, <2>1 DEF TypeOK
  <2> QED BY <1>1, <2>2
<1>4. \A j \in 1..n : inbox'[s][j] = inbox[s][j] BY <1>1, <1>2
<1> HIDE DEF s, n
<1>5. ASSUME NEW k \in Nat, k > n, NEW f \in work'[r].files
      PROVE  Coming(inbox'[s], buffers', completed', r, f, k)
  <2>1. Coming(inbox[s], buffers, completed, r, f, n + 1) BY DEF AllComing, s, n
  <2>2. n + 1 \in 1..(n + 1) /\ n + 1 <= k BY <1>2, <1>5
  <2>3. Coming(inbox'[s], buffers, completed, r, f, k) BY <1>2, <1>4, <2>1, <2>2, ComingGrows
  <2> QED BY <2>3
<1>6. Len(inbox'[s]) + 1 \in Nat /\ Len(inbox'[s]) + 1 > n BY <1>2, <1>3
<1>7. \A k \in Nat : k > n => AllComing(r, k)' BY <1>5 DEF AllComing, s
<1>8. AllComing(r, Len(inbox[req[r].on]) + 1)' BY <1>5, <1>6 DEF AllComing, s
<1> QED BY <1>7, <1>8 DEF s, n

LEMMA EmitDelivers == ASSUME IInv, IInv', Delivery, NEW r \in Requests, Emit(r) PROVE Delivery'
<1>1. PICK f \in Files :
        /\ work' = [work EXCEPT ![r].files = @ \cup {f}]
        /\ Put(ws, <<Begin(r, f), End(r, f)>>)
  BY DEF Emit, Begin, End
<1>2. /\ UNCHANGED <<req, pending, answer, buffers, completed, lost, link, outbox, ws>>
      /\ work[r].at = "working" /\ ws \in Sockets
  BY DEF Emit, daemon, IsOpen, IInv, TypeOK
<1>3. /\ work'[r].files = work[r].files \cup {f} /\ work'[r].on = work[r].on
      /\ work'[r].at = work[r].at
      /\ \A q \in Requests \ {r} : work'[q] = work[q]
  <2>1. work[r] \in [on : Sockets \cup {None}, files : SUBSET Files,
                     at : {"none", "working", "done", "refused", "forgotten"}]
    BY DEF IInv, TypeOK
  <2>2. work' = [work EXCEPT ![r] = [work[r] EXCEPT !.files = @ \cup {f}]] BY <1>1
  <2> DEFINE w == work[r]
  <2>3. work'[r] = [w EXCEPT !.files = @ \cup {f}] /\ \A q \in Requests \ {r} : work'[q] = work[q]
    BY <2>2 DEF IInv, TypeOK
  <2>4. w \in [on : Sockets \cup {None}, files : SUBSET Files,
                     at : {"none", "working", "done", "refused", "forgotten"}] BY <2>1
  <2> HIDE DEF w
  <2>5. [w EXCEPT !.files = @ \cup {f}].files = w.files \cup {f}
        /\ [w EXCEPT !.files = @ \cup {f}].on = w.on /\ [w EXCEPT !.files = @ \cup {f}].at = w.at
    BY <2>4
  <2> QED BY <2>3, <2>5 DEF w
<1> DEFINE ms == <<Begin(r, f), End(r, f)>>
           n == Len(inbox[ws])
<1>4. ms \in Seq(MessageType) BY MessagesType DEF Begin, End
<1>5. Len(ms) = 2 /\ ms[1] = Begin(r, f) /\ ms[2] = End(r, f) OBVIOUS
<1>6. Put(ws, ms) BY <1>1
<1> HIDE DEF ms
<1>7. /\ \A q \in Sockets \ {ws} : inbox'[q] = inbox[q]
      /\ DOMAIN inbox[ws] = 1..n /\ DOMAIN inbox'[ws] = 1..Len(inbox'[ws])
      /\ n \in Nat /\ Len(inbox'[ws]) = n + 2
      /\ \A k \in 1..n : inbox'[ws][k] = inbox[ws][k]
      /\ \A k \in 1..2 : inbox'[ws][n + k] = ms[k]
  <2>1. /\ \A q \in Sockets \ {ws} : inbox'[q] = inbox[q]
        /\ DOMAIN inbox[ws] = 1..n /\ DOMAIN inbox'[ws] = 1..Len(inbox'[ws])
        /\ n \in Nat /\ Len(inbox'[ws]) = n + Len(ms)
        /\ \A k \in 1..n : inbox'[ws][k] = inbox[ws][k]
        /\ \A k \in 1..Len(ms) : inbox'[ws][n + k] = ms[k]
    BY <1>2, <1>4, <1>6, PutKeeps DEF IInv
  <2> QED BY <1>5, <2>1
<1>a. inbox'[ws][n + 1] = Begin(r, f) /\ inbox'[ws][n + 2] = End(r, f) BY <1>5, <1>7
<1>b. \A s \in Sockets : \A k \in DOMAIN inbox[s] : inbox'[s][k] = inbox[s][k] BY <1>7
<1>c. \A s \in Sockets : Len(inbox[s]) <= Len(inbox'[s])
  <2>1. \A s \in Sockets : Len(inbox[s]) \in Nat BY InboxLength DEF IInv
  <2> QED BY <1>7, <2>1
<1>d. \A s \in Sockets : \A k \in DOMAIN inbox'[s] \ DOMAIN inbox[s] :
        Fits(inbox'[s][k], work') /\ ~Answers(inbox'[s][k])
  <2> SUFFICES ASSUME NEW k \in DOMAIN inbox'[ws] \ DOMAIN inbox[ws]
               PROVE  Fits(inbox'[ws][k], work') /\ ~Answers(inbox'[ws][k])
    BY <1>7
  <2>1. k = n + 1 \/ k = n + 2 BY <1>7
  <2>2. inbox'[ws][k] \in {Begin(r, f), End(r, f)} BY <1>a, <2>1
  <2>3. \A m \in {Begin(r, f), End(r, f)} : m.type \in {"begin", "end"} /\ m.r = r /\ m.n = f
    BY DEF Begin, End, Message
  <2> QED BY <1>3, <2>2, <2>3 DEF Fits, Answers
<1>e. WorkFollows'
  <2>1. ASSUME NEW q \in Requests, NEW t \in Sockets, q \in outbox[t]
        PROVE  work'[q].at = "none" /\ req[q].on = t /\ req[q].at \notin {"idle", "queued"}
    BY <1>3, <2>1 DEF Delivery, WorkFollows
  <2>2. ASSUME NEW q \in Requests
        PROVE  IF work'[q].at = "none" THEN work'[q].files = {}
               ELSE /\ work'[q].on \in Sockets /\ link[work'[q].on] # "unused"
                    /\ work'[q].on = req[q].on /\ req[q].at \notin {"idle", "queued"}
    <3>1. CASE q = r BY <1>2, <1>3, <3>1 DEF Delivery, WorkFollows
    <3>2. CASE q # r BY <1>3, <3>2 DEF Delivery, WorkFollows
    <3> QED BY <3>1, <3>2
  <2> QED BY <1>2, <2>1, <2>2 DEF WorkFollows
<1>f. ASSUME NEW q \in pending, Reporting(q)' PROVE AllComing(q, Len(inbox[req[q].on]) + 1)'
  <2>0. q \in Requests /\ req[q].on \in Sockets BY PendingPlaced
  <2>1. Reporting(q) BY <1>2, <1>3, <1>f, <2>0 DEF Reporting
  <2>2. AllComing(q, Len(inbox[req[q].on]) + 1) BY <2>1 DEF Delivery, ComingFirst
  <2>3. CASE q # r BY <1>2, <1>3, <1>b, <1>c, <2>0, <2>2, <2>3, AllComingGrows
  <2>4. CASE q = r
    <3>1. req[r].on = ws BY <1>2, <2>0, <2>1, <2>4 DEF Reporting, Delivery, WorkFollows
    <3> SUFFICES ASSUME NEW g \in work'[r].files
                 PROVE  Coming(inbox'[ws], buffers, completed, r, g, n + 3)
      BY <1>2, <1>7, <2>4, <3>1 DEF AllComing
    <3>2. CASE g = f
      <4>1. n + 2 \in 1..((n + 3) - 1) /\ n + 1 \in 1..((n + 2) - 1) BY <1>7
      <4> HIDE DEF n
      <4> DEFINE j == n + 2  i == n + 1
      <4>2. j \in 1..((n + 3) - 1) /\ inbox'[ws][j] = End(r, g)
            /\ i \in 1..(j - 1) /\ inbox'[ws][i] = Begin(r, g) BY <1>a, <3>2, <4>1
      <4> HIDE DEF j, i
      <4> QED BY <4>2 DEF Coming
    <3>3. CASE g \in work[r].files
      <4> DEFINE k == n + 1  l == n + 3
      <4>1. Coming(inbox[ws], buffers, completed, r, g, k) BY <2>2, <2>4, <3>1, <3>3 DEF AllComing
      <4>2. k \in 1..(n + 1) /\ l \in Nat /\ k <= l BY <1>7
      <4>3. n \in Nat /\ \A j \in 1..n : inbox'[ws][j] = inbox[ws][j] BY <1>7
      <4>4. l = n + 3 OBVIOUS
      <4> HIDE DEF n, k, l
      <4>5. Coming(inbox'[ws], buffers, completed, r, g, l) BY <4>1, <4>2, <4>3, ComingGrows
      <4> QED BY <4>4, <4>5
    <3> QED BY <1>3, <3>2, <3>3
  <2> QED BY <2>3, <2>4
<1>g. \A q \in Requests : /\ work[q].files \subseteq work'[q].files
                          /\ work[q].at \in {"done", "refused"} => work'[q] = work[q]
  BY <1>2, <1>3
<1> QED BY <1>2, <1>b, <1>c, <1>d, <1>e, <1>f, <1>g, SaysMore

LEMMA ReplyDelivers == ASSUME IInv, IInv', Delivery, NEW r \in Requests, Reply(r) PROVE Delivery'
<1> DEFINE s == work[r].on
           n == Len(inbox[s])
           Verdict(m, ok) == Answers(m) /\ m.r = r /\ m.ok = ok
<1>1. PICK ok \in BOOLEAN :
        /\ work' = [work EXCEPT ![r].at = IF ok THEN "done" ELSE "refused"]
        /\ IF s = ws /\ IsOpen(s)
           THEN \/ Put(s, <<Message("response", r, 0, ok)>>)
                \/ Put(s, [i \in 1..(LastChunk + 1) |-> Message("chunk", r, i - 1, ok)])
           ELSE UNCHANGED inbox
  BY DEF Reply
<1>2. /\ UNCHANGED <<req, pending, answer, buffers, completed, lost, link, outbox, ws>>
      /\ work[r].at = "working"
  BY DEF Reply, daemon
<1>3. /\ work'[r].files = work[r].files /\ work'[r].on = work[r].on
      /\ work'[r].at = IF ok THEN "done" ELSE "refused"
      /\ \A q \in Requests \ {r} : work'[q] = work[q]
  <2> DEFINE w == work[r]
             to == IF ok THEN "done" ELSE "refused"
  <2>1. w \in [on : Sockets \cup {None}, files : SUBSET Files,
               at : {"none", "working", "done", "refused", "forgotten"}]
    BY DEF IInv, TypeOK
  <2>2. work'[r] = [w EXCEPT !.at = to] /\ \A q \in Requests \ {r} : work'[q] = work[q]
    BY <1>1 DEF IInv, TypeOK
  <2>3. to = IF ok THEN "done" ELSE "refused" OBVIOUS
  <2> HIDE DEF w, to
  <2>4. [w EXCEPT !.at = to].files = w.files /\ [w EXCEPT !.at = to].on = w.on
        /\ [w EXCEPT !.at = to].at = to
    BY <2>1
  <2> QED BY <2>2, <2>3, <2>4 DEF w
<1>4. s \in Sockets BY <1>2 DEF Delivery, WorkFollows
<1>5. \/ UNCHANGED inbox
      \/ /\ s = ws /\ IsOpen(s)
         /\ \E ms \in Seq(MessageType) : Put(s, ms) /\ \A k \in 1..Len(ms) : Verdict(ms[k], ok)
  <2>1. CASE ~(s = ws /\ IsOpen(s)) BY <1>1, <2>1
  <2>2. CASE s = ws /\ IsOpen(s) /\ Put(s, <<Message("response", r, 0, ok)>>)
    <3> DEFINE m == Message("response", r, 0, ok)
               ms == <<m>>
    <3>1. ms \in Seq(MessageType) BY MessagesType
    <3>2. Verdict(m, ok) BY DEF Answers, Message
    <3>3. Len(ms) = 1 /\ ms[1] = m OBVIOUS
    <3>4. Put(s, ms) BY <2>2
    <3> HIDE DEF ms, m, Verdict
    <3>5. \A k \in 1..Len(ms) : Verdict(ms[k], ok) BY <3>2, <3>3
    <3> QED BY <2>2, <3>1, <3>4, <3>5
  <2>3. CASE /\ s = ws /\ IsOpen(s)
             /\ Put(s, [i \in 1..(LastChunk + 1) |-> Message("chunk", r, i - 1, ok)])
    <3> DEFINE ms == [i \in 1..(LastChunk + 1) |-> Message("chunk", r, i - 1, ok)]
    <3>1. ms \in Seq(MessageType) BY MessagesType
    <3>2. \A k \in DOMAIN ms : Verdict(ms[k], ok) BY DEF Answers, Message
    <3>3. Put(s, ms) BY <2>3
    <3> HIDE DEF ms, Verdict
    <3>4. DOMAIN ms = 1..Len(ms) BY <3>1
    <3> QED BY <2>3, <3>1, <3>2, <3>3, <3>4
  <2> QED BY <1>1, <2>1, <2>2, <2>3
<1> HIDE DEF s
<1>6. WorkFollows'
  <2>1. ASSUME NEW q \in Requests, NEW t \in Sockets, q \in outbox[t]
        PROVE  work'[q].at = "none" /\ req[q].on = t /\ req[q].at \notin {"idle", "queued"}
    BY <1>2, <1>3, <2>1 DEF Delivery, WorkFollows
  <2>2. ASSUME NEW q \in Requests
        PROVE  IF work'[q].at = "none" THEN work'[q].files = {}
               ELSE /\ work'[q].on \in Sockets /\ link[work'[q].on] # "unused"
                    /\ work'[q].on = req[q].on /\ req[q].at \notin {"idle", "queued"}
    <3>1. CASE q = r BY <1>2, <1>3, <3>1 DEF Delivery, WorkFollows
    <3>2. CASE q # r BY <1>3, <3>2 DEF Delivery, WorkFollows
    <3> QED BY <3>1, <3>2
  <2> QED BY <1>2, <2>1, <2>2 DEF WorkFollows
<1>7. \A q \in Requests : /\ work[q].files \subseteq work'[q].files
                          /\ work[q].at \in {"done", "refused"} => work'[q] = work[q]
  BY <1>2, <1>3
<1>8. \A t \in Sockets : Len(inbox[t]) \in Nat BY InboxLength DEF IInv
<1>9. ASSUME \A t \in Sockets : \A k \in DOMAIN inbox[t] : inbox'[t][k] = inbox[t][k],
             \A t \in Sockets : Len(inbox[t]) <= Len(inbox'[t]),
             NEW q \in pending, Reporting(q), work'[q].files = work[q].files
      PROVE  /\ \A k \in Nat : k > Len(inbox[req[q].on]) => AllComing(q, k)'
             /\ AllComing(q, Len(inbox[req[q].on]) + 1)'
  <2>1. AllComing(q, Len(inbox[req[q].on]) + 1) BY <1>9 DEF Delivery, ComingFirst
  <2> QED BY <1>2, <1>9, <2>1, AllComingGrows
<1>10. ASSUME NEW q \in pending, Reporting(q)'
       PROVE  Reporting(q) /\ work'[q].files = work[q].files
  BY <1>2, <1>3, <1>10, PendingPlaced DEF Reporting
<1>11. CASE UNCHANGED inbox
  <2>1. \A t \in Sockets : \A k \in DOMAIN inbox[t] : inbox'[t][k] = inbox[t][k] BY <1>11
  <2>2. \A t \in Sockets : Len(inbox[t]) <= Len(inbox'[t]) BY <1>8, <1>11
  <2>3. \A q \in pending : Reporting(q)' => AllComing(q, Len(inbox[req[q].on]) + 1)'
    BY <1>9, <1>10, <2>1, <2>2
  <2>4. \A t \in Sockets : DOMAIN inbox'[t] \ DOMAIN inbox[t] = {} BY <1>11
  <2> QED BY <1>2, <1>6, <1>7, <2>1, <2>2, <2>3, <2>4, SaysMore
<1>12. ASSUME s = ws, IsOpen(s), NEW ms \in Seq(MessageType), Put(s, ms),
              \A k \in 1..Len(ms) : Verdict(ms[k], ok)
       PROVE  Delivery'
  <2>1. /\ \A q \in Sockets \ {s} : inbox'[q] = inbox[q]
        /\ DOMAIN inbox[s] = 1..n /\ DOMAIN inbox'[s] = 1..Len(inbox'[s])
        /\ n \in Nat /\ Len(ms) \in Nat /\ Len(inbox'[s]) = n + Len(ms)
        /\ \A k \in 1..n : inbox'[s][k] = inbox[s][k]
        /\ \A k \in n + 1 .. Len(inbox'[s]) : k - n \in 1..Len(ms) /\ inbox'[s][k] = ms[k - n]
    BY <1>4, <1>12, PutKeeps DEF IInv
  <2>2. \A t \in Sockets : \A k \in DOMAIN inbox[t] : inbox'[t][k] = inbox[t][k] BY <2>1
  <2>3. \A t \in Sockets : Len(inbox[t]) <= Len(inbox'[t]) BY <1>8, <2>1
  <2>4. \A q \in pending : Reporting(q)' => AllComing(q, Len(inbox[req[q].on]) + 1)'
    BY <1>9, <1>10, <2>2, <2>3
  <2>5. ASSUME NEW t \in Sockets, NEW k \in DOMAIN inbox'[t] \ DOMAIN inbox[t]
        PROVE  /\ Fits(inbox'[t][k], work')
               /\ \A q \in pending : req[q].on = t /\ Answers(inbox'[t][k]) /\ inbox'[t][k].r = q
                    => AllComing(q, k)'
    <3>1. t = s BY <2>1, <2>5
    <3>2. k \in Nat /\ k > n /\ k \in n + 1 .. Len(inbox'[s]) BY <2>1, <2>5, <3>1
    <3>a. k - n \in 1..Len(ms) /\ inbox'[s][k] = ms[k - n] BY <2>1, <3>2
    <3>b. Verdict(ms[k - n], ok) BY <1>12, <3>a
    <3>3. Verdict(inbox'[s][k], ok) BY <3>a, <3>b
    <3>4. Fits(inbox'[s][k], work') BY <1>3, <3>3 DEF Fits
    <3>5. ASSUME r \in pending, req[r].on = s PROVE AllComing(r, k)'
      <4>1. Reporting(r) BY <1>2, <1>12 DEF Reporting, IsOpen, s
      <4> QED BY <1>3, <1>9, <2>2, <2>3, <3>2, <3>5, <4>1
    <3> QED BY <3>1, <3>3, <3>4, <3>5
  <2> QED BY <1>2, <1>6, <1>7, <2>2, <2>3, <2>4, <2>5, SaysMore
<1> QED BY <1>5, <1>11, <1>12

-----------------------------------------------------------------------------
LEMMA RequestDelivers ==
    ASSUME IInv, IInv', Delivery, NEW r \in Requests,
           Send(r) \/ Request(r) \/ Timeout(r) \/ Cancel(r)
    PROVE  Delivery'
<1>0. req \in ReqType /\ r \in DOMAIN req BY DEF IInv, TypeOK, ReqType
<1>1. ASSUME NEW to \in UnderWay, req' = [req EXCEPT ![r].at = to], req[r].at \in UnderWay \ {"queued"},
             to # "queued", UNCHANGED <<hub, link, inbox, outbox, daemon, ext, lost>>
      PROVE  Delivery'
  <2>1. /\ req'[r].at = to /\ req'[r].on = req[r].on
        /\ \A q \in Requests \ {r} : req'[q] = req[q]
    BY <1>0, <1>1, StageType
  <2> QED BY <1>1, <2>1, GoesOnDelivers
<1>2. ASSUME NEW outcome \in Over, req[r].at \in UnderWay, Leave(r, outcome),
             outcome = "ok" => req[r].at = "collecting" /\ answer[r] = "yes"
      PROVE  Delivery'
  BY <1>2, LeaveDelivers
<1>3. CASE Send(r)
  <2>1. session \in Sockets BY <1>3 DEF Send, IInv, SessionIsUp
  <2>2. CASE Transmit(r, session) BY <1>3, <2>1, <2>2, TransmitDelivers DEF Send
  <2>3. CASE /\ req' = [req EXCEPT ![r] = [at |-> "queued", on |-> session, got |-> {}]]
             /\ UNCHANGED <<hub, link, inbox, outbox, daemon, ext, lost>>
    <3> DEFINE queued == [at |-> "queued", on |-> session, got |-> {}]
    <3>1. queued.at = "queued" /\ req' = [req EXCEPT ![r] = queued] BY <2>3
    <3> HIDE DEF queued
    <3>2. req'[r].at = "queued" /\ \A q \in Requests \ {r} : req'[q] = req[q]
      BY <1>0, <3>1 DEF ReqType
    <3>3. req[r].at = "idle" BY <1>3 DEF Send
    <3> QED BY <2>3, <3>2, <3>3, GoesOnDelivers
  <2> QED BY <1>3, <2>2, <2>3 DEF Send
<1>4. CASE GetLock(r)
  <2>1. req[r].at = "queued" /\ req[r].on \in Sockets BY <1>4 DEF GetLock, IInv, Placed
  <2>2. CASE Transmit(r, req[r].on) BY <2>1, <2>2, TransmitDelivers
  <2> QED BY <1>2, <1>4, <2>1, <2>2 DEF GetLock
<1>5. CASE Sent(r) BY <1>1, <1>2, <1>5 DEF Sent
<1>6. CASE Answered(r) BY <1>1, <1>2, <1>6 DEF Answered
<1>7. CASE Collected(r)
  <2>1. CASE answer[r] = "yes" BY <1>2, <1>7, <2>1 DEF Collected
  <2>2. CASE answer[r] # "yes" BY <1>2, <1>7, <2>2 DEF Collected
  <2> QED BY <2>1, <2>2
<1>8. CASE Timeout(r) BY <1>2, <1>8 DEF Timeout
<1>9. CASE Cancel(r) BY <1>2, <1>9 DEF Cancel
<1> QED BY <1>3, <1>4, <1>5, <1>6, <1>7, <1>8, <1>9 DEF Request

LEMMA ConnectionEndsDelivers ==
    ASSUME IInv, IInv', Delivery, HubStop \/ \E s \in Sockets : ReaderEnds(s) PROVE Delivery'
<1>1. ASSUME UNCHANGED <<daemon, lost, outbox, req, ext>>,
             \A q \in Sockets : /\ link'[q] = "up" => link[q] = "up"
                                /\ link[q] # "unused" => link'[q] # "unused"
                                /\ inbox'[q] = inbox[q] \/ (inbox'[q] = << >> /\ link'[q] # "up")
      PROVE  Delivery'
  <2>1. ArtifactsComplete' BY <1>1, CompleteStays DEF Delivery, ext
  <2> QED BY <1>1, <2>1, QuietStep DEF daemon, ext
<1>2. ASSUME NEW s \in Sockets, ReaderEnds(s) PROVE Delivery'
  <2>1. \A q \in Sockets : /\ link'[q] = "up" => link[q] = "up"
                           /\ link[q] # "unused" => link'[q] # "unused"
                           /\ inbox'[q] = inbox[q] \/ (inbox'[q] = << >> /\ link'[q] # "up")
    BY <1>2 DEF ReaderEnds, IInv, TypeOK
  <2>2. CASE session = s BY <1>2, <2>1, <2>2, FailDelivers DEF ReaderEnds
  <2>3. CASE session # s BY <1>1, <1>2, <2>1, <2>3 DEF ReaderEnds
  <2> QED BY <2>2, <2>3
<1>3. CASE HubStop
  <2>1. \A q \in Sockets : /\ link'[q] = "up" => link[q] = "up"
                           /\ link[q] # "unused" => link'[q] # "unused"
                           /\ inbox'[q] = inbox[q]
    BY <1>3 DEF HubStop, IInv, TypeOK
  <2>2. CASE session # None BY <1>3, <2>1, <2>2, FailDelivers DEF HubStop
  <2>3. CASE session = None BY <1>1, <1>3, <2>1, <2>3 DEF HubStop
  <2> QED BY <2>2, <2>3
<1> QED BY <1>2, <1>3

LEMMA StepDelivery == IInv /\ IInv' /\ Delivery /\ [Next]_vars => Delivery'
<1> SUFFICES ASSUME IInv, IInv', Delivery, [Next]_vars PROVE Delivery' OBVIOUS
<1>1. ASSUME NEW r \in Requests, Send(r) \/ Request(r) \/ Timeout(r) \/ Cancel(r) PROVE Delivery'
  BY <1>1, RequestDelivers
<1>2. ASSUME NEW r \in Requests, Take(r) \/ Emit(r) \/ Reply(r) PROVE Delivery'
  BY <1>2, TakeDelivers, EmitDelivers, ReplyDelivers
<1>3. ASSUME NEW s \in Sockets, Accept(s) \/ Read(s) \/ Cut(s) PROVE Delivery'
  BY <1>3, AcceptDelivers, ReadDelivers, CutDelivers
<1>4. CASE HubStop \/ \E s \in Sockets : ReaderEnds(s) BY <1>4, ConnectionEndsDelivers
<1>5. CASE Connect BY <1>5, ConnectDelivers
<1>6. CASE UNCHANGED vars
  <2>1. UNCHANGED <<req, pending, answer, buffers, completed, lost, link, inbox, outbox, work, ws>>
    BY <1>6 DEF vars, daemon, ext
  <2>2. ArtifactsComplete' BY <2>1, CompleteStays DEF Delivery
  <2> QED BY <2>1, <2>2, QuietStep
<1> QED BY <1>1, <1>2, <1>3, <1>4, <1>5, <1>6 DEF Next

(* What a request returns is what the extension did for it: the extension    *)
(* answers on the socket of the request only and after its artifacts, the    *)
(* daemon reads in that order, and whoever discards a buffer on the way has  *)
(* ended the request or failed its session.                                  *)
THEOREM ArtifactsArrive == Spec => []ArtifactsComplete
<1>1. Delivery => ArtifactsComplete BY DEF Delivery
<1> QED BY <1>1, InitDelivery, StepDelivery, Invariance, PTL DEF Spec
=============================================================================
