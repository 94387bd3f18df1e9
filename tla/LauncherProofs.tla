---------------------------- MODULE LauncherProofs ----------------------------
(* Theorems about Launcher, for any number of CLI processes, of daemons and  *)
(* of faults: no command reaches the daemon of another version, and launches *)
(* that do not overlap leave at most one daemon, which can be found.         *)
EXTENDS Launcher, FiniteSetTheorems, TLAPS

States == {"gone", "serving"} \cup Starting \cup Ending
Places == {"idle", "ensure", "probe", "again", "kill", "dying", "remove", "reprobe", "spawn",
           "await", "giveup", "send", "stop", "status", "reply", "stopreply", "waitstop"}
Rests == {<< >>, <<"send">>, <<"status">>, <<"ensure", "status">>,
          <<"send", "status">>, <<"clean", "ensure", "status">>,
          <<"ensure", "send", "status">>, <<"waitstop", "ensure", "status">>,
          <<"waitstop", "clean", "ensure", "status">>,
          <<"status", "ensure", "send", "status">>,
          <<"stop", "waitstop", "ensure", "status">>,
          <<"status", "stop", "waitstop", "ensure", "status">>,
          <<"ensure", "status", "ensure", "send", "status">>,
          <<"waitstop", "ensure", "status", "ensure", "send", "status">>,
          <<"stop", "waitstop", "ensure", "status", "ensure", "send", "status">>,
          <<"status", "stop", "waitstop", "ensure", "status", "ensure", "send", "status">>}
Known == Daemons \cup {None}
JobType == [seen : Known, victim : Known, own : Known, fast : BOOLEAN,
            then : {"idle", "proceed", "retry", "last"}, todo : Rests]

TypeOK ==
    /\ at \in [Daemons -> States]
    /\ path \in Known /\ info \in Known /\ port \in Known
    /\ pc \in [Clients -> Places] /\ job \in [Clients -> JobType]

(* A client sends only after it has looked for a daemon. *)
Sends == {<<"send">>, <<"send", "status">>}
Elsewhere == {"idle", "send", "stop", "status", "reply", "stopreply", "waitstop"}
LooksFirst == \A c \in Clients : job[c].todo \in Sends => pc[c] \notin Elsewhere

(* The old daemon is never launched, and as long as the socket at the path   *)
(* is its own nothing has happened: no other daemon has come further than    *)
(* to be launched, the run info is its own, and nobody has seen another one  *)
(* or has removed what was there.                                            *)
OldIsUntouched ==
    Old # None =>
        /\ at[Old] \notin Starting
        /\ path = Old =>
             /\ info = Old
             /\ \A d \in Daemons \ {Old} : at[d] = "gone"
             /\ \A c \in Clients : /\ job[c].seen \in {None, Old}
                                   /\ pc[c] \notin {"reprobe", "spawn", "await", "giveup", "send"}

(* The port belongs to a daemon that has bound it. *)
PortIsHeld == \A d \in Daemons : port = d => at[d] \in {"bound", "listening", "serving", "closed"}

(* While launches do not overlap: one daemon at most, which is named by both *)
(* files from the moment that it serves; none that is starting while a       *)
(* client removes files or is about to launch another; and none at all then. *)
Single == \A d, e \in Daemons : Alive(d) /\ Alive(e) => d = e
Findable ==
    \A d \in Daemons : /\ at[d] = "listening" => path = d
                       /\ at[d] \in {"serving"} \cup Ending => path = d /\ info = d
Removing == {"remove", "reprobe", "spawn"}
Cleared ==
    \A c \in Clients, d \in Daemons :
        /\ Alive(d) => pc[c] \notin Removing
        /\ Alive(d) /\ pc[c] = "dying" => d = job[c].victim /\ at[d] \notin Starting
Lone == ~overlapped => Single /\ Findable /\ Cleared

IInv == TypeOK /\ LooksFirst /\ OldIsUntouched /\ PortIsHeld /\ Lone

USE DEF Starting, Ending

-----------------------------------------------------------------------------
LEMMA InitIInv == Init => IInv
<1> SUFFICES ASSUME Init PROVE IInv OBVIOUS
<1> USE DaemonAssumption DEF Init
<1>1. TypeOK
  <2>1. Blank \in JobType BY DEF Blank, JobType, Known, Rests
  <2>2. job \in [Clients -> JobType] BY <2>1
  <2> QED BY <2>2 DEF TypeOK, States, Places, Known
<1>2. LooksFirst BY DEF LooksFirst, Blank, Sends
<1>3. OldIsUntouched BY DEF OldIsUntouched, Blank
<1>4. PortIsHeld BY DEF PortIsHeld
<1>5. Lone BY DEF Lone, Single, Findable, Cleared, Alive, Removing
<1> QED BY <1>1, <1>2, <1>3, <1>4, <1>5 DEF IInv

(* What a client does next, and what it knows then. *)
LEMMA RestFacts ==
    ASSUME NEW todo \in Rests, todo # << >>
    PROVE  /\ Head(todo) \in {"send", "ensure", "clean", "waitstop", "stop", "status"}
           /\ Tail(todo) \in Rests /\ Len(Tail(todo)) = Len(todo) - 1
           /\ Head(todo) = "send" => todo \in Sends
           /\ Tail(todo) \in Sends => Head(todo) = "ensure"
<1> DEFINE Fact(head, tail) ==
             /\ Head(todo) = head /\ Tail(todo) = tail /\ Len(tail) = Len(todo) - 1
             /\ head = "send" => todo \in Sends
             /\ tail \in Sends => head = "ensure"
<1>0. << >> \notin Sends BY DEF Sends
<1>1. CASE todo = <<"send">>
  <2>1. Fact("send", << >>) BY <1>0, <1>1 DEF Sends
  <2> QED BY <2>1 DEF Rests
<1>2. CASE todo = <<"status">>
  <2>1. Fact("status", << >>) BY <1>0, <1>2 DEF Sends
  <2> QED BY <2>1 DEF Rests
<1>3. CASE todo = <<"ensure", "status">>
  <2>1. Fact("ensure", <<"status">>) BY <1>0, <1>3 DEF Sends
  <2> QED BY <2>1 DEF Rests
<1>4. CASE todo = <<"send", "status">>
  <2>1. Fact("send", <<"status">>) BY <1>0, <1>4 DEF Sends
  <2> QED BY <2>1 DEF Rests
<1>5. CASE todo = <<"clean", "ensure", "status">>
  <2>1. Fact("clean", <<"ensure", "status">>) BY <1>0, <1>5 DEF Sends
  <2> QED BY <2>1 DEF Rests
<1>6. CASE todo = <<"ensure", "send", "status">>
  <2>1. Fact("ensure", <<"send", "status">>) BY <1>0, <1>6 DEF Sends
  <2> QED BY <2>1 DEF Rests
<1>7. CASE todo = <<"waitstop", "ensure", "status">>
  <2>1. Fact("waitstop", <<"ensure", "status">>) BY <1>0, <1>7 DEF Sends
  <2> QED BY <2>1 DEF Rests
<1>8. CASE todo = <<"waitstop", "clean", "ensure", "status">>
  <2>1. Fact("waitstop", <<"clean", "ensure", "status">>) BY <1>0, <1>8 DEF Sends
  <2> QED BY <2>1 DEF Rests
<1>9. CASE todo = <<"status", "ensure", "send", "status">>
  <2>1. Fact("status", <<"ensure", "send", "status">>) BY <1>0, <1>9 DEF Sends
  <2> QED BY <2>1 DEF Rests
<1>10. CASE todo = <<"stop", "waitstop", "ensure", "status">>
  <2>1. Fact("stop", <<"waitstop", "ensure", "status">>) BY <1>0, <1>10 DEF Sends
  <2> QED BY <2>1 DEF Rests
<1>11. CASE todo = <<"status", "stop", "waitstop", "ensure", "status">>
  <2>1. Fact("status", <<"stop", "waitstop", "ensure", "status">>) BY <1>0, <1>11 DEF Sends
  <2> QED BY <2>1 DEF Rests
<1>12. CASE todo = <<"ensure", "status", "ensure", "send", "status">>
  <2>1. Fact("ensure", <<"status", "ensure", "send", "status">>) BY <1>0, <1>12 DEF Sends
  <2> QED BY <2>1 DEF Rests
<1>13. CASE todo = <<"waitstop", "ensure", "status", "ensure", "send", "status">>
  <2>1. Fact("waitstop", <<"ensure", "status", "ensure", "send", "status">>)
    BY <1>0, <1>13 DEF Sends
  <2> QED BY <2>1 DEF Rests
<1>14. CASE todo = <<"stop", "waitstop", "ensure", "status", "ensure", "send", "status">>
  <2>1. Fact("stop", <<"waitstop", "ensure", "status", "ensure", "send", "status">>)
    BY <1>0, <1>14 DEF Sends
  <2> QED BY <2>1 DEF Rests
<1>15. CASE todo = <<"status", "stop", "waitstop", "ensure", "status", "ensure", "send", "status">>
  <2>1. Fact("status", <<"stop", "waitstop", "ensure", "status", "ensure", "send", "status">>)
    BY <1>0, <1>15 DEF Sends
  <2> QED BY <2>1 DEF Rests
<1> QED
  BY <1>1, <1>2, <1>3, <1>4, <1>5, <1>6, <1>7, <1>8,
     <1>9, <1>10, <1>11, <1>12, <1>13, <1>14, <1>15
     DEF Rests

LEMMA ProceedFacts ==
    ASSUME IInv, NEW c \in Clients, Proceed(c)
    PROVE  /\ pc' \in [Clients -> Places] /\ job' \in [Clients -> JobType]
           /\ pc'[c] \in {"idle", "kill", "stop", "waitstop", "ensure", "send", "status"}
           /\ pc'[c] = "send" => job[c].todo \in Sends
           /\ job'[c].todo \in Sends => pc'[c] = "ensure"
           /\ job'[c].seen = None
           /\ \A b \in Clients \ {c} : pc'[b] = pc[b] /\ job'[b] = job[b]
<1> DEFINE todo == job[c].todo
<1>1. /\ job \in [Clients -> JobType] /\ pc \in [Clients -> Places]
      /\ todo \in Rests
  BY DEF IInv, TypeOK, JobType
<1>2. CASE todo = << >>
  <2>1. Blank \in JobType /\ Blank.todo = << >> /\ Blank.seen = None /\ << >> \notin Sends
    BY DEF Blank, JobType, Known, Rests, Sends
  <2>2. pc' = [pc EXCEPT ![c] = "idle"] /\ job' = [job EXCEPT ![c] = Blank]
    BY <1>2 DEF Proceed, Goto
  <2> HIDE DEF todo
  <2> QED BY <1>1, <2>1, <2>2 DEF Places
<1>3. CASE todo # << >>
  <2> DEFINE next == [Blank EXCEPT !.todo = Tail(todo), !.fast = Head(todo) = "clean",
                                   !.then = IF Head(todo) = "clean" THEN "proceed" ELSE "idle"]
             place == IF Head(todo) = "clean" THEN "kill" ELSE Head(todo)
  <2>1. /\ Head(todo) \in {"send", "ensure", "clean", "waitstop", "stop", "status"}
        /\ Tail(todo) \in Rests
        /\ Head(todo) = "send" => todo \in Sends
        /\ Tail(todo) \in Sends => Head(todo) = "ensure"
    BY <1>1, <1>3, RestFacts
  <2>2. pc' = [pc EXCEPT ![c] = place] /\ job' = [job EXCEPT ![c] = next]
    BY <1>3 DEF Proceed, Goto
  <2> HIDE DEF todo
  <2>3. next \in JobType /\ next.todo = Tail(todo) /\ next.seen = None
    BY <2>1 DEF Blank, JobType, Known
  <2>4. /\ place \in {"kill", "send", "ensure", "waitstop", "stop", "status"}
        /\ place = "send" => todo \in Sends
        /\ next.todo \in Sends => place = "ensure"
    BY <2>1, <2>3
  <2> HIDE DEF next, place
  <2>5. pc'[c] = place /\ job'[c] = next BY <1>1, <2>2
  <2> QED BY <1>1, <2>1, <2>2, <2>3, <2>4, <2>5 DEF Places, todo
<1> QED BY <1>2, <1>3

LEMMA FieldFacts ==
    ASSUME TypeOK, NEW c \in Clients
    PROVE  /\ \A v \in Known : job' = [job EXCEPT ![c].seen = v] =>
                /\ job' \in [Clients -> JobType] /\ job'[c].seen = v
                /\ job'[c].todo = job[c].todo
                /\ \A b \in Clients \ {c} : job'[b] = job[b]
           /\ \A v \in Known : job' = [job EXCEPT ![c].victim = v] =>
                /\ job' \in [Clients -> JobType] /\ job'[c].victim = v
                /\ job'[c].todo = job[c].todo /\ job'[c].seen = job[c].seen
                /\ \A b \in Clients \ {c} : job'[b] = job[b]
           /\ \A v \in Known : job' = [job EXCEPT ![c].own = v] =>
                /\ job' \in [Clients -> JobType]
                /\ job'[c].todo = job[c].todo /\ job'[c].seen = job[c].seen
                /\ \A b \in Clients \ {c} : job'[b] = job[b]
           /\ \A v \in {"idle", "proceed", "retry", "last"} : job' = [job EXCEPT ![c].then = v] =>
                /\ job' \in [Clients -> JobType]
                /\ job'[c].todo = job[c].todo /\ job'[c].seen = job[c].seen
                /\ \A b \in Clients \ {c} : job'[b] = job[b]
           /\ \A v \in Rests : job' = [job EXCEPT ![c].todo = v] =>
                /\ job' \in [Clients -> JobType]
                /\ job'[c].todo = v /\ job'[c].seen = job[c].seen
                /\ \A b \in Clients \ {c} : job'[b] = job[b]
<1>1. job \in [Clients -> JobType] /\ job[c] \in JobType BY DEF TypeOK
<1>2. ASSUME NEW rec \in JobType, job' = [job EXCEPT ![c] = rec]
      PROVE  /\ job' \in [Clients -> JobType] /\ job'[c] = rec
             /\ \A b \in Clients \ {c} : job'[b] = job[b]
  BY <1>1, <1>2
<1>3. ASSUME NEW v \in Known
      PROVE  /\ [job[c] EXCEPT !.seen = v] \in JobType
             /\ [job[c] EXCEPT !.seen = v].seen = v
             /\ [job[c] EXCEPT !.seen = v].todo = job[c].todo
             /\ [job[c] EXCEPT !.victim = v] \in JobType
             /\ [job[c] EXCEPT !.victim = v].victim = v
             /\ [job[c] EXCEPT !.victim = v].seen = job[c].seen
             /\ [job[c] EXCEPT !.victim = v].todo = job[c].todo
             /\ [job[c] EXCEPT !.own = v] \in JobType
             /\ [job[c] EXCEPT !.own = v].seen = job[c].seen
             /\ [job[c] EXCEPT !.own = v].todo = job[c].todo
  BY <1>1 DEF JobType
<1>4. ASSUME NEW v \in {"idle", "proceed", "retry", "last"}
      PROVE  /\ [job[c] EXCEPT !.then = v] \in JobType
             /\ [job[c] EXCEPT !.then = v].seen = job[c].seen
             /\ [job[c] EXCEPT !.then = v].todo = job[c].todo
  BY <1>1 DEF JobType
<1>5. ASSUME NEW v \in Rests
      PROVE  /\ [job[c] EXCEPT !.todo = v] \in JobType
             /\ [job[c] EXCEPT !.todo = v].seen = job[c].seen
             /\ [job[c] EXCEPT !.todo = v].todo = v
  BY <1>1 DEF JobType
<1>6. ASSUME NEW v \in Known, job' = [job EXCEPT ![c].seen = v]
      PROVE  /\ job' \in [Clients -> JobType] /\ job'[c].seen = v
             /\ job'[c].todo = job[c].todo
             /\ \A b \in Clients \ {c} : job'[b] = job[b]
  <2>1. job' = [job EXCEPT ![c] = [job[c] EXCEPT !.seen = v]] BY <1>6
  <2> QED BY <1>2, <1>3, <2>1
<1>7. ASSUME NEW v \in Known, job' = [job EXCEPT ![c].victim = v]
      PROVE  /\ job' \in [Clients -> JobType] /\ job'[c].victim = v
             /\ job'[c].todo = job[c].todo /\ job'[c].seen = job[c].seen
             /\ \A b \in Clients \ {c} : job'[b] = job[b]
  <2>1. job' = [job EXCEPT ![c] = [job[c] EXCEPT !.victim = v]] BY <1>7
  <2> QED BY <1>2, <1>3, <2>1
<1>8. ASSUME NEW v \in Known, job' = [job EXCEPT ![c].own = v]
      PROVE  /\ job' \in [Clients -> JobType]
             /\ job'[c].todo = job[c].todo /\ job'[c].seen = job[c].seen
             /\ \A b \in Clients \ {c} : job'[b] = job[b]
  <2>1. job' = [job EXCEPT ![c] = [job[c] EXCEPT !.own = v]] BY <1>8
  <2> QED BY <1>2, <1>3, <2>1
<1>9. ASSUME NEW v \in {"idle", "proceed", "retry", "last"}, job' = [job EXCEPT ![c].then = v]
      PROVE  /\ job' \in [Clients -> JobType]
             /\ job'[c].todo = job[c].todo /\ job'[c].seen = job[c].seen
             /\ \A b \in Clients \ {c} : job'[b] = job[b]
  <2>1. job' = [job EXCEPT ![c] = [job[c] EXCEPT !.then = v]] BY <1>9
  <2> QED BY <1>2, <1>4, <2>1
<1>10. ASSUME NEW v \in Rests, job' = [job EXCEPT ![c].todo = v]
       PROVE  /\ job' \in [Clients -> JobType]
              /\ job'[c].todo = v /\ job'[c].seen = job[c].seen
              /\ \A b \in Clients \ {c} : job'[b] = job[b]
  <2>1. job' = [job EXCEPT ![c] = [job[c] EXCEPT !.todo = v]] BY <1>10
  <2> QED BY <1>2, <1>5, <2>1
<1> QED BY <1>6, <1>7, <1>8, <1>9, <1>10

-----------------------------------------------------------------------------
(* A step of a client by which daemons may die, but nothing else happens to  *)
(* them.                                                                     *)
Fewer ==
    /\ at' \in [Daemons -> States] /\ port' \in Known
    /\ \A d \in Daemons : /\ at'[d] \in {at[d], "gone"}
                          /\ port' = d => port = d /\ at'[d] = at[d]
Moves(c) ==
    /\ pc' \in [Clients -> Places] /\ job' \in [Clients -> JobType]
    /\ \A b \in Clients \ {c} : pc'[b] = pc[b] /\ job'[b] = job[b]

LEMMA NoneFewer == ASSUME TypeOK, UNCHANGED <<at, port>> PROVE Fewer
BY DEF TypeOK, Fewer

LEMMA DieFewer == ASSUME TypeOK, NEW d \in Known, Die(d) PROVE Fewer
<1>1. None \notin Daemons BY DaemonAssumption
<1>2. CASE d \in Daemons
  <2>1. at' = [at EXCEPT ![d] = "gone"] /\ port' \in {port, None} /\ port' # d
    BY <1>1, <1>2 DEF Die
  <2> QED BY <1>1, <1>2, <2>1 DEF TypeOK, Fewer, States, Known
<1>3. CASE d = None
  <2>1. at' = at /\ port' = port BY <1>1, <1>3 DEF Die, TypeOK
  <2> QED BY <2>1, NoneFewer
<1> QED BY <1>2, <1>3 DEF Known

LEMMA TerminateFewer == ASSUME TypeOK, NEW d \in Known, Terminate(d) PROVE Fewer
BY NoneFewer, DieFewer DEF Terminate

LEMMA ClientStep ==
    ASSUME IInv, NEW c \in Clients, Fewer, Moves(c), UNCHANGED <<path, info>>,
           job'[c].todo \in Sends => pc'[c] \notin Elsewhere,
           Old # None /\ path = Old =>
               /\ job'[c].seen \in {None, Old}
               /\ pc'[c] \notin {"reprobe", "spawn", "await", "giveup", "send"},
           ~overlapped' =>
               /\ ~overlapped
               /\ \A d \in Daemons : Alive(d)' =>
                     /\ pc'[c] \notin Removing
                     /\ pc'[c] = "dying" => d = job'[c].victim /\ at'[d] \notin Starting
    PROVE  IInv'
<1> USE DEF Fewer, Moves
<1>1. TypeOK' BY DEF IInv, TypeOK
<1>2. LooksFirst' BY DEF IInv, LooksFirst
<1>3. OldIsUntouched'
  <2>1. Old # None => Old \in Daemons BY DaemonAssumption
  <2> QED BY <2>1 DEF IInv, OldIsUntouched
<1>4. PortIsHeld' BY DEF IInv, PortIsHeld
<1>5. Lone'
  <2> SUFFICES ASSUME ~overlapped' PROVE Single' /\ Findable' /\ Cleared' BY DEF Lone
  <2>1. Single /\ Findable /\ Cleared BY DEF IInv, Lone
  <2>2. \A d \in Daemons : Alive(d)' => Alive(d) /\ at'[d] = at[d] BY DEF Alive
  <2>3. Single' BY <2>1, <2>2 DEF Single
  <2>4. Findable' BY <2>1, <2>2 DEF Findable, Alive
  <2>5. Cleared'
    <3> SUFFICES ASSUME NEW b \in Clients, NEW d \in Daemons, Alive(d)'
                 PROVE  /\ pc'[b] \notin Removing
                        /\ pc'[b] = "dying" => d = job'[b].victim /\ at'[d] \notin Starting
      BY DEF Cleared
    <3>1. CASE b = c BY <3>1
    <3>2. CASE b # c BY <2>1, <2>2, <3>2 DEF Cleared
    <3> QED BY <3>1, <3>2
  <2> QED BY <2>3, <2>4, <2>5
<1> QED BY <1>1, <1>2, <1>3, <1>4, <1>5 DEF IInv

-----------------------------------------------------------------------------
(* The steps of a client that leave the daemons and the files alone.         *)
LEMMA NoneCleared ==
    ASSUME IInv, NEW c \in Clients
    PROVE  \A d \in Daemons : ~overlapped /\ Alive(d) =>
               /\ pc[c] \notin Removing
               /\ pc[c] = "dying" => d = job[c].victim /\ at[d] \notin Starting
BY DEF IInv, Lone, Cleared

LEMMA GoneOn ==
    ASSUME IInv, NEW c \in Clients, UNCHANGED <<at, port>> \/ Fewer, Moves(c),
           UNCHANGED <<path, info>>,
           overlapped => overlapped',
           job'[c].todo \in Sends => pc'[c] \notin Elsewhere,
           job'[c].seen \in {None, job[c].seen, info},
           pc'[c] \in {"spawn", "await", "giveup", "send", "reprobe"} =>
               (Old # None => path # Old),
           pc'[c] \notin Removing \cup {"dying"}
    PROVE  IInv'
<1>1. Fewer BY NoneFewer DEF IInv
<1>2. Old # None /\ path = Old => job'[c].seen \in {None, Old}
  BY DEF IInv, OldIsUntouched
<1> QED BY <1>1, <1>2, ClientStep

(* An old daemon at the socket's path is never sent to.                      *)
LEMMA FoundIsNew ==
    ASSUME IInv, NEW c \in Clients, Old # None,
           \/ pc[c] \in {"reprobe", "spawn", "await", "giveup", "send"}
           \/ Compatible(job[c].seen)
    PROVE  path # Old
BY DEF IInv, OldIsUntouched, Compatible

LEMMA ProceedPreserves ==
    ASSUME IInv, NEW c \in Clients, Proceed(c), UNCHANGED <<at, port, path, info>>,
           overlapped => overlapped',
           job[c].todo \in Sends => (Old # None => path # Old)
    PROVE  IInv'
<1>1. Moves(c) BY ProceedFacts DEF Moves
<1>2. /\ pc'[c] \in {"idle", "kill", "stop", "waitstop", "ensure", "send", "status"}
      /\ pc'[c] = "send" => job[c].todo \in Sends
      /\ job'[c].todo \in Sends => pc'[c] = "ensure"
      /\ job'[c].seen = None
  BY ProceedFacts
<1>3. pc'[c] \notin Removing \cup {"dying"} BY <1>2 DEF Removing
<1>4. "ensure" \notin Elsewhere BY DEF Elsewhere
<1> QED BY <1>1, <1>2, <1>3, <1>4, GoneOn

LEMMA FailFacts ==
    ASSUME TypeOK, NEW c \in Clients, Fail(c)
    PROVE  Moves(c) /\ pc'[c] = "idle" /\ job'[c].seen = None /\ job'[c].todo = << >>
<1>1. Blank \in JobType /\ Blank.todo = << >> /\ Blank.seen = None
  BY DEF Blank, JobType, Known, Rests
<1> QED BY <1>1 DEF TypeOK, Fail, Goto, Moves, Places

LEMMA FailPreserves ==
    ASSUME IInv, NEW c \in Clients, Fail(c), UNCHANGED <<at, port>> \/ Fewer,
           UNCHANGED <<path, info>>, overlapped => overlapped'
    PROVE  IInv'
<1>1. Moves(c) /\ pc'[c] = "idle" /\ job'[c].seen = None /\ job'[c].todo = << >>
  BY FailFacts DEF IInv
<1>2. << >> \notin Sends BY DEF Sends
<1>3. pc'[c] \notin Removing \cup {"dying"} BY <1>1 DEF Removing
<1> QED BY <1>1, <1>2, <1>3, GoneOn

LEMMA BeginPreserves ==
    ASSUME IInv, NEW c \in Clients, NEW program \in ProgramsOf[c], Begin(c, program) PROVE IInv'
<1>1. program \in {Command, Stop, Reload, Check, Rebuild, Recover, RecoverAndRebuild}
  BY ProgramsAssumption
<1>2. /\ Head(program) \in {"ensure", "stop"} /\ Tail(program) \in Rests
      /\ Tail(program) \in Sends => Head(program) = "ensure"
  <2>1. CASE program = Command
    <3>1. Head(program) = "ensure" /\ Tail(program) = <<"send">>
      BY <2>1 DEF Command
    <3> QED BY <3>1 DEF Rests, Sends
  <2>2. CASE program = Stop
    <3>1. Head(program) = "stop" /\ Tail(program) = << >>
      BY <2>2 DEF Stop
    <3> QED BY <3>1 DEF Rests, Sends
  <2>3. CASE program = Reload
    <3>1. Head(program) = "stop" /\ Tail(program) = <<"waitstop", "clean", "ensure", "status">>
      BY <2>3 DEF Reload
    <3> QED BY <3>1 DEF Rests, Sends
  <2>4. CASE program = Check
    <3>1. Head(program) = "ensure" /\ Tail(program) = <<"status">>
      BY <2>4 DEF Check
    <3> QED BY <3>1 DEF Rests, Sends
  <2>5. CASE program = Rebuild
    <3>1. Head(program) = "ensure" /\ Tail(program) = <<"status", "ensure", "send", "status">>
      BY <2>5 DEF Rebuild
    <3> QED BY <3>1 DEF Rests, Sends
  <2>6. CASE program = Recover
    <3>1. /\ Head(program) = "ensure"
          /\ Tail(program) = <<"status", "stop", "waitstop", "ensure", "status">>
      BY <2>6 DEF Recover
    <3> QED BY <3>1 DEF Rests, Sends
  <2>7. CASE program = RecoverAndRebuild
    <3>1. /\ Head(program) = "ensure"
          /\ Tail(program) =
                <<"status", "stop", "waitstop", "ensure", "status", "ensure", "send", "status">>
      BY <2>7 DEF RecoverAndRebuild
    <3> QED BY <3>1 DEF Rests, Sends
  <2> QED BY <1>1, <2>1, <2>2, <2>3, <2>4, <2>5, <2>6, <2>7
<1> DEFINE todo == Tail(program)
<1>3. job' = [job EXCEPT ![c].todo = todo] /\ pc' = [pc EXCEPT ![c] = Head(program)]
  BY DEF Begin, Goto
<1> HIDE DEF todo
<1>4. todo \in Rests /\ (todo \in Sends => Head(program) = "ensure") BY <1>2 DEF todo
<1>5. /\ job' \in [Clients -> JobType] /\ job'[c].todo = todo /\ job'[c].seen = job[c].seen
      /\ \A b \in Clients \ {c} : job'[b] = job[b]
  BY <1>3, <1>4, FieldFacts DEF IInv
<1>6. /\ pc' \in [Clients -> Places] /\ pc'[c] = Head(program)
      /\ \A b \in Clients \ {c} : pc'[b] = pc[b]
  BY <1>2, <1>3 DEF IInv, TypeOK, Places
<1>7. UNCHANGED <<at, port, path, info, overlapped>> BY DEF Begin, daemonVars
<1>8. Moves(c) BY <1>5, <1>6 DEF Moves
<1> QED BY <1>2, <1>4, <1>5, <1>6, <1>7, <1>8, GoneOn DEF Removing, Elsewhere

LEMMA LookPreserves ==
    ASSUME IInv, NEW c \in Clients, ReadInfo(c) \/ Probe(c) \/ ProbeAgain(c) PROVE IInv'
<1>0. TypeOK /\ job[c].seen \in Known /\ info \in Known /\ None \in Known
  BY DEF IInv, TypeOK, JobType, Known
<1>1. CASE ReadInfo(c)
  <2>1. /\ job' = [job EXCEPT ![c].seen = info] /\ pc' = [pc EXCEPT ![c] = "probe"]
        /\ UNCHANGED <<at, port, path, info, overlapped>>
    BY <1>1 DEF ReadInfo, Goto, daemonVars
  <2>2. Moves(c) /\ pc'[c] = "probe" /\ job'[c].seen = info
    BY <1>0, <2>1, FieldFacts DEF Moves, TypeOK, Places
  <2> QED BY <2>1, <2>2, GoneOn DEF Removing, Elsewhere
<1>2. CASE Probe(c)
  <2>0. UNCHANGED <<at, port, path, info, overlapped>> BY <1>2 DEF Probe, daemonVars
  <2>1. CASE Proceed(c) /\ Compatible(job[c].seen)
    BY <2>0, <2>1, ProceedPreserves, FoundIsNew
  <2>2. CASE Goto(c, "again") /\ job' = [job EXCEPT ![c].seen = None]
    <3>1. Moves(c) /\ pc'[c] = "again" /\ job'[c].seen = None
      BY <1>0, <2>2, FieldFacts DEF Moves, Goto, TypeOK, Places
    <3> QED BY <2>0, <3>1, GoneOn DEF Removing, Elsewhere
  <2> QED BY <1>2, <2>1, <2>2 DEF Probe
<1>3. CASE ProbeAgain(c)
  <2> DEFINE then == IF Reachable THEN "retry" ELSE "last"
  <2>1. /\ job' = [job EXCEPT ![c].then = then] /\ pc' = [pc EXCEPT ![c] = "kill"]
        /\ UNCHANGED <<at, port, path, info, overlapped>>
    BY <1>3 DEF ProbeAgain, Goto, daemonVars
  <2>2. then \in {"idle", "proceed", "retry", "last"} OBVIOUS
  <2> HIDE DEF then
  <2>3. Moves(c) /\ pc'[c] = "kill" /\ job'[c].seen = job[c].seen
    BY <1>0, <2>1, <2>2, FieldFacts DEF Moves, TypeOK, Places
  <2> QED BY <2>1, <2>3, GoneOn DEF Removing, Elsewhere
<1> QED BY <1>1, <1>2, <1>3

-----------------------------------------------------------------------------
(* Killing, removing and launching.                                          *)
LEMMA OverlapFacts ==
    ASSUME NEW c \in Clients, Overlap(c)
    PROVE  /\ overlapped => overlapped'
           /\ ~overlapped' => /\ ~overlapped
                              /\ \A b \in Clients \ {c} : ~Launching(b)
                              /\ \A d \in Daemons : at[d] \notin Starting
BY DEF Overlap

LEMMA KillPreserves == ASSUME IInv, NEW c \in Clients, Kill(c) PROVE IInv'
<1>0. TypeOK /\ info \in Known /\ Overlap(c) /\ UNCHANGED <<path, info>>
      /\ pc[c] = "kill" /\ job[c].todo \in Rests
  BY DEF IInv, TypeOK, JobType, Kill
<1>1. ~overlapped' => /\ ~overlapped
                      /\ \A d, e \in Daemons : Alive(d) /\ Alive(e) => d = e
                      /\ \A d \in Daemons : Alive(d) => d = info /\ at[d] \notin Starting
  BY <1>0, OverlapFacts DEF IInv, Lone, Single, Findable, Alive
<1>2. ASSUME NEW place \in {"remove", "dying"}, pc' = [pc EXCEPT ![c] = place],
             \/ UNCHANGED job
             \/ job' = [job EXCEPT ![c].victim = info]
      PROVE  /\ Moves(c) /\ pc'[c] = place
             /\ job'[c].todo = job[c].todo /\ job'[c].seen = job[c].seen
             /\ job' = [job EXCEPT ![c].victim = info] => job'[c].victim = info
  <2>1. pc' \in [Clients -> Places] /\ pc'[c] = place /\ \A b \in Clients \ {c} : pc'[b] = pc[b]
    BY <1>0, <1>2 DEF TypeOK, Places
  <2>2. CASE UNCHANGED job
    <3>0. TypeOK /\ info \in Known
      BY <1>0
    <3>1. job' = [job EXCEPT ![c].victim = info] => job'[c].victim = info
      BY <3>0, FieldFacts
    <3> QED BY <1>0, <2>1, <2>2, <3>1 DEF Moves, TypeOK
  <2>3. CASE job' = [job EXCEPT ![c].victim = info]
    BY <1>0, <2>1, <2>3, FieldFacts DEF Moves
  <2> QED BY <1>2, <2>2, <2>3
<1>3. Old # None /\ path = Old => job[c].seen \in {None, Old} BY DEF IInv, OldIsUntouched
<1>4. CASE info = None \/ ~Alive(info)
  <2>1. pc' = [pc EXCEPT ![c] = "remove"] /\ UNCHANGED <<at, port, job>>
    BY <1>4 DEF Kill, Goto
  <2>2. Fewer BY <1>0, <2>1, NoneFewer
  <2>3. ~overlapped' => ~overlapped /\ \A d \in Daemons : ~Alive(d)'
    <3>1. None \notin Daemons BY DaemonAssumption
    <3> QED BY <1>1, <1>4, <2>1, <3>1 DEF Alive
  <2>4. Moves(c) /\ pc'[c] = "remove" /\ job'[c].todo = job[c].todo /\ job'[c].seen = job[c].seen
    BY <1>2, <2>1
  <2> QED BY <1>0, <1>3, <2>2, <2>3, <2>4, ClientStep DEF Elsewhere
<1>5. CASE ~(info = None \/ ~Alive(info)) /\ job[c].fast /\ ~Reachable
  <2>1. pc' = [pc EXCEPT ![c] = "remove"] /\ Die(info) /\ UNCHANGED job
    BY <1>5 DEF Kill, Goto
  <2>2. Fewer BY <1>0, <2>1, DieFewer
  <2>3. ~overlapped' => ~overlapped /\ \A d \in Daemons : ~Alive(d)'
    <3>1. info \in Daemons => at'[info] = "gone" BY <1>0, <2>1 DEF Die, TypeOK
    <3>2. \A d \in Daemons : Alive(d)' => Alive(d) BY <2>2 DEF Fewer, Alive
    <3> QED BY <1>1, <3>1, <3>2 DEF Alive
  <2>4. Moves(c) /\ pc'[c] = "remove" /\ job'[c].todo = job[c].todo /\ job'[c].seen = job[c].seen
    BY <1>2, <2>1
  <2> QED BY <1>0, <1>3, <2>2, <2>3, <2>4, ClientStep DEF Elsewhere
<1>6. CASE ~(info = None \/ ~Alive(info)) /\ ~(job[c].fast /\ ~Reachable)
  <2>1. /\ pc' = [pc EXCEPT ![c] = "dying"] /\ Terminate(info)
        /\ job' = [job EXCEPT ![c].victim = info]
    BY <1>6 DEF Kill, Goto
  <2>2. Fewer BY <1>0, <2>1, TerminateFewer
  <2>4. Moves(c) /\ pc'[c] = "dying" /\ job'[c].todo = job[c].todo /\ job'[c].seen = job[c].seen
        /\ job'[c].victim = info
    BY <1>2, <2>1
  <2>3. ~overlapped' => ~overlapped
                       /\ \A d \in Daemons : Alive(d)' => d = job'[c].victim /\ at'[d] \notin Starting
    BY <1>1, <2>2, <2>4 DEF Fewer, Alive
  <2> QED BY <1>0, <1>3, <2>2, <2>3, <2>4, ClientStep DEF Removing, Elsewhere
<1> QED BY <1>4, <1>5, <1>6

LEMMA DyingPreserves ==
    ASSUME IInv, NEW c \in Clients, Dead(c) \/ GraceOver(c) PROVE IInv'
<1>0. /\ TypeOK /\ pc[c] = "dying" /\ job[c].victim \in Known /\ None \in Known
      /\ pc' = [pc EXCEPT ![c] = "remove"] /\ job' = [job EXCEPT ![c].victim = None]
      /\ UNCHANGED <<path, info, overlapped>>
  BY DEF IInv, TypeOK, JobType, Known, Dead, GraceOver, Goto, daemonVars
<1>1. Moves(c) /\ pc'[c] = "remove" /\ job'[c].todo = job[c].todo /\ job'[c].seen = job[c].seen
  BY <1>0, FieldFacts DEF Moves, TypeOK, Places
<1>2. Fewer BY <1>0, NoneFewer, DieFewer DEF Dead, GraceOver, daemonVars
<1>3. ~overlapped => \A d \in Daemons : Alive(d) => d = job[c].victim
  BY <1>0, NoneCleared
<1>4. ~overlapped => \A d \in Daemons : ~Alive(d)'
  <2>1. CASE Dead(c)
    BY <1>3, <2>1 DEF Dead, daemonVars, Alive
  <2>2. CASE GraceOver(c)
    <3>1. job[c].victim \in Daemons => at'[job[c].victim] = "gone"
      BY <1>0, <2>2 DEF GraceOver, Die, TypeOK
    <3>2. \A d \in Daemons : Alive(d)' => Alive(d) BY <1>2 DEF Fewer, Alive
    <3> QED BY <1>3, <3>1, <3>2 DEF Alive
  <2> QED BY <2>1, <2>2
<1>5. Old # None /\ path = Old => job[c].seen \in {None, Old} BY DEF IInv, OldIsUntouched
<1> QED BY <1>0, <1>1, <1>2, <1>4, <1>5, ClientStep DEF Elsewhere

LEMMA ReprobePreserves == ASSUME IInv, NEW c \in Clients, Reprobe(c) PROVE IInv'
<1>0. /\ TypeOK /\ pc[c] = "reprobe" /\ UNCHANGED <<at, port, path, info, overlapped>>
      /\ Old # None => path # Old
  BY FoundIsNew DEF IInv, Reprobe, daemonVars
<1>1. CASE Proceed(c) BY <1>0, <1>1, ProceedPreserves
<1>2. CASE ~Reachable
  <2> DEFINE place == IF job[c].then = "retry" THEN "kill" ELSE "spawn"
  <2>1. pc' = [pc EXCEPT ![c] = place] /\ job' = [job EXCEPT ![c].then = "last"]
    BY <1>2 DEF Reprobe, Goto
  <2>2. place \in {"kill", "spawn"} OBVIOUS
  <2> HIDE DEF place
  <2>3. Moves(c) /\ pc'[c] = place /\ job'[c].todo = job[c].todo /\ job'[c].seen = job[c].seen
    BY <1>0, <2>1, <2>2, FieldFacts DEF Moves, TypeOK, Places
  <2>4. ~overlapped => \A d \in Daemons : ~Alive(d)
    BY <1>0, NoneCleared DEF Removing
  <2>5. Fewer BY <1>0, NoneFewer
  <2> QED BY <1>0, <2>2, <2>3, <2>4, <2>5, ClientStep DEF Alive, Elsewhere
<1> QED BY <1>1, <1>2 DEF Reprobe

(* A request that is sent is waited for. *)
LEMMA AskFacts ==
    ASSUME TypeOK, NEW c \in Clients, NEW place \in {"reply", "stopreply"},
           NEW then \in {"idle", "proceed"}, Ask(c, place, then)
    PROVE  /\ Moves(c) /\ pc'[c] = place
           /\ job'[c].todo = job[c].todo /\ job'[c].seen = job[c].seen
<1> DEFINE next == [job[c] EXCEPT !.own = path, !.then = then]
<1>1. /\ pc \in [Clients -> Places] /\ job \in [Clients -> JobType] /\ job[c] \in JobType
      /\ path \in Known
  BY DEF TypeOK
<1>2. next \in JobType /\ next.todo = job[c].todo /\ next.seen = job[c].seen
  BY <1>1 DEF JobType
<1>3. job' = [job EXCEPT ![c] = next] BY DEF Ask
<1>4. pc' = [pc EXCEPT ![c] = place] /\ place \in Places BY DEF Ask, Goto, Places
<1> HIDE DEF next
<1> QED BY <1>1, <1>2, <1>3, <1>4 DEF Moves

LEMMA AskPreserves ==
    ASSUME IInv, NEW c \in Clients, NEW place \in {"reply", "stopreply"},
           NEW then \in {"idle", "proceed"}, Ask(c, place, then),
           pc[c] \in Elsewhere, UNCHANGED <<at, port, path, info, overlapped>>
    PROVE  IInv'
<1>1. /\ Moves(c) /\ pc'[c] = place
      /\ job'[c].todo = job[c].todo /\ job'[c].seen = job[c].seen
  BY AskFacts DEF IInv
<1>2. job[c].todo \notin Sends BY DEF IInv, LooksFirst
<1> QED BY <1>1, <1>2, GoneOn DEF Removing

LEMMA WaitingPreserves ==
    ASSUME IInv, NEW c \in Clients,
           \/ Started(c) \/ Send(c) \/ SendStop(c) \/ AskStatus(c) \/ Answered(c)
           \/ HungUp(c) \/ WaitStop(c) \/ Interrupted(c)
    PROVE  IInv'
<1>0. /\ UNCHANGED <<at, port, path, info>>
      /\ overlapped => overlapped'
  <2>1. CASE WaitStop(c) BY <2>1, OverlapFacts DEF WaitStop, daemonVars
  <2>2. CASE Interrupted(c) BY <2>2 DEF Interrupted, daemonVars
  <2>3. CASE \/ Started(c) \/ Send(c) \/ SendStop(c) \/ AskStatus(c) \/ Answered(c)
             \/ HungUp(c)
    BY <2>3 DEF Started, Send, SendStop, AskStatus, Answered, HungUp, daemonVars
  <2> QED BY <2>1, <2>2, <2>3
<1>1. CASE Proceed(c) /\ pc[c] \in {"await"} \cup Elsewhere
  <2>1. job[c].todo \in Sends => pc[c] = "await" BY <1>1 DEF IInv, LooksFirst
  <2> QED BY <1>0, <1>1, <2>1, ProceedPreserves, FoundIsNew
<1>2. CASE Fail(c) BY <1>0, <1>2, FailPreserves
<1>3. CASE /\ pc[c] \in Elsewhere /\ UNCHANGED overlapped
           /\ \E place \in {"reply", "stopreply"}, then \in {"idle", "proceed"} :
                 Ask(c, place, then)
  BY <1>0, <1>3, AskPreserves
<1>4. CASE Started(c) \/ WaitStop(c) \/ Interrupted(c)
  BY <1>1, <1>2, <1>4 DEF Started, WaitStop, Interrupted, Elsewhere
<1>5. CASE Send(c) \/ SendStop(c) \/ AskStatus(c)
  BY <1>1, <1>2, <1>3, <1>5 DEF Send, SendStop, AskStatus, Elsewhere
<1>6. CASE Answered(c) \/ HungUp(c)
  BY <1>1, <1>2, <1>6 DEF Answered, HungUp, Waiting, Elsewhere
<1> QED BY <1>4, <1>5, <1>6

LEMMA StartupPreserves ==
    ASSUME IInv, NEW c \in Clients, StartupTimesOut(c) \/ GivenUp(c) PROVE IInv'
<1>0. /\ TypeOK /\ job[c].own \in Known /\ UNCHANGED <<path, info, overlapped>>
  BY DEF IInv, TypeOK, JobType, StartupTimesOut, GivenUp
<1>1. CASE GivenUp(c)
  <2>1. Fail(c) /\ Fewer BY <1>0, <1>1, NoneFewer, DieFewer DEF GivenUp
  <2> QED BY <1>0, <2>1, FailPreserves
<1>2. CASE StartupTimesOut(c) /\ Fail(c)
  <2>1. Fewer BY <1>0, <1>2, NoneFewer, TerminateFewer DEF StartupTimesOut
  <2> QED BY <1>0, <1>2, <2>1, FailPreserves
<1>3. CASE StartupTimesOut(c) /\ Terminate(job[c].own) /\ Goto(c, "giveup") /\ UNCHANGED job
  <2>1. Fewer BY <1>0, <1>3, TerminateFewer
  <2>2. Moves(c) /\ pc'[c] = "giveup" BY <1>0, <1>3 DEF Moves, Goto, TypeOK, Places
  <2>3. Old # None => path # Old BY <1>3, FoundIsNew DEF StartupTimesOut
  <2> QED BY <1>0, <1>3, <2>1, <2>2, <2>3, GoneOn DEF Removing, Elsewhere
<1> QED BY <1>1, <1>2, <1>3 DEF StartupTimesOut

(* Both files are gone, and so is every daemon if launches do not overlap. *)
LEMMA RemovePreserves == ASSUME IInv, NEW c \in Clients, Remove(c) PROVE IInv'
<1>0. /\ TypeOK /\ pc[c] = "remove" /\ UNCHANGED <<at, port, overlapped>>
      /\ path' = None /\ info' = None /\ None \in Known /\ None \notin Daemons
  BY DaemonAssumption DEF IInv, Remove, Known
<1>1. /\ Moves(c) /\ pc'[c] # "dying"
      /\ job'[c].todo \in Sends => pc'[c] \notin Elsewhere
      /\ job'[c].seen \in {None, job[c].seen}
  <2>1. CASE Proceed(c) BY <2>1, ProceedFacts DEF Moves, Elsewhere
  <2>2. CASE Goto(c, "reprobe") /\ UNCHANGED job
    BY <1>0, <2>2 DEF Goto, Moves, TypeOK, Places, Elsewhere
  <2> QED BY <2>1, <2>2 DEF Remove
<1>2. TypeOK' BY <1>0, <1>1 DEF TypeOK, Moves
<1>3. LooksFirst' BY <1>1 DEF IInv, LooksFirst, Moves
<1>4. OldIsUntouched'
  <2>1. Old # None => Old \in Daemons BY DaemonAssumption
  <2> QED BY <1>0, <2>1 DEF IInv, OldIsUntouched
<1>5. PortIsHeld' BY <1>0 DEF IInv, PortIsHeld
<1>6. ~overlapped => \A d \in Daemons : ~Alive(d)' BY <1>0, NoneCleared DEF Alive, Removing
<1>7. Lone' BY <1>0, <1>6 DEF Lone, Single, Findable, Cleared, Alive
<1> QED BY <1>2, <1>3, <1>4, <1>5, <1>7 DEF IInv

LEMMA SpawnPreserves == ASSUME IInv, NEW c \in Clients, Spawn(c) PROVE IInv'
<1>0. /\ TypeOK /\ pc[c] = "spawn" /\ UNCHANGED <<port, path, info>>
      /\ None \notin Daemons /\ Overlap(c)
  BY DaemonAssumption DEF IInv, Spawn
<1>1. CASE Fail(c) /\ UNCHANGED at
  BY <1>0, <1>1, FailPreserves, OverlapFacts
<1>2. ASSUME NEW d \in Daemons, Unborn(d), at' = [at EXCEPT ![d] = "spawned"],
             job' = [job EXCEPT ![c].own = d], Goto(c, "await")
      PROVE  IInv'
  <2>1. /\ Moves(c) /\ pc'[c] = "await" /\ job'[c].todo = job[c].todo /\ job'[c].seen = job[c].seen
    BY <1>0, <1>2, FieldFacts DEF Moves, TypeOK, Places, Goto, Known
  <2>2. /\ at'[d] = "spawned" /\ \A e \in Daemons \ {d} : at'[e] = at[e]
        /\ at[d] = "gone" /\ d # Old /\ d # path
    BY <1>0, <1>2 DEF TypeOK, Unborn, Alive, States
  <2>3. Old # None => path # Old BY <1>0, FoundIsNew
  <2>4. TypeOK' BY <1>0, <1>2, <2>1 DEF TypeOK, Moves, States
  <2>5. LooksFirst' BY <2>1 DEF IInv, LooksFirst, Moves, Elsewhere
  <2>6. OldIsUntouched'
    <3>1. Old # None => Old \in Daemons BY DaemonAssumption
    <3> QED BY <1>0, <2>2, <2>3, <3>1 DEF IInv, OldIsUntouched
  <2>7. PortIsHeld' BY <1>0, <2>2 DEF IInv, PortIsHeld
  <2>8. Lone'
    <3> SUFFICES ASSUME ~overlapped' PROVE Single' /\ Findable' /\ Cleared' BY DEF Lone
    <3>1. ~overlapped /\ \A b \in Clients \ {c} : ~Launching(b) BY <1>0, OverlapFacts
    <3>2. \A e \in Daemons : ~Alive(e) BY <1>0, <3>1, NoneCleared DEF Removing
    <3>3. \A e \in Daemons : Alive(e)' => e = d /\ at'[e] = "spawned"
      BY <2>2, <3>2 DEF Alive
    <3>4. Single' BY <3>3 DEF Single
    <3>5. Findable' BY <2>2, <3>3 DEF Findable, Alive
    <3>6. \A b \in Clients : pc'[b] \notin Removing \cup {"dying"}
      BY <2>1, <3>1 DEF Moves, Launching, Removing
    <3>7. Cleared' BY <3>6 DEF Cleared
    <3> QED BY <3>4, <3>5, <3>7
  <2> QED BY <2>4, <2>5, <2>6, <2>7, <2>8 DEF IInv
<1> QED BY <1>1, <1>2 DEF Spawn

-----------------------------------------------------------------------------
(* The steps of a daemon, which leave the clients as they are.               *)
LEMMA DaemonStep ==
    ASSUME IInv, NEW d \in Daemons, UNCHANGED <<pc, job, overlapped>>,
           Alive(d), NEW to \in States, at' = [at EXCEPT ![d] = to],
           path' \in Known, info' \in Known, port' \in Known,
           to \in Starting => at[d] \in Starting,
           Old # None /\ path' = Old => path = Old /\ info' = info,
           \A e \in Daemons : port' = e =>
               at'[e] \in {"bound", "listening", "serving", "closed"},
           ~overlapped => /\ to = "listening" => path' = d
                          /\ to \in {"serving"} \cup Ending => path' = d /\ info' = d
    PROVE  IInv'
<1>0. /\ TypeOK /\ at'[d] = to
      /\ \A e \in Daemons \ {d} : at'[e] = at[e]
      /\ \A e \in Daemons : Alive(e)' => Alive(e)
  BY DEF IInv, TypeOK, Alive
<1>1. TypeOK' BY <1>0 DEF TypeOK
<1>2. LooksFirst' BY DEF IInv, LooksFirst
<1>3. OldIsUntouched'
  <2> SUFFICES ASSUME Old # None
               PROVE  /\ at'[Old] \notin Starting
                      /\ path' = Old =>
                           /\ info' = Old
                           /\ \A e \in Daemons \ {Old} : at'[e] = "gone"
                           /\ \A c \in Clients :
                                 /\ job'[c].seen \in {None, Old}
                                 /\ pc'[c] \notin {"reprobe", "spawn", "await", "giveup", "send"}
    BY DEF OldIsUntouched
  <2>1. Old \in Daemons /\ OldIsUntouched BY DaemonAssumption DEF IInv
  <2>2. at'[Old] \notin Starting BY <1>0, <2>1 DEF OldIsUntouched
  <2>3. ASSUME path' = Old PROVE \A e \in Daemons \ {Old} : at'[e] = "gone"
    <3>1. \A e \in Daemons \ {Old} : at[e] = "gone" BY <2>1, <2>3 DEF OldIsUntouched
    <3>2. d = Old BY <3>1 DEF Alive
    <3> QED BY <1>0, <3>1, <3>2
  <2> QED BY <2>1, <2>2, <2>3 DEF OldIsUntouched
<1>4. PortIsHeld' BY DEF PortIsHeld
<1>5. Lone'
  <2> SUFFICES ASSUME ~overlapped' PROVE Single' /\ Findable' /\ Cleared' BY DEF Lone
  <2>1. ~overlapped /\ Single /\ Findable /\ Cleared BY DEF IInv, Lone
  <2>2. Single' BY <1>0, <2>1 DEF Single
  <2>3. \A e \in Daemons : Alive(e)' => e = d BY <1>0, <2>1 DEF Single
  <2>4. Findable' BY <1>0, <2>1, <2>3 DEF Findable, Alive
  <2>5. Cleared' BY <1>0, <2>1, <2>3 DEF Cleared
  <2> QED BY <2>2, <2>4, <2>5
<1> QED BY <1>1, <1>2, <1>3, <1>4, <1>5 DEF IInv

LEMMA ServePreserves == ASSUME IInv, NEW d \in Daemons, Serve(d) PROVE IInv'
<1>0. /\ TypeOK /\ None \in Known /\ d \in Known /\ PortIsHeld /\ None \notin Daemons
      /\ Alive(d) /\ at[d] \in Starting /\ UNCHANGED <<pc, job, overlapped>>
      /\ Old # None => d # Old
      /\ path \in Known /\ info \in Known /\ port \in Known
  BY DaemonAssumption
     DEF IInv, TypeOK, Known, Serve, ClearPath, BindPort, PortInUse, Listen, WriteInfo, Advance,
         Alive, OldIsUntouched
<1>1. CASE ClearPath(d)
  <2>1. /\ at[d] = "spawned" /\ at' = [at EXCEPT ![d] = "cleared"]
        /\ path' = None /\ UNCHANGED <<info, port>>
    BY <1>1 DEF ClearPath, Advance
  <2>2. \A e \in Daemons : port' = e => at'[e] \in {"bound", "listening", "serving", "closed"}
    BY <1>0, <2>1 DEF PortIsHeld, TypeOK
  <2>3. "cleared" \in States BY DEF States
  <2> QED BY <1>0, <2>1, <2>2, <2>3, DaemonStep
<1>2. CASE BindPort(d)
  <2>1. at[d] = "cleared" /\ at' = [at EXCEPT ![d] = "bound"] /\ port' = d /\ UNCHANGED <<path, info>>
    BY <1>2 DEF BindPort, Advance
  <2>2. Old # None /\ path' = Old => path = Old /\ info' = info BY <2>1
  <2>3. at'[d] = "bound" BY <1>0, <2>1 DEF TypeOK
  <2>4. \A e \in Daemons : port' = e => at'[e] \in {"bound", "listening", "serving", "closed"}
    BY <2>1, <2>3
  <2>5. "bound" \in States BY DEF States
  <2> QED BY <1>0, <2>1, <2>2, <2>4, <2>5, DaemonStep
<1>3. CASE PortInUse(d)
  <2>1. /\ at[d] = "cleared" /\ at' = [at EXCEPT ![d] = "closed"] /\ port # None
        /\ UNCHANGED <<path, info, port>>
    BY <1>3 DEF PortInUse, Advance
  <2>2. port \in Daemons /\ port # d /\ Alive(port) BY <1>0, <2>1 DEF PortIsHeld, Known, Alive
  <2>3. overlapped BY <1>0, <2>2 DEF IInv, Lone, Single
  <2>4. \A e \in Daemons : port' = e => at'[e] \in {"bound", "listening", "serving", "closed"}
    BY <1>0, <2>1 DEF PortIsHeld, TypeOK
  <2>5. "closed" \in States BY DEF States
  <2> QED BY <1>0, <2>1, <2>3, <2>4, <2>5, DaemonStep
<1>4. CASE Listen(d)
  <2>1. /\ at[d] = "bound" /\ at' = [at EXCEPT ![d] = "listening"]
        /\ path' = d /\ UNCHANGED <<info, port>>
    BY <1>4 DEF Listen, Advance
  <2>2. \A e \in Daemons : port' = e => at'[e] \in {"bound", "listening", "serving", "closed"}
    BY <1>0, <2>1 DEF PortIsHeld, TypeOK
  <2>3. "listening" \in States BY DEF States
  <2> QED BY <1>0, <2>1, <2>2, <2>3, DaemonStep
<1>5. CASE WriteInfo(d)
  <2>1. /\ at[d] = "listening" /\ at' = [at EXCEPT ![d] = "serving"]
        /\ info' = d /\ UNCHANGED <<path, port>>
    BY <1>5 DEF WriteInfo, Advance
  <2>2. \A e \in Daemons : port' = e => at'[e] \in {"bound", "listening", "serving", "closed"}
    BY <1>0, <2>1 DEF PortIsHeld, TypeOK
  <2>3. Old # None => path # Old
    BY <1>0, <2>1 DEF IInv, OldIsUntouched
  <2>4. ~overlapped => path = d BY <2>1 DEF IInv, Lone, Findable
  <2>5. "serving" \in States BY DEF States
  <2> QED BY <1>0, <2>1, <2>2, <2>3, <2>4, <2>5, DaemonStep
<1> QED BY <1>1, <1>2, <1>3, <1>4, <1>5 DEF Serve

LEMMA EndPreserves ==
    ASSUME IInv, NEW d \in Daemons,
           HandleStop(d) \/ CloseSocket(d) \/ StopBrowser(d) \/ Exit(d) \/ Crash(d)
    PROVE  IInv'
<1>0. /\ TypeOK /\ None \in Known /\ PortIsHeld /\ None \notin Daemons
      /\ Alive(d) /\ UNCHANGED <<pc, job, overlapped>>
      /\ path \in Known /\ info \in Known /\ port \in Known
      /\ ~overlapped /\ at[d] \in {"serving"} \cup Ending => path = d /\ info = d
  BY DaemonAssumption
     DEF IInv, TypeOK, Known, HandleStop, CloseSocket, StopBrowser, Exit, Crash, Advance,
         Alive, Lone, Findable
<1>1. CASE CloseSocket(d)
  <2>1. /\ at[d] = "serving" /\ at' = [at EXCEPT ![d] = "closed"] /\ UNCHANGED <<path, info, port>>
    BY <1>1 DEF CloseSocket, Advance
  <2>2. \A e \in Daemons : port' = e => at'[e] \in {"bound", "listening", "serving", "closed"}
    BY <1>0, <2>1 DEF PortIsHeld, TypeOK
  <2>3. "closed" \in States BY DEF States
  <2> QED BY <1>0, <2>1, <2>2, <2>3, DaemonStep
<1>2. CASE StopBrowser(d)
  <2>1. /\ at[d] = "closed" /\ at' = [at EXCEPT ![d] = "released"] /\ UNCHANGED <<path, info>>
        /\ port' \in {port, None} /\ port' # d
    BY <1>0, <1>2 DEF StopBrowser, Advance
  <2>2. \A e \in Daemons : port' = e => at'[e] \in {"bound", "listening", "serving", "closed"}
    BY <1>0, <2>1 DEF PortIsHeld, TypeOK
  <2>3. "released" \in States BY DEF States
  <2> QED BY <1>0, <2>1, <2>2, <2>3, DaemonStep
<1>3. CASE Exit(d)
  <2>1. /\ at[d] = "released" /\ at' = [at EXCEPT ![d] = "gone"] /\ UNCHANGED port
        /\ path' = None /\ info' = None
    BY <1>3 DEF Exit, Advance
  <2>2. \A e \in Daemons : port' = e => at'[e] \in {"bound", "listening", "serving", "closed"}
    BY <1>0, <2>1 DEF PortIsHeld, TypeOK
  <2>3. "gone" \in States BY DEF States
  <2> QED BY <1>0, <2>1, <2>2, <2>3, DaemonStep
<1>4. CASE Crash(d)
  <2>1. /\ at' = [at EXCEPT ![d] = "gone"] /\ UNCHANGED <<path, info>>
        /\ port' \in {port, None} /\ port' # d
    BY <1>0, <1>4 DEF Crash, Die
  <2>2. \A e \in Daemons : port' = e => at'[e] \in {"bound", "listening", "serving", "closed"}
    BY <1>0, <2>1 DEF PortIsHeld, TypeOK
  <2>3. "gone" \in States BY DEF States
  <2> QED BY <1>0, <2>1, <2>2, <2>3, DaemonStep
<1>5. CASE HandleStop(d)
  <2> DEFINE to == at[d]
  <2>1. /\ UNCHANGED <<at, path, info>> /\ port' \in {port, None}
    BY <1>0, <1>5 DEF HandleStop
  <2>2. at' = [at EXCEPT ![d] = to] /\ to \in States BY <1>0, <2>1 DEF TypeOK
  <2>3. \A e \in Daemons : port' = e => at'[e] \in {"bound", "listening", "serving", "closed"}
    BY <1>0, <2>1 DEF PortIsHeld
  <2>4. ~overlapped => /\ to = "listening" => path' = d
                       /\ to \in {"serving"} \cup Ending => path' = d /\ info' = d
    BY <2>1 DEF IInv, Lone, Findable
  <2>5. to \in Starting => at[d] \in Starting OBVIOUS
  <2>6. path' \in Known /\ info' \in Known /\ port' \in Known BY <1>0, <2>1
  <2>7. Old # None /\ path' = Old => path = Old /\ info' = info BY <2>1
  <2>8. Alive(d) /\ UNCHANGED <<pc, job, overlapped>> BY <1>0
  <2> HIDE DEF to
  <2> QED BY <2>2, <2>3, <2>4, <2>5, <2>6, <2>7, <2>8, DaemonStep
<1> QED BY <1>1, <1>2, <1>3, <1>4, <1>5

-----------------------------------------------------------------------------
LEMMA StepIInv == IInv /\ [Next]_vars => IInv'
<1> SUFFICES ASSUME IInv, [Next]_vars PROVE IInv' OBVIOUS
<1>1. ASSUME NEW c \in Clients, Look(c) PROVE IInv'
  BY <1>1, LookPreserves, KillPreserves, DyingPreserves, RemovePreserves, ReprobePreserves,
     SpawnPreserves, WaitingPreserves, StartupPreserves
     DEF Look
<1>2. ASSUME NEW c \in Clients, Answered(c) \/ Interrupted(c) PROVE IInv'
  BY <1>2, WaitingPreserves
<1>3. ASSUME NEW c \in Clients, NEW program \in ProgramsOf[c], Begin(c, program) PROVE IInv'
  BY <1>3, BeginPreserves
<1>4. ASSUME NEW d \in Daemons,
             \/ Serve(d) \/ HandleStop(d) \/ CloseSocket(d) \/ StopBrowser(d)
             \/ Exit(d) \/ Crash(d)
      PROVE  IInv'
  BY <1>4, ServePreserves, EndPreserves
<1>5. CASE UNCHANGED vars
  BY <1>5
     DEF vars, IInv, TypeOK, LooksFirst, OldIsUntouched, PortIsHeld, Lone, Single, Findable,
         Cleared, Alive
<1> QED BY <1>1, <1>2, <1>3, <1>4, <1>5 DEF Next

(* Types, what a client has looked at, the old daemon's files, the port and  *)
(* the lone daemon are together inductive.                                   *)
THEOREM Invariance == Spec => []IInv
BY InitIInv, StepIInv, PTL DEF Spec

(* A command is never sent to a daemon of another version: what answers at   *)
(* the socket when a command is sent is a daemon that this version launched, *)
(* whatever the other processes do meanwhile.                                *)
THEOREM NoOtherVersion == Spec => []CommandsReachThisVersion
<1>1. IInv => CommandsReachThisVersion
  BY DaemonAssumption
     DEF IInv, OldIsUntouched, CommandsReachThisVersion, Compatible, Reachable
<1> QED BY <1>1, Invariance, PTL

(* Launches that do not overlap leave at most one daemon, and both files     *)
(* name the one that serves.                                                 *)
THEOREM OneDaemon == Spec => []LoneLaunchesLeaveOne
<1>1. IInv => LoneLaunchesLeaveOne
  <2> SUFFICES ASSUME IInv, ~overlapped
               PROVE  /\ Cardinality({d \in Daemons : Alive(d)}) <= 1
                      /\ \A d \in Daemons : at[d] = "serving" => path = d /\ info = d
    BY DEF LoneLaunchesLeaveOne
  <2>1. Single /\ Findable BY DEF IInv, Lone
  <2> DEFINE alive == {d \in Daemons : Alive(d)}
  <2>2. Cardinality(alive) <= 1
    <3>1. CASE alive = {} BY <3>1, FS_EmptySet
    <3>2. ASSUME NEW d \in alive PROVE Cardinality(alive) <= 1
      <4>1. alive = {d} BY <2>1 DEF Single
      <4> QED BY <4>1, FS_Singleton
    <3> QED BY <3>1, <3>2
  <2> QED BY <2>1, <2>2 DEF Findable
<1> QED BY <1>1, Invariance, PTL
-----------------------------------------------------------------------------
(* That a command ends, unless a daemon that lives never answers it, has two *)
(* halves: that the process of the client keeps running, which is the        *)
(* fairness of FairSpec, and that it cannot run in circles, which follows    *)
(* here.  The steps that are left of the phase that a *)
(* client is in: the probe after "again" may lead through the clean-up twice *)
(* before a daemon is launched.                                              *)
Twice(then) == IF then = "retry" THEN 4 ELSE 0
StepsLeft(place, then) ==
    CASE place = "idle" -> 0
      [] place \in {"reply", "stopreply", "waitstop", "giveup"} -> 1
      [] place \in {"send", "stop", "status", "await"} -> 2
      [] place = "spawn" -> 3
      [] place = "reprobe" -> 4 + Twice(then)
      [] place = "remove" -> 5 + Twice(then)
      [] place = "dying" -> 6 + Twice(then)
      [] place = "kill" -> 7 + Twice(then)
      [] place = "again" -> 12
      [] place = "probe" -> 13
      [] place = "ensure" -> 14
WorkLeft(c) == 15 * Len(job[c].todo) + StepsLeft(pc[c], job[c].then)

(* A step that changes what a client at work does or knows brings it nearer  *)
(* to its end, and no step of another process does either.                   *)
EveryStepShortens ==
    \A c \in Clients :
        pc[c] # "idle" => \/ pc'[c] = pc[c] /\ job'[c] = job[c]
                          \/ WorkLeft(c)' < WorkLeft(c)
CommandsShorten == [][EveryStepShortens]_vars

LEMMA StepsLeftFacts ==
    ASSUME NEW place \in Places, NEW then
    PROVE  /\ StepsLeft(place, then) \in 0..14
           /\ StepsLeft(place, then) = 0 <=> place = "idle"
<1>0. Twice(then) \in {0, 4} BY DEF Twice
<1>1. StepsLeft("idle", then) = 0 BY DEF StepsLeft
<1>2. /\ \A p \in {"reply", "stopreply", "waitstop", "giveup"} : StepsLeft(p, then) = 1
      /\ \A p \in {"send", "stop", "status", "await"} : StepsLeft(p, then) = 2
  BY DEF StepsLeft
<1>3. StepsLeft("spawn", then) = 3 BY DEF StepsLeft
<1>4. /\ StepsLeft("reprobe", then) = 4 + Twice(then)
      /\ StepsLeft("remove", then) = 5 + Twice(then)
      /\ StepsLeft("dying", then) = 6 + Twice(then)
      /\ StepsLeft("kill", then) = 7 + Twice(then)
  BY DEF StepsLeft
<1>5. /\ StepsLeft("again", then) = 12 /\ StepsLeft("probe", then) = 13
      /\ StepsLeft("ensure", then) = 14
  BY DEF StepsLeft
<1> QED BY <1>0, <1>1, <1>2, <1>3, <1>4, <1>5 DEF Places

(* A place within a phase, or a phase, less is less work. *)
LEMMA LessWork ==
    ASSUME NEW k \in Nat, NEW l \in Nat, NEW i \in 0..14, NEW j \in 0..14,
           (k = l /\ i < j) \/ k < l
    PROVE  15 * k + i < 15 * l + j
OBVIOUS

LEMMA RestLength ==
    ASSUME NEW todo \in Rests
    PROVE  /\ Len(todo) \in 0..8
           /\ todo # << >> => Len(Tail(todo)) = Len(todo) - 1
           /\ todo = << >> => Len(todo) = 0
<1>1. todo # << >> => Len(Tail(todo)) = Len(todo) - 1 BY RestFacts
<1>2. Len(todo) \in 0..8 BY DEF Rests
<1> QED BY <1>1, <1>2

(* A phase that is over shortens the program by a phase. *)
LEMMA ProceedShortens ==
    ASSUME TypeOK, NEW c \in Clients, pc[c] # "idle", Proceed(c)
    PROVE  /\ WorkLeft(c)' < WorkLeft(c)
           /\ \A b \in Clients \ {c} : pc'[b] = pc[b] /\ job'[b] = job[b]
<1> DEFINE todo == job[c].todo
<1>1. /\ job \in [Clients -> JobType] /\ pc \in [Clients -> Places]
      /\ todo \in Rests /\ pc[c] \in Places
  BY DEF TypeOK, JobType
<1>2. StepsLeft(pc[c], job[c].then) \in 1..14
  BY <1>1, StepsLeftFacts
<1>3. CASE todo = << >>
  <2>1. pc' = [pc EXCEPT ![c] = "idle"] /\ job' = [job EXCEPT ![c] = Blank]
    BY <1>3 DEF Proceed, Goto
  <2>2. pc'[c] = "idle" /\ job'[c] = Blank /\ Blank.todo = << >> BY <1>1, <2>1 DEF Blank
  <2>3. WorkLeft(c)' = 0 BY <2>2 DEF WorkLeft, StepsLeft
  <2>4. WorkLeft(c) > 0 BY <1>1, <1>2, RestLength DEF WorkLeft
  <2> QED BY <1>1, <2>1, <2>3, <2>4
<1>4. CASE todo # << >>
  <2> DEFINE next == [Blank EXCEPT !.todo = Tail(todo), !.fast = Head(todo) = "clean",
                                   !.then = IF Head(todo) = "clean" THEN "proceed" ELSE "idle"]
             place == IF Head(todo) = "clean" THEN "kill" ELSE Head(todo)
  <2>1. /\ Head(todo) \in {"send", "ensure", "clean", "waitstop", "stop", "status"}
        /\ Tail(todo) \in Rests
    BY <1>1, <1>4, RestFacts
  <2>2. pc' = [pc EXCEPT ![c] = place] /\ job' = [job EXCEPT ![c] = next]
    BY <1>4 DEF Proceed, Goto
  <2>3. next.todo = Tail(todo) /\ place \in Places BY <2>1 DEF Blank, Places
  <2> HIDE DEF next, place
  <2>4. pc'[c] = place /\ job'[c] = next
    BY <1>1, <2>2
  <2>5. StepsLeft(place, next.then) \in 0..14 BY <2>3, StepsLeftFacts
  <2>6. Len(next.todo) = Len(todo) - 1 /\ Len(todo) \in 0..8
    BY <1>1, <1>4, <2>3, RestLength
  <2>7. WorkLeft(c)' = 15 * Len(next.todo) + StepsLeft(place, next.then)
    BY <2>4 DEF WorkLeft
  <2>8. WorkLeft(c) = 15 * Len(todo) + StepsLeft(pc[c], job[c].then)
    BY DEF WorkLeft
  <2> HIDE DEF todo
  <2>9. 15 * Len(next.todo) + StepsLeft(place, next.then)
          < 15 * Len(todo) + StepsLeft(pc[c], job[c].then)
    <3>1. Len(next.todo) \in Nat /\ Len(todo) \in Nat /\ Len(next.todo) < Len(todo)
      BY <1>1, <2>3, <2>1, <2>6, RestLength
    <3>2. StepsLeft(pc[c], job[c].then) \in 0..14 BY <1>2
    <3> QED BY <2>5, <3>1, <3>2, LessWork
  <2>10. WorkLeft(c)' < WorkLeft(c) BY <2>7, <2>8, <2>9
  <2> QED BY <1>1, <2>2, <2>10
<1> QED BY <1>3, <1>4

LEMMA FailShortens ==
    ASSUME TypeOK, NEW c \in Clients, pc[c] # "idle", Fail(c)
    PROVE  /\ WorkLeft(c)' < WorkLeft(c)
           /\ \A b \in Clients \ {c} : pc'[b] = pc[b] /\ job'[b] = job[b]
<1>1. /\ job \in [Clients -> JobType] /\ pc \in [Clients -> Places]
      /\ job[c].todo \in Rests /\ pc[c] \in Places
  BY DEF TypeOK, JobType
<1>2. pc' = [pc EXCEPT ![c] = "idle"] /\ job' = [job EXCEPT ![c] = Blank] BY DEF Fail, Goto
<1>3. pc'[c] = "idle" /\ job'[c] = Blank /\ Blank.todo = << >> BY <1>1, <1>2 DEF Blank
<1>4. WorkLeft(c)' = 0 BY <1>3 DEF WorkLeft, StepsLeft
<1>5. WorkLeft(c) > 0 BY <1>1, StepsLeftFacts, RestLength DEF WorkLeft
<1> QED BY <1>1, <1>2, <1>4, <1>5

(* A step within a phase keeps the phases that are left. *)
LEMMA MoveShortens ==
    ASSUME TypeOK, NEW c \in Clients, NEW place \in Places,
           Goto(c, place), job'[c].todo = job[c].todo,
           \A b \in Clients \ {c} : job'[b] = job[b],
           StepsLeft(place, job'[c].then) < StepsLeft(pc[c], job[c].then)
    PROVE  /\ WorkLeft(c)' < WorkLeft(c)
           /\ \A b \in Clients \ {c} : pc'[b] = pc[b] /\ job'[b] = job[b]
<1>1. /\ pc \in [Clients -> Places] /\ job[c].todo \in Rests /\ pc[c] \in Places
  BY DEF TypeOK, JobType
<1>2. pc'[c] = place /\ \A b \in Clients \ {c} : pc'[b] = pc[b]
  BY <1>1 DEF Goto
<1>3. WorkLeft(c)' = 15 * Len(job[c].todo) + StepsLeft(place, job'[c].then)
  BY <1>2 DEF WorkLeft
<1>4. WorkLeft(c) = 15 * Len(job[c].todo) + StepsLeft(pc[c], job[c].then)
  BY DEF WorkLeft
<1>5. /\ Len(job[c].todo) \in 0..8
      /\ StepsLeft(place, job'[c].then) \in 0..14 /\ StepsLeft(pc[c], job[c].then) \in 0..14
  BY <1>1, RestLength, StepsLeftFacts
<1>6. 15 * Len(job[c].todo) + StepsLeft(place, job'[c].then)
        < 15 * Len(job[c].todo) + StepsLeft(pc[c], job[c].then)
  <2>1. Len(job[c].todo) \in Nat BY <1>5
  <2> QED BY <1>5, <2>1, LessWork
<1> QED BY <1>2, <1>3, <1>4, <1>6

LEMMA ClientShortens ==
    ASSUME TypeOK, NEW c \in Clients, Look(c) \/ Answered(c) \/ Interrupted(c)
    PROVE  /\ WorkLeft(c)' < WorkLeft(c)
           /\ \A b \in Clients \ {c} : pc'[b] = pc[b] /\ job'[b] = job[b]
<1> DEFINE Shorter == /\ WorkLeft(c)' < WorkLeft(c)
                      /\ \A b \in Clients \ {c} : pc'[b] = pc[b] /\ job'[b] = job[b]
           Notes(v) == \/ job' = [job EXCEPT ![c].seen = v]
                       \/ job' = [job EXCEPT ![c].victim = v]
                       \/ job' = [job EXCEPT ![c].own = v]
           Then(v) == job' = [job EXCEPT ![c].then = v]
           Nearer(place, v) == StepsLeft(place, v) < StepsLeft(pc[c], job[c].then)
<1>1. job \in [Clients -> JobType] /\ pc \in [Clients -> Places] /\ job[c] \in JobType
  BY DEF TypeOK
<1>2. ASSUME pc[c] # "idle", Proceed(c) \/ Fail(c) PROVE Shorter
  BY <1>2, ProceedShortens, FailShortens
<1>3. ASSUME NEW place \in Places, Goto(c, place), UNCHANGED job, Nearer(place, job[c].then)
      PROVE  Shorter
  BY <1>3, MoveShortens
<1>4. ASSUME NEW place \in Places, Goto(c, place), NEW v, Notes(v), Nearer(place, job[c].then)
      PROVE  Shorter
  <2>1. job'[c].todo = job[c].todo /\ job'[c].then = job[c].then
        /\ \A b \in Clients \ {c} : job'[b] = job[b]
    BY <1>1, <1>4 DEF JobType
  <2> QED BY <1>4, <2>1, MoveShortens
<1>5. ASSUME NEW place \in Places, Goto(c, place), NEW v, Then(v), Nearer(place, v)
      PROVE  Shorter
  <2>1. job'[c].todo = job[c].todo /\ job'[c].then = v
        /\ \A b \in Clients \ {c} : job'[b] = job[b]
    BY <1>1, <1>5 DEF JobType
  <2> QED BY <1>5, <2>1, MoveShortens
<1> SUFFICES Shorter OBVIOUS
<1> HIDE DEF Shorter, Notes, Then
<1>6. CASE ReadInfo(c)
  <2>1. pc[c] = "ensure" /\ Goto(c, "probe") /\ Notes(info) BY <1>6 DEF ReadInfo, Notes
  <2>2. Nearer("probe", job[c].then) BY <2>1 DEF StepsLeft, Twice
  <2> QED BY <1>4, <2>1, <2>2 DEF Places
<1>7. CASE Probe(c)
  <2>1. pc[c] = "probe" /\ (Proceed(c) \/ (Goto(c, "again") /\ Notes(None)))
    BY <1>7 DEF Probe, Notes
  <2>2. Nearer("again", job[c].then) BY <2>1 DEF StepsLeft, Twice
  <2> QED BY <1>2, <1>4, <2>1, <2>2 DEF Places
<1>8. CASE ProbeAgain(c)
  <2>1. pc[c] = "again" /\ Goto(c, "kill") /\ (Then("retry") \/ Then("last"))
    BY <1>8 DEF ProbeAgain, Then
  <2>2. Nearer("kill", "retry") /\ Nearer("kill", "last") BY <2>1 DEF StepsLeft, Twice
  <2> QED BY <1>5, <2>1, <2>2 DEF Places
<1>9. CASE Kill(c)
  <2>1. pc[c] = "kill" /\ \/ Goto(c, "remove") /\ UNCHANGED job
                          \/ Goto(c, "dying") /\ Notes(info)
    BY <1>9 DEF Kill, Notes
  <2>2. Nearer("remove", job[c].then) /\ Nearer("dying", job[c].then) BY <2>1 DEF StepsLeft, Twice
  <2> QED BY <1>3, <1>4, <2>1, <2>2 DEF Places
<1>10. CASE Dead(c) \/ GraceOver(c)
  <2>1. pc[c] = "dying" /\ Goto(c, "remove") /\ Notes(None)
    BY <1>10 DEF Dead, GraceOver, Notes
  <2>2. Nearer("remove", job[c].then) BY <2>1 DEF StepsLeft, Twice
  <2> QED BY <1>4, <2>1, <2>2 DEF Places
<1>11. CASE Remove(c)
  <2>1. pc[c] = "remove" /\ (Proceed(c) \/ (Goto(c, "reprobe") /\ UNCHANGED job))
    BY <1>11 DEF Remove
  <2>2. Nearer("reprobe", job[c].then) BY <2>1 DEF StepsLeft, Twice
  <2> QED BY <1>2, <1>3, <2>1, <2>2 DEF Places
<1>12. CASE Reprobe(c)
  <2>1. pc[c] = "reprobe" /\ \/ Proceed(c)
                             \/ Goto(c, "spawn") /\ Then("last")
                             \/ job[c].then = "retry" /\ Goto(c, "kill") /\ Then("last")
    BY <1>12 DEF Reprobe, Then
  <2>2. Nearer("spawn", "last") /\ (job[c].then = "retry" => Nearer("kill", "last"))
    BY <2>1 DEF StepsLeft, Twice
  <2> QED BY <1>2, <1>5, <2>1, <2>2 DEF Places
<1>13. CASE Spawn(c)
  <2>1. pc[c] = "spawn" /\ (Fail(c) \/ \E d \in Daemons : Goto(c, "await") /\ Notes(d))
    BY <1>13 DEF Spawn, Notes
  <2>2. Nearer("await", job[c].then) BY <2>1 DEF StepsLeft, Twice
  <2> QED BY <1>2, <1>4, <2>1, <2>2 DEF Places
<1>14. CASE StartupTimesOut(c)
  <2>1. pc[c] = "await" /\ (Fail(c) \/ (Goto(c, "giveup") /\ UNCHANGED job))
    BY <1>14 DEF StartupTimesOut
  <2>2. Nearer("giveup", job[c].then) BY <2>1 DEF StepsLeft, Twice
  <2> QED BY <1>2, <1>3, <2>1, <2>2 DEF Places
<1>15. CASE \/ Started(c) \/ GivenUp(c) \/ Answered(c) \/ HungUp(c) \/ WaitStop(c)
            \/ Interrupted(c)
  <2>1. pc[c] # "idle" /\ (Proceed(c) \/ Fail(c))
    BY <1>15 DEF Started, GivenUp, Answered, HungUp, Waiting, WaitStop, Interrupted
  <2> QED BY <1>2, <2>1
<1>16. ASSUME NEW place \in {"reply", "stopreply"}, NEW then \in {"idle", "proceed"},
              Ask(c, place, then), pc[c] \in {"send", "stop", "status"}
       PROVE  Shorter
  <2>1. Goto(c, place) /\ job' = [job EXCEPT ![c].own = path, ![c].then = then]
    BY <1>16 DEF Ask
  <2>2. /\ job'[c].todo = job[c].todo /\ job'[c].then = then
        /\ \A b \in Clients \ {c} : job'[b] = job[b]
    BY <1>1, <2>1 DEF JobType
  <2>3. StepsLeft(place, then) = 1 /\ StepsLeft(pc[c], job[c].then) = 2
    BY <1>16 DEF StepsLeft
  <2>4. StepsLeft(place, job'[c].then) < StepsLeft(pc[c], job[c].then) BY <2>2, <2>3
  <2>5. place \in Places BY DEF Places
  <2> QED BY <2>1, <2>2, <2>4, <2>5, MoveShortens DEF Shorter
<1>17. CASE Send(c) \/ SendStop(c) \/ AskStatus(c)
  <2>1. /\ pc[c] \in {"send", "stop", "status"}
        /\ \/ Proceed(c) \/ Fail(c)
           \/ \E place \in {"reply", "stopreply"}, then \in {"idle", "proceed"} :
                 Ask(c, place, then)
    BY <1>17 DEF Send, SendStop, AskStatus
  <2> QED BY <1>2, <1>16, <2>1
<1> QED
  BY <1>6, <1>7, <1>8, <1>9, <1>10, <1>11, <1>12, <1>13, <1>14, <1>15, <1>17 DEF Look

(* No command of the CLI runs in circles: whatever the daemons and the other *)
(* clients do, each step that it takes shortens what it has left.            *)
THEOREM CommandsWindDown == Spec => CommandsShorten
<1>1. IInv /\ [Next]_vars => [EveryStepShortens]_vars
  <2> SUFFICES ASSUME IInv, Next PROVE EveryStepShortens OBVIOUS
  <2>0. TypeOK BY DEF IInv
  <2>1. ASSUME NEW c \in Clients, Look(c) \/ Answered(c) \/ Interrupted(c)
        PROVE  EveryStepShortens
    BY <2>0, <2>1, ClientShortens DEF EveryStepShortens
  <2>2. ASSUME NEW c \in Clients, NEW program \in ProgramsOf[c], Begin(c, program)
        PROVE  EveryStepShortens
    <3>1. pc[c] = "idle" /\ pc' = [pc EXCEPT ![c] = Head(program)]
          /\ job' = [job EXCEPT ![c].todo = Tail(program)]
      BY <2>2 DEF Begin, Goto
    <3>2. \A b \in Clients \ {c} : pc'[b] = pc[b] /\ job'[b] = job[b]
      BY <2>0, <3>1 DEF TypeOK
    <3> QED BY <3>1, <3>2 DEF EveryStepShortens
  <2>3. ASSUME NEW d \in Daemons,
               \/ Serve(d) \/ HandleStop(d) \/ CloseSocket(d) \/ StopBrowser(d)
               \/ Exit(d) \/ Crash(d)
        PROVE  EveryStepShortens
    <3>1. UNCHANGED <<pc, job>>
      BY <2>3 DEF Serve, ClearPath, BindPort, PortInUse, Listen, WriteInfo, HandleStop,
                  CloseSocket, StopBrowser, Exit, Crash
    <3> QED BY <3>1 DEF EveryStepShortens
  <2> QED BY <2>1, <2>2, <2>3 DEF Next
<1> QED BY <1>1, Invariance, PTL DEF Spec, CommandsShorten

(* A command takes at most 134 steps, however many processes there are. *)
THEOREM CommandsAreShort == Spec => [](\A c \in Clients : WorkLeft(c) \in 0..134)
<1>1. IInv => \A c \in Clients : WorkLeft(c) \in 0..134
  <2> SUFFICES ASSUME IInv, NEW c \in Clients PROVE WorkLeft(c) \in 0..134 OBVIOUS
  <2>1. pc[c] \in Places /\ job[c].todo \in Rests BY DEF IInv, TypeOK, JobType
  <2>2. StepsLeft(pc[c], job[c].then) \in 0..14 /\ Len(job[c].todo) \in 0..8
    BY <2>1, StepsLeftFacts, RestLength
  <2> DEFINE k == Len(job[c].todo)
             i == StepsLeft(pc[c], job[c].then)
  <2>3. WorkLeft(c) = 15 * k + i BY DEF WorkLeft
  <2> HIDE DEF k, i
  <2>4. k \in 0..8 /\ i \in 0..14 BY <2>2 DEF k, i
  <2> QED BY <2>3, <2>4
<1> QED BY <1>1, Invariance, PTL
=============================================================================
