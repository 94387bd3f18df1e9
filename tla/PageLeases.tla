----------------------------- MODULE PageLeases -----------------------------
(* What the tab registry promises the commands that share the browser,       *)
(* however many of them are suspended and however their driver calls end:    *)
(* a page is worked on by one task at a time and closed by one task at a     *)
(* time, always of the agent that owns it; nobody begins to work on a page   *)
(* that is being closed; a task has one page in hand at a time; and a page   *)
(* is forgotten only by the task that closed it, or together with all the    *)
(* others, when the workspace is rebuilt and nobody has any in hand.         *)
(*                                                                           *)
(* There are no awaits, batches, gates or cancellations here: PageCommands   *)
(* is shown to implement this specification with all of them.                *)
EXTENDS Functions

CONSTANTS
    Tasks, Agents, Pages,
    AgentOf,       \* the agent of each task
    None

VARIABLES
    owner,         \* the agent of each known page
    worker,        \* the task at work on it, or None
    closer         \* the task that is closing it, or None

leases == <<owner, worker, closer>>

Known == DOMAIN owner

(* Task t neither works on a page nor closes one. *)
HandsFree(t) == \A p \in Known : worker[p] # t /\ closer[p] # t

Add(f, p, v) == [q \in DOMAIN f \cup {p} |-> IF q = p THEN v ELSE f[q]]

Init ==
    /\ \E known \in SUBSET Pages : owner \in [known -> Agents]
    /\ worker = [p \in Known |-> None]
    /\ closer = [p \in Known |-> None]

(* A page is the agent's whose task opened it. *)
Open(t, p) ==
    /\ p \in Pages \ Known
    /\ owner' = Add(owner, p, AgentOf[t])
    /\ worker' = Add(worker, p, None)
    /\ closer' = Add(closer, p, None)

Work(t, p) ==
    /\ HandsFree(t)
    /\ owner[p] = AgentOf[t] /\ worker[p] = None /\ closer[p] = None
    /\ worker' = [worker EXCEPT ![p] = t]
    /\ UNCHANGED <<owner, closer>>

Rest(t, p) ==
    /\ worker[p] = t
    /\ worker' = [worker EXCEPT ![p] = None]
    /\ UNCHANGED <<owner, closer>>

(* A page may be reserved for closing while somebody works on it. *)
Reserve(t, p) ==
    /\ HandsFree(t)
    /\ owner[p] = AgentOf[t] /\ closer[p] = None
    /\ closer' = [closer EXCEPT ![p] = t]
    /\ UNCHANGED <<owner, worker>>

(* The page stays: whoever works on it goes on. *)
Keep(t, p) ==
    /\ closer[p] = t
    /\ closer' = [closer EXCEPT ![p] = None]
    /\ UNCHANGED <<owner, worker>>

Forget(t, p) ==
    /\ closer[p] = t
    /\ owner' = Restrict(owner, Known \ {p})
    /\ worker' = Restrict(worker, Known \ {p})
    /\ closer' = Restrict(closer, Known \ {p})

(* The window with all the pages is replaced by an empty one. *)
ForgetAll ==
    /\ \A t \in Tasks : HandsFree(t)
    /\ owner' = << >> /\ worker' = << >> /\ closer' = << >>

Next ==
    \/ \E t \in Tasks, p \in Pages : Open(t, p)
    \/ \E t \in Tasks, p \in Known :
          Work(t, p) \/ Rest(t, p) \/ Reserve(t, p) \/ Keep(t, p) \/ Forget(t, p)
    \/ ForgetAll

Spec == Init /\ [][Next]_leases
=============================================================================
