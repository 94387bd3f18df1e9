--------------------------- MODULE MCPageCommands ---------------------------
(* Small instances of PageCommands: a batch, a close-tab, and two more tasks *)
(* of the same and of another agent.                                         *)
EXTENDS PageCommands

CONSTANTS b, c, x, y, a1, a2, p1, p2, p3, p4

MCTasks == {b, c, x, y}
MCAgents == {a1, a2}
MCPages == {p1, p2, p3, p4}
MCAgentOf == [t \in MCTasks |-> IF t = y THEN a2 ELSE a1]
MCInitialTabs == << <<a1, p1>>, <<a1, p2>>, <<a2, p3>> >>

Cmd(o) == [op |-> o, page |-> None]
CmdOn(o, p) == [op |-> o, page |-> p]
One(m, cmd) == [mode |-> m, steps |-> <<cmd>>, stop |-> TRUE]

Batches ==
    {[mode |-> "batch", steps |-> <<Cmd("action"), second>>, stop |-> s] :
        second \in {Cmd("open"), CmdOn("switch", p2), CmdOn("close", p2)}, s \in BOOLEAN}

MCPrograms ==
    [t \in MCTasks |->
        CASE t = b -> Batches \cup {One("shared", Cmd("action"))}
          [] t = c -> {One("cleanup", CmdOn("close", p1)), One("cleanup", Cmd("close"))}
          [] t = x -> {One("shared", Cmd("action")), One("shared", CmdOn("switch", p2)),
                       One("shared", Cmd("tabs")), One("cleanup", CmdOn("close", p2))}
          [] t = y -> {One("shared", Cmd("action")), One("cleanup", CmdOn("close", p1)),
                       One("exclusive", Cmd("stop")), One("exclusive", Cmd("rebuild")),
                       One("shared", Cmd("read"))}]
=============================================================================
