---------------------------- MODULE TabRegistry ----------------------------
(* TabRegistry (tabs/registry.py): which agent owns which page, which page   *)
(* is an agent's active one, and which request has claimed a page or has     *)
(* reserved it for closing.                                                  *)
(*                                                                           *)
(* The body of every method runs under an asyncio.Lock and never suspends    *)
(* inside it, so each method is one step, and several methods called without *)
(* an await in between are one step as well.  A method is therefore written  *)
(* as an operator from a registry to a registry, with the condition under    *)
(* which it raises as an operator of its own; the module that composes them  *)
(* owns the variable.                                                        *)
(*                                                                           *)
(*   tabs    _tabs: page -> [owner, busy, closing]                           *)
(*   active  _active_tab_by_agent: agent -> page or None                     *)
(*   claims  _claim_tasks: <<page, request>> -> task                         *)
(*   used    the pages of _tabs, least recently used first (last_used_at)    *)
(*   made    the pages of _tabs, oldest first (created_at)                   *)
EXTENDS Naturals, Sequences, SequencesExt

CONSTANTS
    Agents,
    None        \* Python's None

EmptyRegistry ==
    [tabs |-> << >>, active |-> [a \in Agents |-> None],
     claims |-> << >>, used |-> << >>, made |-> << >>]

Has(reg, p) == p \in DOMAIN reg.tabs

Owns(reg, a, p) == Has(reg, p) /\ reg.tabs[p].owner = a

(* A page is in each of the two orders once. *)
Without(order, p) ==
    IF \A i \in DOMAIN order : order[i] # p THEN order
    ELSE RemoveAt(order, CHOOSE i \in DOMAIN order : order[i] = p)

(* record.last_used_at = time.time() *)
Touch(reg, p) == [reg EXCEPT !.used = Append(Without(@, p), p)]

(* add_tab: the new page is the agent's active one. *)
AddTab(reg, a, p) ==
    [Touch(reg, p) EXCEPT
        !.tabs = [q \in DOMAIN @ \cup {p} |->
                     IF q = p THEN [owner |-> a, busy |-> None, closing |-> None]
                              ELSE @[q]],
        !.made = Append(Without(@, p), p),
        !.active[a] = p]

(* update_tab raises for an unknown page and for one reserved for closing. *)
CanUpdate(reg, p) == Has(reg, p) /\ reg.tabs[p].closing = None

UpdateTab(reg, p) == Touch(reg, p)

CanActivate(reg, a, p) == Owns(reg, a, p) /\ reg.tabs[p].closing = None

SetActiveTab(reg, a, p) == [Touch(reg, p) EXCEPT !.active[a] = p]

(* get_active_tab: None stands for NoActiveTabError. *)
ActiveTab(reg, a) ==
    IF reg.active[a] # None /\ Owns(reg, a, reg.active[a]) THEN reg.active[a] ELSE None

(* list_tabs: the agent's pages, its active one first, then by age. *)
ListTabs(reg, a) ==
    LET mine == SelectSeq(reg.made, LAMBDA q : reg.tabs[q].owner = a)
        isActive(q) == q = reg.active[a]
    IN  SelectSeq(mine, isActive) \o SelectSeq(mine, LAMBDA q : ~isActive(q))

-----------------------------------------------------------------------------
(* claim_active_tab and claim_page refuse a page that another request holds  *)
(* or is closing; a closing reservation hides the claim of the page.         *)
Blocker(reg, p) ==
    IF reg.tabs[p].closing # None THEN reg.tabs[p].closing ELSE reg.tabs[p].busy

(* Slip: a claim that looks at the work on the page only. *)
MayClaim_ClosingIgnored(reg, a, p, id) ==
    Owns(reg, a, p) /\ reg.tabs[p].busy \in {None, id}

MayClaim(reg, a, p, id) == Owns(reg, a, p) /\ Blocker(reg, p) \in {None, id}

ClaimPage(reg, p, id, task) ==
    [Touch(reg, p) EXCEPT
        !.tabs[p].busy = id,
        !.claims = [c \in DOMAIN @ \cup {<<p, id>>} |->
                       IF c = <<p, id>> THEN task ELSE @[c]]]

(* check_claim: the page is there, is not being closed, and is still ours. *)
HoldsClaim(reg, p, id) ==
    Has(reg, p) /\ reg.tabs[p].closing = None /\ reg.tabs[p].busy = id

(* release_tab: only the claim of this very request. *)
ReleaseTab(reg, p, id) ==
    [reg EXCEPT
        !.claims = [c \in DOMAIN @ \ {<<p, id>>} |-> @[c]],
        !.tabs = IF Has(reg, p) /\ @[p].busy = id
                 THEN [@ EXCEPT ![p].busy = None] ELSE @]

-----------------------------------------------------------------------------
(* begin_close reserves the owner's page even while it is busy... *)
(* Slip: a page may be reserved a second time. *)
MayBeginClose_Again(reg, a, p) == Owns(reg, a, p)

MayBeginClose(reg, a, p) == Owns(reg, a, p) /\ reg.tabs[p].closing = None

BeginClose(reg, p, id) == [reg EXCEPT !.tabs[p].closing = id]

(* ... and tells who is working on it: the request and its task. *)
Claimant(reg, p) ==
    LET id == reg.tabs[p].busy
    IN  [id |-> id,
         task |-> IF <<p, id>> \in DOMAIN reg.claims THEN reg.claims[<<p, id>>] ELSE None]

(* end_close takes back only the reservation of this request. *)
EndClose(reg, p, id) ==
    IF Has(reg, p) /\ reg.tabs[p].closing = id
    THEN [reg EXCEPT !.tabs[p].closing = None]
    ELSE reg

(* Slip: no other page becomes active. *)
RemoveTab_NoFallback(reg, a, p) ==
    [reg EXCEPT
        !.tabs = [q \in DOMAIN @ \ {p} |-> @[q]],
        !.used = Without(@, p),
        !.made = Without(@, p),
        !.active[a] = IF @ # p THEN @ ELSE None]

Newest(S) == CHOOSE i \in S : \A k \in S : k <= i

(* remove_tab: the agent's most recently used other page becomes active. *)
RemoveTab(reg, a, p) ==
    LET left == Without(reg.used, p)
        mine == {i \in DOMAIN left : reg.tabs[left[i]].owner = a}
    IN  [reg EXCEPT
            !.tabs = [q \in DOMAIN @ \ {p} |-> @[q]],
            !.used = left,
            !.made = Without(@, p),
            !.active[a] = IF @ # p THEN @
                          ELSE IF mine = {} THEN None
                          ELSE left[Newest(mine)]]

(* clear forgets the tabs, not the claims. *)
ClearTabs(reg) == [EmptyRegistry EXCEPT !.claims = reg.claims]
=============================================================================
