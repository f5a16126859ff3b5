---------------------------- MODULE TabRegistry ----------------------------
(***************************************************************************)
(* The server's tab registry, src/server/tab_registry.rs: its operations,  *)
(* each from a registry to a registry.  A row binds a tab to one client    *)
(* and a workspace root.  `last_activity` is kept apart, as the set `idle` *)
(* of the tabs past REGISTRY_TAB_TTL; every operation says which tabs it   *)
(* touches.                                                                *)
(***************************************************************************)
EXTENDS Integers, Sequences, FiniteSets, SequencesExt

NoTab == 0

NewRegistry == [tabs |-> <<>>, active |-> NoTab, next |-> 1, revision |-> 0]

snapshot(reg) ==
    [tabs |-> reg.tabs, active |-> reg.active, revision |-> reg.revision]

PositionOf(reg, t) == SelectInSeq(reg.tabs, LAMBDA row : row.tab = t)
Registered(reg, t) == PositionOf(reg, t) # 0
TabIds(rows) == {rows[i].tab : i \in DOMAIN rows}
RootOf(reg, t) == reg.tabs[PositionOf(reg, t)].root

tab_for_client(reg, c) ==
    LET i == SelectInSeq(reg.tabs, LAMBDA row : row.client = c)
    IN  IF i = 0 THEN NoTab ELSE reg.tabs[i].tab

\* Only the bound client may change a tab.
BoundTo(reg, t, c) ==
    /\ Registered(reg, t)
    /\ reg.tabs[PositionOf(reg, t)].client = c

\* A mutation that was applied has a revision of its own.
Applied(reg) == [reg EXCEPT !.revision = @ + 1]

\* Mutant: no tab has the id -1.
LastTabUnset(rows) == IF rows = <<>> THEN -1 ELSE Last(rows).tab

LastTab(rows) == IF rows = <<>> THEN NoTab ELSE Last(rows).tab

\* Mutant: the active tab is kept even when its row is gone.
KeepRowsAndActive(reg, rows) == Applied([reg EXCEPT !.tabs = rows])

\* The rows that stay; the active tab falls back to the last one.
KeepRows(reg, rows) ==
    Applied([reg EXCEPT
        !.tabs = rows,
        !.active = IF @ \in TabIds(reg.tabs) \ TabIds(rows)
                   THEN LastTab(rows) ELSE @])

create_tab(reg, c, root) ==
    Applied([reg EXCEPT
        !.tabs = Append(@, [tab |-> reg.next, root |-> root, client |-> c]),
        !.active = reg.next,
        !.next = @ + 1])

close_tab(reg, t, c) ==
    IF BoundTo(reg, t, c)
    THEN KeepRows(reg, RemoveAt(reg.tabs, PositionOf(reg, t)))
    ELSE reg

\* The tabs that a sweep removes.
Expired(reg, idle, live) ==
    {row.tab : row \in {r \in ToSet(reg.tabs) :
                            r.client \notin live /\ r.tab \in idle}}

\* Vec::retain: the rows of the other tabs, in their order.
Retained(rows, gone) ==
    LET kept == {i \in DOMAIN rows : rows[i].tab \notin gone}
        Rank(i) == Cardinality({j \in kept : j <= i})
    IN  [n \in 1..Cardinality(kept) |-> rows[CHOOSE i \in kept : Rank(i) = n]]

sweep_expired(reg, idle, live) ==
    IF Expired(reg, idle, live) = {}
    THEN reg
    ELSE KeepRows(reg, Retained(reg.tabs, Expired(reg, idle, live)))

activate(reg, t, c) ==
    IF BoundTo(reg, t, c) /\ reg.active # t
    THEN Applied([reg EXCEPT !.active = t])
    ELSE reg

reclaim(reg, t, c) ==
    IF Registered(reg, t) /\ ~BoundTo(reg, t, c)
    THEN Applied([reg EXCEPT !.tabs[PositionOf(reg, t)].client = c])
    ELSE reg

\* Positions are 1-based; a position outside the rows is refused.
move_to(reg, t, c, position) ==
    LET i == PositionOf(reg, t)
    IN  IF /\ BoundTo(reg, t, c)
           /\ position \in DOMAIN reg.tabs
           /\ position # i
        THEN Applied([reg EXCEPT
                 !.tabs = InsertAt(RemoveAt(@, i), position, reg.tabs[i])])
        ELSE reg

move_left(reg, t, c) == move_to(reg, t, c, PositionOf(reg, t) - 1)
move_right(reg, t, c) == move_to(reg, t, c, PositionOf(reg, t) + 1)
=============================================================================
