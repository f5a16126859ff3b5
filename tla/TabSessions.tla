---------------------------- MODULE TabSessions ----------------------------
(***************************************************************************)
(* The tabs of one window: the server's registry and per-tab states        *)
(* (src/server/mod.rs), the connections that bind, use and leave them      *)
(* (src/server/connection.rs), and the driver that mounts one connection   *)
(* per tab, follows the registry's snapshots and reconnects what it loses  *)
(* (src/driver/).                                                          *)
(*                                                                         *)
(* A connection k has a client id, which the server counts from 1 again    *)
(* after a restart, as it does tab ids.  lane[k] is what k's event bridge  *)
(* still has to hand to the driver: snapshots in the order of the          *)
(* broadcast, and Lost at the end.  The driver reads it once the session   *)
(* of k is mounted.  Workspace roots are numbered; each belongs to one tab *)
(* of the window.  The bootstrap state, panes and documents inside a tab   *)
(* are left out, except that a connection holds grants in a tab's state.   *)
(***************************************************************************)
EXTENDS TabRegistry

CONSTANTS
    InitialTabs,   \* how many tabs the window starts with
    MaxConns,      \* bound: connections ever made
    MaxRoots,      \* bound: tabs the user opens
    MaxEvents      \* bound: tabs opened, commands, connections that break,
                   \* restarts, expiries and documents open, together

ASSUME TabConstants ==
    /\ InitialTabs \in {1, 2}
    /\ MaxRoots \in Nat /\ MaxRoots >= InitialTabs
    /\ MaxConns \in Nat /\ MaxConns >= InitialTabs
    /\ MaxEvents \in Nat

VARIABLES
    reg,        \* the registry
    idle,       \* tabs whose last_activity is past the TTL
    states,     \* tabs that have an entry in tab_states
    live,       \* live_clients
    grants,     \* <<tab, connection>>: access held in a tab's state
    conn,       \* the server's side of each connection
    lane,       \* what each connection's bridge still has to deliver
    commands,   \* tab commands on their way to the server
    reply,      \* what a connecting client has been told
    mounted,    \* Driver.tabs: client id -> its tab
    shown,      \* Driver.active_tab
    last,       \* Driver.registry_revision, or None
    mirror,     \* Driver.registry
    tasks,      \* running reconnect tasks
    dialog,     \* the connection of a tab being opened, or 0
    count       \* how often each bounded thing has happened

server == <<reg, idle, states, live, grants>>
window == <<mounted, shown, last, mirror, tasks, dialog>>
vars == <<server, conn, lane, commands, reply, window, count>>

Conns == 1..MaxConns
Roots == 1..MaxRoots
None == -1
Lost == [lost |-> TRUE]
Off == [phase |-> "off"]
Gone(k) == [phase |-> "gone", id |-> conn[k].id]
NoSnapshot == snapshot(NewRegistry)

Binding(op, t, r) == [op |-> op, tab |-> t, root |-> r]

Serving(id, t) ==
    [phase |-> "serving", id |-> id, bind |-> Binding("new", NoTab, id),
     seen |-> FALSE, bound |-> t, state |-> t, snap |-> NoSnapshot,
     cut |-> FALSE]

InitialRegistry ==
    LET one == create_tab(NewRegistry, 1, 1)
    IN  IF InitialTabs = 1 THEN one ELSE create_tab(one, 2, 2)

\* A window with one or two tabs, at rest.
Init ==
    /\ reg = InitialRegistry
    /\ idle = {}
    /\ states = 1..InitialTabs
    /\ live = 1..InitialTabs
    /\ grants = {}
    /\ conn = [k \in Conns |-> IF k <= InitialTabs THEN Serving(k, k) ELSE Off]
    /\ lane = [k \in Conns |-> <<>>]
    /\ commands = [k \in Conns |-> <<>>]
    /\ reply = [k \in Conns |->
           IF k <= InitialTabs THEN "session" ELSE "none"]
    /\ mounted = [c \in 1..InitialTabs |->
           [tab |-> c, root |-> c, link |-> c]]
    /\ shown = InitialTabs
    /\ last = reg.revision
    /\ mirror = snapshot(reg)
    /\ tasks = {}
    /\ dialog = 0
    /\ count = [conns |-> InitialTabs, roots |-> InitialTabs,
                clients |-> InitialTabs, commands |-> 0, losses |-> 0,
                restarts |-> 0, expiries |-> 0]

-----------------------------------------------------------------------------
(* The registry lane and the sweep                                         *)

Handling == {"arrived", "ready", "looked", "ensured", "bound", "serving"}
Alive(k) == conn[k].phase \notin {"off", "gone"}
Hears(k) == conn[k].phase \in Handling /\ ~conn[k].cut

\* tab_registry_tx.send
Told(lanes, snap) ==
    [k \in Conns |-> IF Hears(k) THEN Append(lanes[k], snap) ELSE lanes[k]]

\* Mutant: the states of all idle tabs go, those of live clients too.
SweepIdleStates(alive) ==
    LET expired == Expired(reg, idle, alive)
    IN  /\ reg' = sweep_expired(reg, idle, alive)
        /\ idle' = idle \ expired
        /\ states' = states \ idle
        /\ lane' = IF expired = {} THEN lane ELSE Told(lane, snapshot(reg'))

\* sweep_expired_tabs, with `alive` as the live clients.
Sweep(alive) ==
    LET expired == Expired(reg, idle, alive)
    IN  /\ reg' = sweep_expired(reg, idle, alive)
        /\ idle' = idle \ expired
        /\ states' = states \ expired
        /\ lane' = IF expired = {} THEN lane ELSE Told(lane, snapshot(reg'))

\* Something else may still happen to the window.
MayHappen ==
    count.commands + count.losses + count.restarts + count.expiries
        + (count.roots - InitialTabs) + Cardinality(grants) < MaxEvents

\* Nothing touches tab t for REGISTRY_TAB_TTL.
Expire(t) ==
    /\ MayHappen
    /\ t \in TabIds(reg.tabs) \ idle
    /\ idle' = idle \union {t}
    /\ count' = [count EXCEPT !.expiries = @ + 1]
    /\ UNCHANGED <<reg, states, live, grants, conn, lane, commands, reply,
                   window>>

-----------------------------------------------------------------------------
(* A connection on the server                                              *)

\* The next connection, made by the driver to bind as b: spawn_connection
\* counts its client as live, then sweeps.
NextConn == count.conns + 1
Arrive(b) ==
    /\ NextConn \in Conns
    /\ conn' = [conn EXCEPT ![NextConn] =
           [Serving(count.clients + 1, NoTab) EXCEPT
               !.phase = "arrived", !.bind = b]]
    /\ live' = live \union {count.clients + 1}
    /\ Sweep(live \union {count.clients + 1})
    /\ UNCHANGED <<grants, commands, reply>>

\* The client says Hello; the registry's snapshot is replayed to it, ahead of
\* what the lane has buffered since the subscription.
Handshake(k) ==
    /\ conn[k].phase = "arrived"
    /\ conn' = [conn EXCEPT ![k].phase = "ready"]
    /\ lane' = [lane EXCEPT ![k] =
           IF conn[k].cut THEN @ ELSE <<snapshot(reg)>> \o @]
    /\ UNCHANGED <<server, commands, reply, window, count>>

\* TabCommand::New, up to the broadcast.
BindNew(k) ==
    LET t == reg.next
    IN  /\ conn[k].phase = "ready"
        /\ conn[k].bind.op = "new"
        /\ tab_for_client(reg, conn[k].id) = NoTab
        /\ reg' = create_tab(reg, conn[k].id, conn[k].bind.root)
        /\ states' = states \union {t}
        /\ conn' = [conn EXCEPT ![k].phase = "bound", ![k].bound = t,
                                ![k].state = t, ![k].snap = snapshot(reg')]
        /\ UNCHANGED <<idle, live, grants, lane, commands, reply, window,
                       count>>

\* TabCommand::Reclaim takes the registry's lock and that of the states one
\* after the other: is there an entry, has it a state, then rebind it.
LookUp(k) ==
    /\ conn[k].phase = "ready"
    /\ conn[k].bind.op = "reclaim"
    /\ tab_for_client(reg, conn[k].id) \in {NoTab, conn[k].bind.tab}
    /\ conn' = [conn EXCEPT ![k].phase = "looked",
                            ![k].seen = Registered(reg, conn[k].bind.tab)]
    /\ UNCHANGED <<server, lane, commands, reply, window, count>>

EnsureState(k) ==
    /\ conn[k].phase = "looked"
    /\ conn' = [conn EXCEPT ![k].phase = "ensured"]
    /\ states' = IF conn[k].seen THEN states \union {conn[k].bind.tab}
                                 ELSE states
    /\ UNCHANGED <<reg, idle, live, grants, lane, commands, reply, window,
                   count>>

Reclaim(k) ==
    LET t == conn[k].bind.tab
    IN  /\ conn[k].phase = "ensured"
        /\ Registered(reg, t)
        /\ reg' = reclaim(reg, t, conn[k].id)
        /\ idle' = idle \ {t}
        /\ conn' = [conn EXCEPT ![k].phase = "bound", ![k].bound = t,
                        ![k].state = IF t \in states THEN t ELSE @,
                        ![k].snap = snapshot(reg')]
        /\ UNCHANGED <<states, live, grants, lane, commands, reply, window,
                       count>>

\* "could not reclaim tab": the client gives the connection up.
RefuseReclaim(k) ==
    /\ conn[k].phase = "ensured"
    /\ ~Registered(reg, conn[k].bind.tab)
    /\ conn' = [conn EXCEPT ![k].phase = "serving", ![k].cut = TRUE]
    /\ reply' = [reply EXCEPT ![k] = IF conn[k].cut THEN @ ELSE "rejected"]
    /\ lane' = [lane EXCEPT ![k] = <<>>]
    /\ UNCHANGED <<server, commands, window, count>>

\* Mutant: no connection is told of the tab that was bound.
AnnounceQuietly(k) ==
    /\ conn[k].phase = "bound"
    /\ ~conn[k].cut
    /\ conn' = [conn EXCEPT ![k].phase = "serving", ![k].snap = NoSnapshot]
    /\ reply' = [reply EXCEPT ![k] = "session"]
    /\ UNCHANGED <<server, lane, commands, window, count>>

\* send_tab_initial_state, which completes the client's session, and the
\* broadcast of the snapshot taken when the tab was bound.
Announce(k) ==
    /\ conn[k].phase = "bound"
    /\ ~conn[k].cut
    /\ conn' = [conn EXCEPT ![k].phase = "serving", ![k].snap = NoSnapshot]
    /\ lane' = Told(lane, conn[k].snap)
    /\ reply' = [reply EXCEPT ![k] = "session"]
    /\ UNCHANGED <<server, commands, window, count>>

\* The next tab command of a served connection.  A snapshot is broadcast
\* whether it is applied or refused; the bound client's command touches the
\* tab.  A connection that closes its tab reads nothing more from the lane.
Effect(k, cmd) ==
    CASE cmd.op = "activate" -> activate(reg, cmd.tab, conn[k].id)
      [] cmd.op = "close" -> close_tab(reg, cmd.tab, conn[k].id)
      [] cmd.op = "left" -> move_left(reg, cmd.tab, conn[k].id)
      [] cmd.op = "right" -> move_right(reg, cmd.tab, conn[k].id)
      [] cmd.op = "to" -> move_to(reg, cmd.tab, conn[k].id, cmd.position)

Perform(k) ==
    LET cmd == Head(commands[k])
        mine == BoundTo(reg, cmd.tab, conn[k].id)
    IN  /\ conn[k].phase = "serving"
        /\ commands[k] # <<>>
        /\ reg' = Effect(k, cmd)
        /\ idle' = IF mine THEN idle \ {cmd.tab} ELSE idle
        /\ lane' = [Told(lane, snapshot(reg')) EXCEPT
               ![k] = IF cmd.op = "close" /\ mine THEN lane[k] ELSE @]
        /\ commands' = [commands EXCEPT ![k] = Tail(@)]
        /\ conn' = [conn EXCEPT ![k].phase =
               IF cmd.op = "close" /\ mine THEN "closed" ELSE @]
        /\ UNCHANGED <<states, live, grants, reply, window, count>>

\* The stream of k ends: its client gets a part of what was for it, and
\* nobody reads that of a connection without a session.
Ended(k) ==
    IF conn[k].cut THEN {lane}
    ELSE IF reply[k] # "session" THEN {[lane EXCEPT ![k] = <<>>]}
    ELSE {[lane EXCEPT ![k] = Append(SubSeq(@, 1, n), Lost)] :
              n \in 0..Len(lane[k])}

\* The rest of an accepted Close: remove_tab_state, and the handler returns,
\* which ends the stream.
FinishClose(k) ==
    /\ conn[k].phase = "closed"
    /\ states' = states \ {conn[k].bound}
    /\ conn' = [conn EXCEPT ![k].phase = "closing", ![k].cut = TRUE]
    /\ lane' \in Ended(k)
    /\ commands' = [commands EXCEPT ![k] = <<>>]
    /\ UNCHANGED <<reg, idle, live, grants, reply, window, count>>

\* A message about a document: route_connection_tab_state finds the state of
\* the tab that the client is bound to, or the message is refused.
UseDocument(k) ==
    LET t == tab_for_client(reg, conn[k].id)
    IN  /\ conn[k].phase = "serving"
        /\ ~conn[k].cut
        /\ t \in states
        /\ MayHappen
        /\ <<t, k>> \notin grants
        /\ conn' = [conn EXCEPT ![k].bound = t, ![k].state = t]
        /\ grants' = grants \union {<<t, k>>}
        /\ UNCHANGED <<reg, idle, states, live, lane, commands, reply,
                       window, count>>

\* The connection breaks.  What the client has not read yet is lost.
Lose(k) ==
    /\ MayHappen
    /\ conn[k].phase \in Handling
    /\ ~conn[k].cut
    /\ conn' = [conn EXCEPT ![k].cut = TRUE]
    /\ lane' \in Ended(k)
    /\ reply' = [reply EXCEPT ![k] = IF @ = "none" THEN "lost" ELSE @]
    /\ count' = [count EXCEPT !.losses = @ + 1]
    /\ UNCHANGED <<server, commands, window>>

\* The handler sees the end of the stream, or fails to write to it; what it
\* has not read yet is dropped.
Notice(k) ==
    /\ conn[k].phase \in {"arrived", "ready", "bound", "serving"}
    /\ conn[k].cut
    /\ conn' = [conn EXCEPT ![k].phase = "closing"]
    /\ commands' = [commands EXCEPT ![k] = <<>>]
    /\ UNCHANGED <<server, lane, reply, window, count>>

\* Mutant: the tab is looked up in the registry.
CleanUpByRegistry(k) ==
    /\ conn[k].phase = "closing"
    /\ grants' = grants \ {<<tab_for_client(reg, conn[k].id), k>>}
    /\ conn' = [conn EXCEPT ![k].phase = "leaving"]
    /\ UNCHANGED <<reg, idle, states, live, lane, commands, reply, window,
                   count>>

\* cleanup_connection_documents on the state last routed to the connection.
CleanUp(k) ==
    LET routed == IF conn[k].state # NoTab THEN conn[k].state
                  ELSE tab_for_client(reg, conn[k].id)
    IN  /\ conn[k].phase = "closing"
        /\ grants' = grants \ {<<routed, k>>}
        /\ conn' = [conn EXCEPT ![k].phase = "leaving"]
        /\ UNCHANGED <<reg, idle, states, live, lane, commands, reply,
                       window, count>>

\* The sweep on departure still counts the client as live; then its task ends.
Depart(k) ==
    /\ conn[k].phase = "leaving"
    /\ Sweep(live)
    /\ live' = live \ {conn[k].id}
    /\ conn' = [conn EXCEPT ![k] = Gone(k)]
    /\ UNCHANGED <<grants, commands, reply, window, count>>

\* The server process ends and starts again: its memory is lost, and it
\* numbers clients and tabs from 1.
Restart ==
    /\ MayHappen
    /\ reg' = NewRegistry
    /\ idle' = {} /\ states' = {} /\ live' = {} /\ grants' = {}
    /\ conn' = [k \in Conns |-> IF conn[k] = Off THEN Off ELSE Gone(k)]
    /\ lane' = [k \in Conns |->
           IF Alive(k) /\ ~conn[k].cut
           THEN IF reply[k] = "session" THEN Append(lane[k], Lost) ELSE <<>>
           ELSE lane[k]]
    /\ commands' = [k \in Conns |-> <<>>]
    /\ reply' = [k \in Conns |->
           IF conn[k] # Off /\ reply[k] = "none" THEN "lost" ELSE reply[k]]
    /\ count' = [count EXCEPT !.restarts = @ + 1, !.clients = 0]
    /\ UNCHANGED window

-----------------------------------------------------------------------------
(* The driver                                                              *)

Clients == DOMAIN mounted

\* Mutant: snapshots are applied in any order.
AcceptsAll(snap) == TRUE

\* accept_registry_snapshot
Accepts(snap) == snap.tabs = <<>> \/ last = None \/ snap.revision > last

\* apply_tab_registry: the tab ids that the window knows after `snap`, the
\* tabs that have vanished, and the tab to show.
Identified(snap) ==
    [c \in Clients |->
        [mounted[c] EXCEPT !.tab =
            IF snap.tabs = <<>> THEN NoTab
            ELSE IF tab_for_client(snap, c) # NoTab THEN tab_for_client(snap, c)
            ELSE @]]

Vanished(snap) ==
    IF snap.tabs = <<>> THEN {}
    ELSE {c \in Clients : Identified(snap)[c].tab
                              \notin {NoTab} \union TabIds(snap.tabs)}

NewActive(snap) ==
    LET rest == Clients \ Vanished(snap)
        row == SelectInSeq(snap.tabs, LAMBDA r : r.tab = snap.active)
    IN  IF shown \in Vanished(snap)
        THEN IF rest = {} THEN shown ELSE Min(rest)
        ELSE IF row # 0 /\ snap.tabs[row].client \in Clients
        THEN snap.tabs[row].client
        ELSE shown

\* The next event of the bridge of the tab of client c is a snapshot that is
\* applied (with apply_registry_reconcile), one that is stale, or the loss of
\* the connection, which starts a reconnect task.
NextEvent(c) == Head(lane[mounted[c].link])
HasEvent(c) == c \in Clients /\ lane[mounted[c].link] # <<>>
Taken(c) == lane' = [lane EXCEPT ![mounted[c].link] = Tail(@)]

ApplySnapshot(c) ==
    /\ HasEvent(c)
    /\ NextEvent(c) # Lost
    /\ Accepts(NextEvent(c))
    /\ LET snap == NextEvent(c)
           gone == Vanished(snap)
       IN  /\ mounted' = [d \in Clients \ gone |-> Identified(snap)[d]]
           /\ shown' = NewActive(snap)
           /\ last' = snap.revision
           /\ mirror' = snap
           /\ tasks' = {IF task.for \in gone /\ task.keyed
                        THEN [task EXCEPT !.keyed = FALSE, !.cancelled = TRUE]
                        ELSE task : task \in tasks}
           /\ conn' = [k \in Conns |->
                  IF Alive(k) /\ \E d \in gone : mounted[d].link = k
                  THEN [conn[k] EXCEPT !.cut = TRUE] ELSE conn[k]]
           /\ lane' = [k \in Conns |->
                  IF \E d \in gone : mounted[d].link = k THEN <<>>
                  ELSE IF k = mounted[c].link THEN Tail(lane[k])
                  ELSE lane[k]]
    /\ UNCHANGED <<server, commands, reply, dialog, count>>

IgnoreSnapshot(c) ==
    /\ HasEvent(c)
    /\ NextEvent(c) # Lost
    /\ ~Accepts(NextEvent(c))
    /\ Taken(c)
    /\ UNCHANGED <<server, conn, commands, reply, window, count>>

\* Mutant: the task takes the id of the tab that is shown.
DisconnectedAsShown(c) ==
    /\ HasEvent(c)
    /\ NextEvent(c) = Lost
    /\ Taken(c)
    /\ tasks' =
           IF \E task \in tasks : task.for = c /\ task.keyed
           THEN tasks
           ELSE tasks \union
               {[for |-> c, tab |-> mounted[shown].tab,
                 root |-> mounted[c].root,
                 link |-> 0, keyed |-> TRUE, cancelled |-> FALSE]}
    /\ UNCHANGED <<server, conn, commands, reply, mounted, shown, last,
                   mirror, dialog, count>>

\* Disconnected: start_tab_reconnect
Disconnected(c) ==
    /\ HasEvent(c)
    /\ NextEvent(c) = Lost
    /\ Taken(c)
    /\ tasks' =
           IF \E task \in tasks : task.for = c /\ task.keyed
           THEN tasks
           ELSE tasks \union
               {[for |-> c, tab |-> mounted[c].tab, root |-> mounted[c].root,
                 link |-> 0, keyed |-> TRUE, cancelled |-> FALSE]}
    /\ UNCHANGED <<server, conn, commands, reply, mounted, shown, last,
                   mirror, dialog, count>>

-----------------------------------------------------------------------------
(* The reconnect task                                                      *)

Connected(task, b) ==
    /\ Arrive(b)
    /\ tasks' = (tasks \ {task}) \union {[task EXCEPT !.link = NextConn]}
    /\ count' = [count EXCEPT !.conns = @ + 1, !.clients = @ + 1]
    /\ UNCHANGED <<mounted, shown, last, mirror, dialog>>

\* One attempt: Reclaim of the tab id known when the task began, or New.
TryConnect(task) ==
    /\ task.link = 0
    /\ ~task.cancelled
    /\ Connected(task, IF task.tab # NoTab
                       THEN Binding("reclaim", task.tab, task.root)
                       ELSE Binding("new", NoTab, task.root))

\* Mutant: the refused Reclaim is tried again.
FallBackToReclaim(task) ==
    /\ task.link # 0
    /\ reply[task.link] = "rejected"
    /\ Connected(task, Binding("reclaim", task.tab, task.root))

\* connect_for_reclaim_or_new: a refused Reclaim is followed by New.
FallBackToNew(task) ==
    /\ task.link # 0
    /\ reply[task.link] = "rejected"
    /\ Connected(task, Binding("new", NoTab, task.root))

Retry(task) ==
    /\ task.link # 0
    /\ reply[task.link] = "lost"
    /\ tasks' = (tasks \ {task}) \union {[task EXCEPT !.link = 0]}
    /\ UNCHANGED <<server, conn, lane, commands, reply, mounted, shown, last,
                   mirror, dialog, count>>

Cancelled(task) ==
    /\ task.link = 0
    /\ task.cancelled
    /\ tasks' = tasks \ {task}
    /\ UNCHANGED <<server, conn, lane, commands, reply, mounted, shown, last,
                   mirror, dialog, count>>

\* ReconnectTabConnected: reconnect_tab gives the tab the new client id, or
\* drops the session of a tab that is gone.
Done(task) ==
    {[other EXCEPT !.keyed = @ /\ other.for # task.for] :
         other \in tasks \ {task}}

Rekey(task) ==
    LET c == task.for
        n == conn[task.link].id
    IN  /\ task.link # 0
        /\ reply[task.link] = "session"
        /\ c \in Clients
        /\ mounted' = [d \in (Clients \ {c}) \union {n} |->
               IF d = n THEN [mounted[c] EXCEPT !.link = task.link]
                        ELSE mounted[d]]
        /\ shown' = IF shown = c THEN n ELSE shown
        /\ tasks' = Done(task)
        /\ UNCHANGED <<server, conn, lane, commands, reply, last, mirror,
                       dialog, count>>

DropSession(task) ==
    /\ task.link # 0
    /\ reply[task.link] = "session"
    /\ task.for \notin Clients
    /\ tasks' = Done(task)
    /\ conn' = [conn EXCEPT ![task.link] =
           IF Alive(task.link) THEN [@ EXCEPT !.cut = TRUE] ELSE @]
    /\ lane' = [lane EXCEPT ![task.link] = <<>>]
    /\ UNCHANGED <<server, commands, reply, mounted, shown, last, mirror,
                   dialog, count>>

-----------------------------------------------------------------------------
(* The user                                                                *)

OpenTab ==
    /\ dialog = 0
    /\ MayHappen
    /\ count.roots < MaxRoots
    /\ Arrive(Binding("new", NoTab, count.roots + 1))
    /\ dialog' = NextConn
    /\ count' = [count EXCEPT !.conns = @ + 1, !.clients = @ + 1,
                              !.roots = @ + 1]
    /\ UNCHANGED <<mounted, shown, last, mirror, tasks>>

\* OpenTabConnected: mount_tab
MountTab ==
    LET n == conn[dialog].id
    IN  /\ dialog # 0
        /\ reply[dialog] = "session"
        /\ IF n \in Clients
           THEN /\ conn' = [conn EXCEPT ![dialog] =
                       IF Alive(dialog) THEN [@ EXCEPT !.cut = TRUE] ELSE @]
                /\ UNCHANGED <<mounted, shown>>
           ELSE /\ mounted' = [d \in Clients \union {n} |->
                       IF d = n THEN [tab |-> NoTab, root |-> count.roots,
                                      link |-> dialog]
                                ELSE mounted[d]]
                /\ shown' = n
                /\ UNCHANGED conn
        /\ dialog' = 0
        /\ UNCHANGED <<server, lane, commands, reply, last, mirror, tasks,
                       count>>

OpenFailed ==
    /\ dialog # 0
    /\ reply[dialog] = "lost"
    /\ dialog' = 0
    /\ UNCHANGED <<server, conn, lane, commands, reply, mounted, shown, last,
                   mirror, tasks, count>>

\* A command on the connection of tab c's client, if the server knows the tab
\* and the connection still takes one.
Command(c, op, position) ==
    LET k == mounted[c].link
    IN  /\ MayHappen
        /\ count' = [count EXCEPT !.commands = @ + 1]
        /\ commands' =
               IF mounted[c].tab # NoTab /\ Alive(k) /\ ~conn[k].cut
               THEN [commands EXCEPT ![k] = Append(@,
                        [op |-> op, tab |-> mounted[c].tab,
                         position |-> position])]
               ELSE commands
        /\ UNCHANGED <<server, conn, lane, reply, mounted, last, mirror,
                       tasks, dialog>>

\* activate_tab: the command is sent and the window switches at once.
ActivateTab(c) ==
    /\ c \in Clients \ {shown}
    /\ Command(c, "activate", 0)
    /\ shown' = c

\* close_tab of a tab without unsaved documents; the last tab stays.
CloseTab(c) ==
    /\ c \in Clients
    /\ Cardinality(Clients) >= 2
    /\ Command(c, "close", 0)
    /\ UNCHANGED shown

\* tab_order: the mounted tabs in the order of the registry, then the others.
TabOrder ==
    LET rows == SelectSeq(mirror.tabs, LAMBDA row : row.client \in Clients)
        known == [i \in DOMAIN rows |-> rows[i].client]
    IN  known \o SetToSortSeq(Clients \ ToSet(known), <)

\* move_active_tab and move_active_tab_to
MoveTab ==
    /\ shown \in Clients
    /\ LET here == SelectInSeq(TabOrder, LAMBDA c : c = shown)
       IN  \/ here > 1 /\ Command(shown, "left", 0)
           \/ here < Len(TabOrder) /\ Command(shown, "right", 0)
           \/ \E to \in DOMAIN TabOrder : Command(shown, "to", to)
    /\ UNCHANGED shown

-----------------------------------------------------------------------------
ServerStep(k) ==
    \/ Handshake(k) \/ BindNew(k) \/ LookUp(k) \/ EnsureState(k)
    \/ Reclaim(k) \/ RefuseReclaim(k) \/ Announce(k) \/ Perform(k)
    \/ FinishClose(k) \/ Notice(k) \/ CleanUp(k) \/ Depart(k)

DriverStep(c) == ApplySnapshot(c) \/ IgnoreSnapshot(c) \/ Disconnected(c)

TaskStep(task) ==
    \/ TryConnect(task) \/ FallBackToNew(task) \/ Retry(task)
    \/ Cancelled(task) \/ Rekey(task) \/ DropSession(task)

UserStep ==
    \/ OpenTab \/ MountTab \/ OpenFailed \/ MoveTab
    \/ \E c \in Clients : ActivateTab(c) \/ CloseTab(c)

Next ==
    \/ \E k \in Conns : ServerStep(k) \/ UseDocument(k) \/ Lose(k)
    \/ \E c \in Clients : DriverStep(c)
    \/ \E task \in tasks : TaskStep(task)
    \/ \E t \in TabIds(reg.tabs) : Expire(t)
    \/ UserStep
    \/ Restart

Spec == Init /\ [][Next]_vars

\* The runtime runs every connection and reconnect task, and the event loop
\* hands the driver what its bridges send.  Users, losses, time and restarts
\* owe nothing.
Fairness ==
    /\ \A k \in Conns : WF_vars(ServerStep(k))
    /\ \A c \in Conns : WF_vars(c \in Clients /\ DriverStep(c))
    /\ \A c \in Conns : WF_vars(\E task \in tasks : task.for = c /\ TaskStep(task))
    /\ WF_vars(MountTab \/ OpenFailed)

FairSpec == Spec /\ Fairness

-----------------------------------------------------------------------------
(* Properties                                                              *)

TabIdSet == 1..MaxConns

TypeOK ==
    /\ reg.active \in TabIdSet \union {NoTab}
    /\ \A row \in ToSet(reg.tabs) :
           row.tab \in TabIdSet /\ row.root \in Roots /\ row.client \in Conns
    /\ idle \subseteq TabIds(reg.tabs)
    /\ states \subseteq TabIdSet
    /\ live \subseteq Conns
    /\ grants \subseteq TabIdSet \X Conns
    /\ Clients \subseteq Conns
    /\ \A c \in Clients :
           /\ mounted[c].tab \in TabIdSet \union {NoTab}
           /\ mounted[c].root \in Roots
           /\ mounted[c].link \in Conns
    /\ dialog \in Conns \union {0}

\* Every registered tab has its server state, whatever reclaims, closes and
\* sweeps run against each other: a client that is bound is never left without
\* documents (create_tab_state, remove_tab_state and sweep_expired_tabs take
\* the two locks in different ways).
RegisteredTabsHaveState == TabIds(reg.tabs) \subseteq states

\* One connection is bound to one tab, and the active tab is registered: New
\* and Reclaim check the binding before they take the lock to change it.
OneTabPerClient ==
    /\ \A i, j \in DOMAIN reg.tabs :
           i # j => /\ reg.tabs[i].tab # reg.tabs[j].tab
                    /\ reg.tabs[i].client # reg.tabs[j].client
    /\ reg.active \in TabIds(reg.tabs) \/ (reg.tabs = <<>> /\ reg.active = NoTab)

\* A connection that has left holds no grant in any tab's state, also when
\* another connection reclaimed its tab first.
GrantsEnd == \A g \in grants : conn[g[2]].phase \in Handling \union {"closed", "closing"}

\* Nothing is under way.
AtRest ==
    /\ tasks = {} /\ dialog = 0
    /\ \A k \in Conns : /\ conn[k].phase \in {"off", "gone", "serving"}
                         /\ commands[k] = <<>>
    /\ \A c \in Clients : /\ lane[mounted[c].link] = <<>>
                           /\ Alive(mounted[c].link)

\* The tabs of the window's clients, as the driver and the registry know them,
\* and whether two of them are listed in this order.
OwnTabs == {mounted[c].tab : c \in Clients}
           \union {tab_for_client(reg, c) : c \in Clients}
Before(rows, t, u) ==
    \E i, j \in DOMAIN rows : i < j /\ rows[i].tab = t /\ rows[j].tab = u
SameList ==
    /\ OwnTabs \intersect TabIds(mirror.tabs) = OwnTabs \intersect TabIds(reg.tabs)
    /\ \A t, u \in OwnTabs : Before(mirror.tabs, t, u) <=> Before(reg.tabs, t, u)

\* At rest the window lists the tabs that the registry lists, in its order:
\* relays of several connections, in any order, lost in part, end in the same
\* list.  (This speaks of a registry that is never empty.  An empty snapshot is
\* accepted whatever its revision, and older ones can pass for new after it.)
NeverEmpty == [](reg.tabs # <<>>)
WindowAgreesAtRest == NeverEmpty => [](AtRest => SameList)

\* A tab leaves the window only when its registry entry is gone: a stale
\* snapshot never removes one.  (A restarted server counts tab ids and
\* revisions from the start again, and then a tab id may name another tab.)
DropsOnlyUnregistered ==
    [][count.restarts = 0 =>
           \A c \in Clients :
               mounted[c].root \notin {mounted'[d].root : d \in DOMAIN mounted'}
                   => mounted[c].tab \notin TabIds(reg.tabs)]_vars

\* A tab whose connection is lost is served again, on its old server tab or a
\* new one: the reconnect task retries, falls back from Reclaim to New, and the
\* driver takes the session.  It may leave the window instead, beside other
\* tabs, only where a tab was closed, the registry dropped one or the server
\* restarted (what is wrong with that: RebuiltTabsStay); lost connections alone
\* never cost a tab, and a window never ends with no tab at all.  (Served is
\* mounted on a live connection whose handler has a state for it.  Its registry
\* row may name another client: a Reclaim of an attempt that was given up can
\* still be carried out after the one that succeeded.)
OfRoot(r) == {c \in Clients : mounted[c].root = r}
Served(c) ==
    LET k == mounted[c].link
    IN  conn[k].phase = "serving" /\ ~conn[k].cut /\ conn[k].state # NoTab
MayLeave == count.commands + count.expiries + count.restarts > 0
LostTabsReturn ==
    \A r \in Roots :
        (OfRoot(r) # {} /\ \A c \in OfRoot(r) : ~Served(c))
            ~> \/ OfRoot(r) = {} /\ Clients # {} /\ MayLeave
               \/ \E c \in OfRoot(r) : Served(c)

\* Disagreement: restore.rs has a tab that the server evicted rebuilt with New.
\* The rebuilt tab is registered under its new client, but reconnect_tab mounts
\* it with the tab id it had, and a snapshot without that id drops it from the
\* window as a tab that is closed.  So the window drops a tab that its client
\* has, and that nobody closed.  (After a restart a reused client id can
\* replace a tab as well.)
Undisturbed == count.restarts = 0 /\ count.commands = 0
RebuiltTabsStay ==
    [][Undisturbed =>
           \A c \in Clients :
               mounted[c].root \notin {mounted'[d].root : d \in DOMAIN mounted'}
                   => tab_for_client(reg, c) = NoTab]_vars

\* A tab that is served works on its own workspace root: no reclaim, rebuild,
\* expiry or close, in any order, binds its connection to another tab's entry.
\* (A restarted server counts tab ids from 1 again, and then it can happen.)
TabsKeepTheirRoot ==
    count.restarts = 0 =>
        \A c \in Clients :
            Served(c) /\ tab_for_client(reg, c) # NoTab
                => RootOf(reg, tab_for_client(reg, c)) = mounted[c].root
============================================================================
