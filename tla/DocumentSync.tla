------------------------------ MODULE DocumentSync ------------------------------
(***************************************************************************)
(* Versioned text synchronisation of one document: the server's            *)
(* DocumentState, and for every connection the server's handler, the two   *)
(* directions of the socket, the client's connection task with its shared  *)
(* ClientSyncState, the bounded channel of outgoing messages, the channel  *)
(* of events to the UI thread, and the pane that shows and edits the text. *)
(*                                                                         *)
(* A text is the sequence of the contributions that produced it: an edit   *)
(* appends a token naming its author and transaction, a load from storage  *)
(* replaces the text by a token of its own.  A connection stands for one   *)
(* ClientId: a client that reconnects is a new connection, which takes the *)
(* pane over from the connection that was lost.                            *)
(***************************************************************************)
EXTENDS Naturals, Sequences

CONSTANTS Connections,    \* the client connections
          NoConnection,   \* active_lease = None
          QueueCapacity,  \* EDIT_QUEUE_CAPACITY of the outgoing channel
          MaxEdits,       \* bound: edits typed on one connection
          MaxRequests,    \* bound: opens, reloads and manual resyncs of one connection
          MaxInputs,      \* bound: edits and requests of one connection together
          MaxLoads,       \* bound: reloads that find new content in storage
          Welcomes        \* version and lease of the welcome document a handshake opens

ASSUME ConnectionsAssumption == NoConnection \notin Connections
ASSUME BoundsAssumption ==
    /\ QueueCapacity \in Nat \ {0}
    /\ MaxEdits \in Nat
    /\ MaxRequests \in Nat
    /\ MaxInputs \in Nat
    /\ MaxLoads \in Nat
ASSUME WelcomesAssumption == Welcomes \subseteq [version : Nat, lease : Nat]

VARIABLES
    version, text, holder, leaseId, nextLease,  \* server: DocumentState
    access,      \* connections the server has granted access
    closed,      \* the last of them has left: the registry entry is gone
    conn,        \* connection -> "idle", "up", "closing" or "gone"
    toServer,    \* connection -> frames on their way to the server
    toClient,    \* connection -> frames on their way to the client
    reloading,   \* connection -> text of a committed reload not yet answered
    outgoing,    \* connection -> bounded channel from the UI to the task
    sync,        \* connection -> the ClientSyncState entry of the document
    events,      \* connection -> channel of events from the task to the UI
    view,        \* connection -> the pane: open, lease, text, recover, reopening
    welcome,     \* connection -> lease_id its queue was created with
    nextTxn,     \* connection -> number of transactions typed so far
    requests,    \* connection -> number of user requests made so far
    loads,       \* contents storage has held so far
    disturbed    \* history: connections whose text left the protocol

document == <<version, text, holder, leaseId, nextLease, access, closed>>
wires == <<toServer, toClient, reloading>>
client == <<outgoing, sync, events>>
pane == <<view, welcome, nextTxn, requests>>
vars == <<document, conn, wires, client, pane, loads, disturbed>>

--------------------------------------------------------------------------------
(* Messages.  A lease id of 0 stands for None: no lease, read-only access. *)

NoLease == 0
Token == [by : Connections \cup {NoConnection}, n : Nat]
Text == Seq(Token)
Pending == [base : Nat, txn : Nat]
SyncState == [confirmed : Nat, optimistic : Nat, pending : Seq(Pending), lease : Nat]
View == [open : BOOLEAN, lease : Nat, text : Text, recover : BOOLEAN, reopening : BOOLEAN]

Rejection == {"StaleVersion", "FutureVersion", "LeaseRequired", "LeaseExpired",
              "InvalidRange", "InvalidDocument"}

(* "on" is the text the edit was composed on; no message carries it, it    *)
(* decides whether the edit's byte range fits the server's text.           *)
EditMessage == [kind : {"Edit"}, base : Nat, txn : Nat, lease : Nat, on : Text]
RequestMessage == [kind : {"Open", "Reload", "Resync"}]
ClientMessage == EditMessage \cup RequestMessage

AckMessage == [kind : {"EditAck"}, version : Nat, txn : Nat]
RejectMessage == [kind : {"EditRejected"}, txn : Nat, reason : Rejection]
SnapshotMessage == [kind : {"DocumentOpened", "ResyncSnapshot", "DocumentReloaded"},
                    version : Nat, text : Text, lease : Nat]
ElsewhereMessage == [kind : {"OtherOpened"}]
ServerMessage == AckMessage \cup RejectMessage \cup SnapshotMessage \cup ElsewhereMessage

ClosedView == [open |-> FALSE, lease |-> NoLease, text |-> <<>>, recover |-> FALSE,
               reopening |-> FALSE]
EmptySync == [confirmed |-> 0, optimistic |-> 0, pending |-> <<>>, lease |-> NoLease]

TypeOK ==
    /\ version \in Nat \ {0}
    /\ text \in Text
    /\ holder \in Connections \cup {NoConnection}
    /\ leaseId \in Nat
    /\ nextLease \in Nat \ {0}
    /\ access \in SUBSET Connections
    /\ closed \in BOOLEAN
    /\ conn \in [Connections -> {"idle", "up", "closing", "gone"}]
    /\ toServer \in [Connections -> Seq(ClientMessage)]
    /\ toClient \in [Connections -> Seq(ServerMessage)]
    /\ reloading \in [Connections -> Seq(Text)]
    /\ outgoing \in [Connections -> Seq(ClientMessage)]
    /\ \A c \in Connections : Len(outgoing[c]) <= QueueCapacity
    /\ sync \in [Connections -> SyncState]
    /\ events \in [Connections -> Seq(ServerMessage)]
    /\ view \in [Connections -> View]
    /\ welcome \in [Connections -> Nat]
    /\ nextTxn \in [Connections -> Nat]
    /\ requests \in [Connections -> Nat]
    /\ loads \in Nat
    /\ disturbed \in SUBSET Connections

Init ==
    /\ version = 1
    /\ text = <<>>
    /\ holder = NoConnection
    /\ leaseId = NoLease
    /\ nextLease = 1
    /\ access = {}
    /\ closed = FALSE
    /\ conn = [c \in Connections |-> "idle"]
    /\ toServer = [c \in Connections |-> <<>>]
    /\ toClient = [c \in Connections |-> <<>>]
    /\ reloading = [c \in Connections |-> <<>>]
    /\ outgoing = [c \in Connections |-> <<>>]
    /\ sync = [c \in Connections |-> EmptySync]
    /\ events = [c \in Connections |-> <<>>]
    /\ view = [c \in Connections |-> ClosedView]
    /\ welcome = [c \in Connections |-> NoLease]
    /\ nextTxn = [c \in Connections |-> 0]
    /\ requests = [c \in Connections |-> 0]
    /\ loads = 0
    /\ disturbed = {}

--------------------------------------------------------------------------------
(* ClientSyncState: every operation works on one document's entry.         *)

NextBase(confirmed, pending) ==
    IF pending = <<>> THEN confirmed ELSE pending[Len(pending)].base + 1

RemoveTxn(pending, txn) ==
    IF \E i \in 1..Len(pending) : pending[i].txn = txn
      THEN LET i == CHOOSE i \in 1..Len(pending) : pending[i].txn = txn
           IN  SubSeq(pending, 1, i - 1) \o SubSeq(pending, i + 1, Len(pending))
      ELSE pending

reserve_pending(s, txn) ==
    [s EXCEPT !.optimistic = s.optimistic + 1,
              !.pending = Append(s.pending, [base |-> s.optimistic, txn |-> txn])]

(* Mutant: the acknowledged transaction stays pending.                     *)
acknowledge_keeping(s, confirmed, txn) ==
    [s EXCEPT !.confirmed = confirmed,
              !.optimistic = IF s.optimistic < confirmed THEN confirmed ELSE s.optimistic]

acknowledge(s, confirmed, txn) ==
    [s EXCEPT !.confirmed = confirmed,
              !.pending = RemoveTxn(s.pending, txn),
              !.optimistic = IF s.optimistic < confirmed THEN confirmed ELSE s.optimistic]

reject(s, txn) ==
    LET left == RemoveTxn(s.pending, txn)
    IN  [s EXCEPT !.pending = left, !.optimistic = NextBase(s.confirmed, left)]

(* apply_resync_snapshot and install_document_state without pending edits. *)
install(confirmed, lease) ==
    [confirmed |-> confirmed, optimistic |-> confirmed, pending |-> <<>>, lease |-> lease]

--------------------------------------------------------------------------------
(* The pane: what the user does on the UI thread.                          *)

Connect(c) ==
    /\ conn[c] = "idle"
    /\ conn' = [conn EXCEPT ![c] = "up"]
    /\ UNCHANGED <<document, wires, client, pane, loads, disturbed>>

(* Mutant: the channel takes one message more than its capacity.           *)
HasRoomOffByOne(c) == Len(outgoing[c]) <= QueueCapacity

HasRoom(c) == Len(outgoing[c]) < QueueCapacity

(* What the users do is bounded.                                           *)
MayAct(c) == nextTxn[c] + requests[c] < MaxInputs

(* The lease an edit carries: the sync state's, or else the one of the     *)
(* pane's queue, which a reconnected queue has from the welcome document.  *)
LeaseToSend(c) ==
    IF sync[c].lease # NoLease THEN sync[c].lease
    ELSE IF view[c].reopening THEN welcome[c]
    ELSE view[c].lease

(* A key that edits the text: the pane's text changes at once, connected   *)
(* or not; the edit is reserved against the optimistic version and offered *)
(* to the channel.  When the channel is full or gone, or no lease is known,*)
(* the reservation is rolled back and the text keeps the edit.             *)
Type(c) ==
    LET txn == nextTxn[c] + 1
        edit == [kind |-> "Edit", base |-> sync[c].optimistic, txn |-> txn,
                 lease |-> LeaseToSend(c), on |-> view[c].text]
        sent == conn[c] = "up" /\ LeaseToSend(c) # NoLease /\ HasRoom(c)
    IN  /\ view[c].open /\ view[c].lease # NoLease
        /\ nextTxn[c] < MaxEdits /\ MayAct(c)
        /\ nextTxn' = [nextTxn EXCEPT ![c] = txn]
        /\ view' = [view EXCEPT ![c].text = Append(@, [by |-> c, n |-> txn])]
        /\ IF sent
             THEN /\ sync' = [sync EXCEPT ![c] = reserve_pending(@, txn)]
                  /\ outgoing' = [outgoing EXCEPT ![c] = Append(@, edit)]
             ELSE UNCHANGED <<sync, outgoing>>
        /\ disturbed' = IF sent \/ view[c].reopening THEN disturbed ELSE disturbed \cup {c}
        /\ UNCHANGED <<document, conn, wires, events, welcome, requests, loads>>

(* OpenDocument, ReloadDocument and the recovery menu's RequestResync.     *)
Request(c, kind) ==
    /\ conn[c] = "up"
    /\ requests[c] < MaxRequests /\ MayAct(c)
    /\ HasRoom(c)
    /\ kind = "Reload" => view[c].open
    /\ kind = "Resync" => view[c].recover
    /\ requests' = [requests EXCEPT ![c] = @ + 1]
    /\ outgoing' = [outgoing EXCEPT ![c] = Append(@, [kind |-> kind])]
    /\ UNCHANGED <<document, conn, wires, sync, events, view, welcome, nextTxn, loads,
                   disturbed>>

(* Mutant: a pane that is open keeps its text.                             *)
LoadSnapshotKeepingText(c, e) ==
    /\ view' = [view EXCEPT ![c] =
          [open |-> TRUE, lease |-> e.lease, text |-> IF @.open THEN @.text ELSE e.text,
           recover |-> FALSE, reopening |-> @.reopening /\ e.kind # "DocumentOpened"]]
    /\ sync' = [sync EXCEPT ![c] = install(e.version, e.lease)]

(* load_snapshot / load_resync_snapshot: the pane takes text and access,   *)
(* and update_opened_document_authority resets the sync state once more.   *)
LoadSnapshot(c, e) ==
    /\ view' = [view EXCEPT ![c] =
          [open |-> TRUE, lease |-> e.lease, text |-> e.text, recover |-> FALSE,
           reopening |-> @.reopening /\ e.kind # "DocumentOpened"]]
    /\ sync' = [sync EXCEPT ![c] = install(e.version, e.lease)]

(* open_document_session: a duplicate open is a no-op, except once after a *)
(* reconnect (pending_reconnect_resync).                                   *)
Reinstalls(c) == ~view[c].open \/ view[c].reopening

(* apply_connection_event on the oldest event of the channel.  Events that *)
(* were queued before the connection was lost still arrive.  Another       *)
(* document opened in the pane puts this one into a retained session.      *)
ApplyEvent(c) ==
    LET e == Head(events[c])
    IN  /\ events[c] # <<>>
        /\ events' = [events EXCEPT ![c] = Tail(@)]
        /\ CASE e.kind \in {"ResyncSnapshot", "DocumentReloaded"} -> LoadSnapshot(c, e)
             [] e.kind = "DocumentOpened" ->
                  IF Reinstalls(c) THEN LoadSnapshot(c, e) ELSE UNCHANGED <<view, sync>>
             [] e.kind = "OtherOpened" ->
                  /\ view' = [view EXCEPT ![c] = ClosedView]
                  /\ UNCHANGED sync
             [] e.kind = "EditRejected" ->
                  /\ view' = [view EXCEPT ![c].recover =
                                @ \/ e.reason \in {"InvalidRange", "InvalidDocument"}]
                  /\ UNCHANGED sync
             [] OTHER -> UNCHANGED <<view, sync>>
        /\ UNCHANGED <<document, conn, wires, outgoing, welcome, nextTxn, requests, loads,
                       disturbed>>

--------------------------------------------------------------------------------
(* The client's connection task.                                           *)

SendFrame(c) ==
    /\ conn[c] = "up"
    /\ outgoing[c] # <<>>
    /\ outgoing' = [outgoing EXCEPT ![c] = Tail(@)]
    /\ toServer' = [toServer EXCEPT ![c] = Append(@, Head(outgoing[c]))]
    /\ UNCHANGED <<document, conn, toClient, reloading, sync, events, pane, loads, disturbed>>

(* Mutant: a stale version is not recovered from.                          *)
rejection_leaves_stale(reason) ==
    reason \in {"FutureVersion", "LeaseRequired", "LeaseExpired"}

rejection_requests_resync(reason) ==
    reason \in {"StaleVersion", "FutureVersion", "LeaseRequired", "LeaseExpired"}

(* One frame from the server: the sync state changes first, the event      *)
(* follows it to the UI, and a recoverable rejection writes RequestResync  *)
(* straight to the socket, past whatever the outgoing channel holds.       *)
ReceiveFrame(c) ==
    LET m == Head(toClient[c])
    IN  /\ conn[c] = "up"
        /\ toClient[c] # <<>>
        /\ toClient' = [toClient EXCEPT ![c] = Tail(@)]
        /\ events' = [events EXCEPT ![c] = Append(@, m)]
        /\ sync' = [sync EXCEPT ![c] =
              CASE m.kind = "EditAck" -> acknowledge(@, m.version, m.txn)
                [] m.kind = "EditRejected" -> reject(@, m.txn)
                [] m.kind \in {"ResyncSnapshot", "DocumentReloaded"} ->
                     install(m.version, m.lease)
                [] OTHER -> @]
        /\ toServer' =
              IF m.kind = "EditRejected" /\ rejection_requests_resync(m.reason)
                THEN [toServer EXCEPT ![c] = Append(@, [kind |-> "Resync"])]
                ELSE toServer
        /\ UNCHANGED <<document, conn, reloading, outgoing, pane, loads, disturbed>>

(* The connection is lost: the task ends, what it had not sent or read is  *)
(* lost, and the pane keeps its text and its access.                       *)
Disconnect(c) ==
    /\ conn[c] = "up"
    /\ conn' = [conn EXCEPT ![c] = "closing"]
    /\ toClient' = [toClient EXCEPT ![c] = <<>>]
    /\ outgoing' = [outgoing EXCEPT ![c] = <<>>]
    /\ UNCHANGED <<document, toServer, reloading, sync, events, pane, loads, disturbed>>

(* The registry says that the tab is closed: the driver drops the tab, and *)
(* its connection ends with it.                                            *)
CloseTab(c) ==
    /\ conn[c] = "up" \/ view[c].open
    /\ conn' = [conn EXCEPT ![c] = IF @ = "up" THEN "closing" ELSE @]
    /\ toClient' = [toClient EXCEPT ![c] = <<>>]
    /\ outgoing' = [outgoing EXCEPT ![c] = <<>>]
    /\ events' = [events EXCEPT ![c] = <<>>]
    /\ sync' = [sync EXCEPT ![c] = EmptySync]
    /\ view' = [view EXCEPT ![c] = ClosedView]
    /\ UNCHANGED <<document, toServer, reloading, welcome, nextTxn, requests, loads, disturbed>>

(* Mutant: the pane is not marked for a reinstall.                         *)
ReconnectedAsIs(v) == [v EXCEPT !.recover = FALSE]

(* PaneDocumentView::reconnect.                                            *)
Reconnected(v) == [v EXCEPT !.recover = FALSE, !.reopening = TRUE]

(* start_tab_reconnect / reconnect_tab: once the UI has seen everything    *)
(* the lost connection left, a new connection takes the pane over, with    *)
(* its text and its old access, and asks for the document again.           *)
Reconnect(c, d) ==
    /\ conn[c] \in {"closing", "gone"}
    /\ view[c].open
    /\ events[c] = <<>>
    /\ conn[d] = "idle"
    /\ \E w \in Welcomes :
          /\ welcome' = [welcome EXCEPT ![d] = w.lease]
          /\ sync' = [sync EXCEPT ![d] = install(w.version, NoLease)]
    /\ conn' = [conn EXCEPT ![d] = "up"]
    /\ view' = [view EXCEPT ![c] = ClosedView, ![d] = Reconnected(view[c])]
    /\ outgoing' = [outgoing EXCEPT ![d] = <<[kind |-> "Open"]>>]
    /\ nextTxn' = [nextTxn EXCEPT ![d] = nextTxn[c]]
    /\ requests' = [requests EXCEPT ![d] = requests[c]]
    /\ UNCHANGED <<document, wires, events, loads, disturbed>>

--------------------------------------------------------------------------------
(* The server's handler of a connection: one frame at a time, in order.    *)

Serving(c) == conn[c] \in {"up", "closing"} /\ toServer[c] # <<>> /\ reloading[c] = <<>>

Take(c) == toServer' = [toServer EXCEPT ![c] = Tail(@)]

(* A reply to a client that has gone is lost.                              *)
Reply(c, m) ==
    toClient' = IF conn[c] = "up" THEN [toClient EXCEPT ![c] = Append(@, m)] ELSE toClient

lease_for_client(c) == IF holder = c THEN leaseId ELSE NoLease

(* apply_edit_with_parse_input's checks, in their order.  A range composed *)
(* on another text may or may not fit this one.                            *)
Verdicts(c, m) ==
    IF closed THEN {"InvalidDocument"}
    ELSE IF m.base < version THEN {"StaleVersion"}
    ELSE IF m.base > version THEN {"FutureVersion"}
    ELSE IF holder = NoConnection \/ m.lease = NoLease THEN {"LeaseRequired"}
    ELSE IF holder # c \/ leaseId # m.lease THEN {"LeaseExpired"}
    ELSE IF m.on = text THEN {"Accepted"}
    ELSE {"Accepted", "InvalidRange"}

(* The pane no longer shows the edit, or is about to load a snapshot that  *)
(* was composed without it.                                                *)
LostByPane(c, txn) ==
    \/ \A i \in 1..Len(view[c].text) : view[c].text[i] # [by |-> c, n |-> txn]
    \/ \E q \in {toClient[c], events[c]} : \E i \in 1..Len(q) :
           \/ q[i].kind \in {"ResyncSnapshot", "DocumentReloaded"}
           \/ q[i].kind = "DocumentOpened" /\ Reinstalls(c)

AcceptEdit(c) ==
    LET m == Head(toServer[c])
    IN  /\ Serving(c)
        /\ m.kind = "Edit"
        /\ "Accepted" \in Verdicts(c, m)
        /\ Take(c)
        /\ text' = Append(text, [by |-> c, n |-> m.txn])
        /\ version' = version + 1
        /\ Reply(c, [kind |-> "EditAck", version |-> version + 1, txn |-> m.txn])
        /\ disturbed' = IF LostByPane(c, m.txn) THEN disturbed \cup {c} ELSE disturbed
        /\ UNCHANGED <<holder, leaseId, nextLease, access, closed, conn, reloading, client,
                       pane, loads>>

RejectEdit(c) ==
    LET m == Head(toServer[c])
    IN  /\ Serving(c)
        /\ m.kind = "Edit"
        /\ \E reason \in Verdicts(c, m) \ {"Accepted"} :
              Reply(c, [kind |-> "EditRejected", txn |-> m.txn, reason |-> reason])
        /\ Take(c)
        /\ UNCHANGED <<document, conn, reloading, client, pane, loads, disturbed>>

(* Mutant: opening takes the lease from its holder.                        *)
ServeOpenTakingLease(c) ==
    /\ Serving(c)
    /\ Head(toServer[c]).kind = "Open"
    /\ ~closed
    /\ Take(c)
    /\ access' = access \cup {c}
    /\ holder' = c
    /\ leaseId' = nextLease
    /\ nextLease' = nextLease + 1
    /\ Reply(c, [kind |-> "DocumentOpened", version |-> version, text |-> text,
                 lease |-> nextLease])
    /\ UNCHANGED <<version, text, closed, conn, reloading, client, pane, loads, disturbed>>

(* acquire_access: the first holder edits, the others observe.             *)
ServeOpen(c) ==
    /\ Serving(c)
    /\ Head(toServer[c]).kind = "Open"
    /\ ~closed
    /\ Take(c)
    /\ access' = access \cup {c}
    /\ IF holder = NoConnection
         THEN /\ holder' = c
              /\ leaseId' = nextLease
              /\ nextLease' = nextLease + 1
         ELSE UNCHANGED <<holder, leaseId, nextLease>>
    /\ Reply(c, [kind |-> "DocumentOpened", version |-> version, text |-> text,
                 lease |-> IF holder' = c THEN leaseId' ELSE NoLease])
    /\ UNCHANGED <<version, text, closed, conn, reloading, client, pane, loads, disturbed>>

(* The document was closed: the path is read again as another document,   *)
(* and anything else about a document the registry does not know is        *)
(* refused.  So is a reload of unsaved edits that is not forced, or one    *)
(* whose file cannot be read.                                              *)
RefuseRequest(c) ==
    LET kind == Head(toServer[c]).kind
    IN  /\ Serving(c)
        /\ kind = "Reload" \/ (closed /\ kind \in {"Open", "Resync"})
        /\ Take(c)
        /\ IF kind = "Open" THEN Reply(c, [kind |-> "OtherOpened"]) ELSE UNCHANGED toClient
        /\ UNCHANGED <<document, conn, reloading, client, pane, loads, disturbed>>

ServeResync(c) ==
    /\ Serving(c)
    /\ Head(toServer[c]).kind = "Resync"
    /\ ~closed
    /\ Take(c)
    /\ Reply(c, [kind |-> "ResyncSnapshot", version |-> version, text |-> text,
                 lease |-> lease_for_client(c)])
    /\ UNCHANGED <<document, conn, reloading, client, pane, loads, disturbed>>

(* Mutants: new content keeps the version, or starts the count again.      *)
CommitReloadAs(c, v) ==
    /\ Serving(c)
    /\ Head(toServer[c]).kind = "Reload"
    /\ ~closed
    /\ Take(c)
    /\ \/ /\ loads < MaxLoads
          /\ loads' = loads + 1
          /\ text' = <<[by |-> NoConnection, n |-> loads + 1]>>
          /\ version' = v
       \/ UNCHANGED <<loads, text, version>>
    /\ reloading' = [reloading EXCEPT ![c] = <<text'>>]
    /\ UNCHANGED <<holder, leaseId, nextLease, access, closed, conn, toClient, client, pane,
                   disturbed>>
CommitReloadSameVersion(c) == CommitReloadAs(c, version)
CommitReloadFromOne(c) == CommitReloadAs(c, 1)

(* commit_reload / replace_text_from_storage: content that differs is a    *)
(* new version.  The reply is composed later (AnswerReload), from the text *)
(* read here and the metadata found then.                                  *)
CommitReload(c) ==
    /\ Serving(c)
    /\ Head(toServer[c]).kind = "Reload"
    /\ ~closed
    /\ Take(c)
    /\ \/ /\ loads < MaxLoads
          /\ loads' = loads + 1
          /\ text' = <<[by |-> NoConnection, n |-> loads + 1]>>
          /\ version' = version + 1
       \/ UNCHANGED <<loads, text, version>>
    /\ reloading' = [reloading EXCEPT ![c] = <<text'>>]
    /\ UNCHANGED <<holder, leaseId, nextLease, access, closed, conn, toClient, client, pane,
                   disturbed>>

AnswerReload(c) ==
    /\ conn[c] \in {"up", "closing"}
    /\ reloading[c] # <<>>
    /\ reloading' = [reloading EXCEPT ![c] = <<>>]
    /\ Reply(c, [kind |-> "DocumentReloaded", version |-> version, text |-> Head(reloading[c]),
                 lease |-> lease_for_client(c)])
    /\ disturbed' = IF Head(reloading[c]) = text THEN disturbed ELSE disturbed \cup {c}
    /\ UNCHANGED <<document, conn, toServer, client, pane, loads>>

(* Mutant: the document is closed when its editor leaves.                  *)
AbandonedByEditor(c) == holder = c

(* release_client_access: the last access holder left.                     *)
Abandoned(c) == access \subseteq {c} /\ c \in access

(* The handler ends (end of stream, or a write that fails), releases the   *)
(* connection's access and closes a document nobody has access to.         *)
ReleaseAccess(c) ==
    /\ conn[c] = "closing"
    /\ conn' = [conn EXCEPT ![c] = "gone"]
    /\ toServer' = [toServer EXCEPT ![c] = <<>>]
    /\ reloading' = [reloading EXCEPT ![c] = <<>>]
    /\ holder' = IF holder = c THEN NoConnection ELSE holder
    /\ access' = access \ {c}
    /\ closed' = (closed \/ Abandoned(c))
    /\ UNCHANGED <<version, text, leaseId, nextLease, toClient, client, pane, loads, disturbed>>

--------------------------------------------------------------------------------
UserStep(c) ==
    \/ Connect(c)
    \/ Type(c)
    \/ \E kind \in {"Open", "Reload", "Resync"} : Request(c, kind)
    \/ Disconnect(c)
    \/ CloseTab(c)

TaskStep(c) == SendFrame(c) \/ ReceiveFrame(c) \/ ApplyEvent(c)

ServerStep(c) ==
    \/ AcceptEdit(c)
    \/ RejectEdit(c)
    \/ ServeOpen(c)
    \/ RefuseRequest(c)
    \/ ServeResync(c)
    \/ CommitReload(c)
    \/ AnswerReload(c)
    \/ ReleaseAccess(c)

Next ==
    \/ \E c \in Connections : UserStep(c) \/ TaskStep(c) \/ ServerStep(c)
    \/ \E c, d \in Connections : Reconnect(c, d)

Spec == Init /\ [][Next]_vars

(* The tokio tasks and the UI event loop keep running: each step that is   *)
(* ready is eventually taken.  Nothing obliges the user to do anything.    *)
Fairness == \A c \in Connections :
    /\ WF_vars(SendFrame(c))
    /\ WF_vars(ReceiveFrame(c))
    /\ WF_vars(ApplyEvent(c))
    /\ WF_vars(ServerStep(c))

FairSpec == Spec /\ Fairness

--------------------------------------------------------------------------------
(* Properties.                                                             *)

Live(c) == conn[c] \in {"up", "closing"}

ActiveLeases(c) == IF holder = c THEN {NoLease, leaseId} ELSE {NoLease}

IsSnapshot(m) == m.kind \in {"DocumentOpened", "ResyncSnapshot", "DocumentReloaded"}

CarriesLease(m) == m.kind = "Edit" \/ IsSnapshot(m)

LeasesIn(q) == {q[i].lease : i \in {i \in 1..Len(q) : CarriesLease(q[i])}}

(* What the server told the client about its lease and the client goes by. *)
LeasesTold(c) ==
    {sync[c].lease} \cup LeasesIn(toClient[c]) \cup LeasesIn(events[c])
      \cup (IF view[c].reopening THEN {} ELSE {view[c].lease})

LeasesClaimed(c) == LeasesIn(outgoing[c]) \cup LeasesIn(toServer[c])

(* Wherever a live connection carries a lease id - in its pane, its sync   *)
(* state, a queued or travelling edit, a snapshot or an event - it is the  *)
(* lease the server has active for that connection: validate_lease never   *)
(* meets a lease that was superseded, whatever the queues still hold.  The *)
(* exceptions are those the code has: a pane that was handed over by a     *)
(* lost connection shows its old access until the document is reinstalled, *)
(* and what is typed meanwhile goes out under the welcome document's lease.*)
HeldLeasesAreActive ==
    \A c \in Connections : Live(c) =>
        /\ LeasesTold(c) \subseteq ActiveLeases(c)
        /\ LeasesClaimed(c) \subseteq ActiveLeases(c) \cup {welcome[c]}

Attached(c) == conn[c] = "up" /\ view[c].open /\ ~view[c].reopening

(* Two connected panes never accept typing for the document at the same    *)
(* time, also while a lease is being released by one connection and        *)
(* granted to another (acquire_access / release_access / is_editable).     *)
OneEditor ==
    \A c, d \in Connections :
        Attached(c) /\ Attached(d) /\ view[c].lease # NoLease /\ view[d].lease # NoLease
            => c = d

(* The server never closes a document under a connected pane that shows    *)
(* it: closing counts the observers, and the pane whose DocumentOpened is  *)
(* still on its way (release_client_access / access_holder_count).         *)
ShownDocumentsStayOpen ==
    \A c \in Connections :
        LET opened == \E q \in {toClient[c], events[c]} :
                          \E i \in 1..Len(q) : q[i].kind = "DocumentOpened"
        IN  conn[c] = "up" /\ (Attached(c) \/ opened) => ~closed /\ c \in access

Versioned(m) == m.kind \notin {"EditRejected", "OtherOpened"}

(* The versions a client is told, from the oldest event its UI has not yet *)
(* seen to the newest frame on the wire, never decrease and never exceed   *)
(* the server's; what the sync state of a pane that shows the document     *)
(* calls confirmed is not ahead of it either, so SaveDocument's            *)
(* known_version passes authorize_save.                                    *)
VersionsArriveInOrder ==
    \A c \in Connections :
        LET told == events[c] \o toClient[c]
        IN  /\ view[c].open /\ ~view[c].reopening => sync[c].confirmed <= version
            /\ \A j \in 1..Len(told) : Versioned(told[j]) =>
                  /\ told[j].version <= version
                  /\ \A i \in 1..j : Versioned(told[i]) => told[i].version <= told[j].version

Quiet(c) ==
    /\ outgoing[c] = <<>> /\ toServer[c] = <<>> /\ reloading[c] = <<>>
    /\ toClient[c] = <<>> /\ events[c] = <<>>

(* Once everything sent has been answered and shown, an editor whose       *)
(* confirmed version is the server's shows the server's text, whatever     *)
(* rejections, resyncs and reloads by others happened on the way - unless  *)
(* an edit was dropped at a full channel, an edit was accepted that the    *)
(* pane lost to a snapshot composed before it, the document changed        *)
(* between a reload and its answer, or a rejected range waits for the      *)
(* user's decision.                                                        *)
QuietEditorAgrees ==
    \A c \in Connections :
        /\ Attached(c) /\ view[c].lease # NoLease
        /\ Quiet(c) /\ c \notin disturbed /\ ~view[c].recover
        /\ sync[c].confirmed = version
        => view[c].text = text /\ sync[c].pending = <<>>

(* An edit enters the canonical text only when it was composed on exactly  *)
(* that text (the base-version check is meant to guarantee it).            *)
EditsApplyToTheTextTheyWereMadeOn ==
    [][\A c \in Connections : AcceptEdit(c) => Head(toServer[c]).on = text]_vars

(* Every edit a client has pending is eventually acknowledged, rejected or *)
(* dropped by a snapshot, unless its connection is lost: no transaction    *)
(* waits for an answer for ever.                                           *)
PendingEditsResolve ==
    \A c \in Connections : \A t \in 1..MaxEdits :
        LET waiting == \E i \in 1..Len(sync[c].pending) : sync[c].pending[i].txn = t
        IN  waiting ~> ~waiting \/ conn[c] # "up"

(* A pane whose edit the server refused for its version or lease is        *)
(* eventually given a snapshot to load, or is gone.                        *)
RejectionsAreRepaired ==
    \A c \in Connections :
        LET refused == \E i \in 1..Len(toClient[c]) :
                           /\ toClient[c][i].kind = "EditRejected"
                           /\ toClient[c][i].reason \notin {"InvalidRange", "InvalidDocument"}
            repair == \E i \in 1..Len(events[c]) : events[c][i].kind = "ResyncSnapshot"
        IN  refused ~> (repair \/ conn[c] # "up")

(* The connections, queues and panes implement one versioned document with *)
(* exclusive leases.                                                       *)
Promise == INSTANCE VersionedDocument WITH
               version <- version, text <- text,
               holder <- holder, nextLease <- nextLease
ImplementsVersionedDocument == Promise!Spec
================================================================================
