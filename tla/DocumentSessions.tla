-------------------------- MODULE DocumentSessions --------------------------
(***************************************************************************)
(* The documents of one pane: src/editor/document_session.rs and the parts *)
(* of src/masonry_pane_document.rs that stash, activate, open and close    *)
(* them, with the tracking state of src/client/mod.rs and the server's     *)
(* answers.  One document is shown; the others are retained sessions.      *)
(*                                                                         *)
(* `sync` is the connection's ClientSyncState, which the connection loop   *)
(* keeps up to date for every document.  A retained session has a copy of  *)
(* its own, taken when it was stashed and installed when it is activated;  *)
(* what the loop has applied meanwhile reaches the copy as an event.       *)
(*                                                                         *)
(* The documents of SharedFiles are open for another client too, which     *)
(* holds their leases: they outlive this connection and are not edited     *)
(* here.  The welcome document is left out.                                *)
(***************************************************************************)
EXTENDS Integers, Sequences, FiniteSets, SequencesExt

CONSTANTS
    Files,        \* files of the workspace, one path each
    SharedFiles,  \* the files that another client keeps open
    SessionMax,   \* CLIENT_DOCUMENT_SESSION_MAX, MAX_DOCUMENTS_PER_CLIENT
    MaxEpoch,     \* bound: how often a file is opened anew
    MaxEdits,     \* bound: edits
    MaxLosses,    \* bound: lost connections
    Capacity      \* EDIT_QUEUE_CAPACITY

ASSUME SessionConstants ==
    /\ SharedFiles \subseteq Files
    /\ SessionMax \in Nat \ {0}
    /\ MaxEpoch \in Nat \ {0}
    /\ MaxEdits \in Nat
    /\ MaxLosses \in Nat
    /\ Capacity \in Nat \ {0}

MaxRetained == IF SessionMax - 1 > 1 THEN SessionMax - 1 ELSE 1

\* A document id is new every time its file is registered.
Ids == Files \X (1..MaxEpoch)
FileOf(d) == d[1]
NoFile == "no file"
NoDocument == <<NoFile, 0>>
Txns == 1..MaxEdits
Versions == 1..(MaxEdits + 1)
Default == 0      \* default_confirmed_version

VARIABLES
    link,         \* "up" or "lost"
    losses,       \* lost connections so far
    made,         \* file -> how often it has been registered
    registered,   \* the documents the server has open
    held,         \* those this connection has access to
    text,         \* document -> the edits in it; its version counts them
    unsaved,      \* documents that the server counts as dirty
    channel,      \* messages from the view to the server
    wire,         \* messages from the server to the connection loop
    events,       \* events from the connection loop to the view
    sync,         \* document -> its DocumentSyncState
    pane,         \* the shown document
    sessions,     \* document -> its retained session, or NoSession
    lru,          \* the retained documents, oldest first
    txn           \* the transaction ids used

vars == <<link, losses, made, registered, held, text, unsaved, channel, wire, events,
          sync, pane, sessions, lru, txn>>
server == <<made, registered, held, text, unsaved>>
store == <<sessions, lru>>

Pending == [txn : Txns, base : Versions \cup {Default}]
Sync == [known : BOOLEAN, confirmed : Versions \cup {Default},
         optimistic : Versions \cup {Default}, pending : Seq(Pending)]
Unknown == [known |-> FALSE, confirmed |-> Default, optimistic |-> Default,
            pending |-> <<>>]
NoSession == [kept |-> FALSE]
Session ==
    [kept : {TRUE}, confirmed : Versions \cup {Default}, pending : Seq(Pending),
     dirty : BOOLEAN, path : Files \cup {NoFile}, text : SUBSET Txns]
Pane ==
    [phase : {"blank", "open", "closed"}, shown : Ids \cup {NoDocument},
     path : Files \cup {NoFile}, dirty : BOOLEAN, text : SUBSET Txns,
     resync : BOOLEAN]

Message ==
    [kind : {"open"}, file : Files]
    \cup [kind : {"edit"}, doc : Ids, base : Versions \cup {Default}, txn : Txns,
          leased : BOOLEAN]
    \cup [kind : {"close"}, doc : Ids, force : BOOLEAN]
    \cup [kind : {"resync"}, doc : Ids]
Event ==
    [kind : {"opened", "snapshot"}, doc : Ids, version : Versions, text : SUBSET Txns,
     dirty : BOOLEAN]
    \cup [kind : {"ack"}, doc : Ids, version : Versions, txn : Txns]
    \cup [kind : {"rejected"}, doc : Ids, txn : Txns, repair : BOOLEAN]

Blank == [phase |-> "blank", shown |-> NoDocument, path |-> NoFile, dirty |-> FALSE,
          text |-> {}, resync |-> FALSE]

Retained == {d \in Ids : sessions[d].kept}
Version(d) == Cardinality(text[d]) + 1

TypeOK ==
    /\ link \in {"up", "lost"}
    /\ losses \in 0..MaxLosses
    /\ made \in [Files -> 0..MaxEpoch]
    /\ registered \subseteq Ids
    /\ held \subseteq registered
    /\ text \in [Ids -> SUBSET Txns]
    /\ unsaved \subseteq registered
    /\ channel \in Seq(Message)
    /\ Len(channel) <= Capacity + 1
    /\ wire \in Seq(Event) /\ Len(wire) <= Capacity
    /\ events \in Seq(Event) /\ Len(events) <= Capacity
    /\ sync \in [Ids -> Sync]
    /\ pane \in Pane
    /\ sessions \in [Ids -> Session \cup {NoSession}]
    /\ lru \in Seq(Ids)
    /\ txn \in 0..MaxEdits

Init ==
    /\ link = "up"
    /\ losses = 0
    /\ made = [f \in Files |-> IF f \in SharedFiles THEN 1 ELSE 0]
    /\ registered = {<<f, 1>> : f \in SharedFiles}
    /\ held = {}
    /\ text = [d \in Ids |-> {}]
    /\ unsaved = {}
    /\ channel = <<>> /\ wire = <<>> /\ events = <<>>
    /\ sync = [d \in Ids |-> Unknown]
    /\ pane = Blank
    /\ sessions = [d \in Ids |-> NoSession]
    /\ lru = <<>>
    /\ txn = 0

-----------------------------------------------------------------------------
(* DocumentSyncState.                                                      *)

\* Mutant: the pending edits are counted.
NextBaseByCount(confirmed, pending) == confirmed + Len(pending)

\* The optimistic version that follows from the pending edits.
NextBase(confirmed, pending) ==
    IF pending = <<>> THEN confirmed ELSE Last(pending).base + 1

install(confirmed, pending) ==
    [known |-> TRUE, confirmed |-> confirmed, optimistic |-> NextBase(confirmed, pending),
     pending |-> pending]

reserve_pending(s, t) ==
    [s EXCEPT !.known = TRUE, !.optimistic = @ + 1,
              !.pending = Append(@, [txn |-> t, base |-> s.optimistic])]

WithoutTxn(pending, t) ==
    LET i == SelectInSeq(pending, LAMBDA p : p.txn = t)
    IN  IF i = 0 THEN pending ELSE RemoveAt(pending, i)

\* acknowledge, reject: a document that is not tracked is left alone.
acknowledge(s, v, t) ==
    IF s.known
    THEN [s EXCEPT !.confirmed = v, !.pending = WithoutTxn(@, t),
                   !.optimistic = IF @ < v THEN v ELSE @]
    ELSE s

reject(s, t) == IF s.known THEN install(s.confirmed, WithoutTxn(s.pending, t)) ELSE s

HasRoom == Len(channel) < Capacity

-----------------------------------------------------------------------------
(* The session store.                                                      *)

\* Vec::retain: the other documents, in their order.
Without(seq, d) ==
    LET kept == {i \in DOMAIN seq : seq[i] # d}
        Rank(i) == Cardinality({j \in kept : j <= i})
    IN  [n \in 1..Cardinality(kept) |-> seq[CHOOSE i \in kept : Rank(i) = n]]

\* The document that evict_if_needed drops from a store with these sessions:
\* an insert goes at most one over the limit, so at most one.
Evicted(kept, order) == IF Cardinality(kept) > MaxRetained THEN {Head(order)} ELSE {}

\* What stash_active_session retains of the shown document.
Stashed(s) ==
    [kept |-> TRUE, confirmed |-> s.confirmed, pending |-> s.pending,
     dirty |-> pane.dirty, path |-> pane.path, text |-> pane.text]

\* insert: the document becomes the most recent one, and the oldest may go.
Insert(sess, order, d) ==
    LET kept == {x \in Ids : sess[x].kept} \cup {d}
        ordered == Append(Without(order, d), d)
        gone == Evicted(kept, ordered)
    IN  [sessions |-> [x \in Ids |-> IF x \in gone THEN NoSession
                                     ELSE IF x = d THEN Stashed(sync[d]) ELSE sess[x]],
         lru |-> IF gone = {} THEN ordered ELSE Tail(ordered),
         evicted |-> gone]

Dropped(st, d) ==
    [st EXCEPT !.sessions[d] = NoSession, !.lru = Without(@, d)]

Store == [sessions |-> sessions, lru |-> lru, evicted |-> {}]

Install(st) == sessions' = st.sessions /\ lru' = st.lru

\* Every evicted document is closed by force, if the channel takes it.
CloseEvicted(gone) ==
    channel' = IF gone # {} /\ HasRoom /\ link = "up"
               THEN Append(channel, [kind |-> "close", doc |-> CHOOSE d \in gone : TRUE,
                                     force |-> TRUE])
               ELSE channel

-----------------------------------------------------------------------------
(* The view.                                                               *)

\* An open request of the file browser, the dialog or a package.
RequestOpen(f) ==
    /\ link = "up" /\ pane.phase # "closed"
    /\ HasRoom
    /\ channel' = Append(channel, [kind |-> "open", file |-> f])
    /\ UNCHANGED <<link, losses, server, wire, events, sync, pane, store, txn>>

\* apply_local_edit_outcome and enqueue_edit_event.  A document that is not
\* tracked gets a default state and is sent with the connection's own lease.
Type ==
    LET d == pane.shown
    IN  /\ pane.phase = "open" /\ FileOf(d) \notin SharedFiles
        /\ txn < MaxEdits
        /\ txn' = txn + 1
        /\ pane' = [pane EXCEPT !.dirty = TRUE, !.text = @ \cup {txn + 1}]
        /\ IF link = "up" /\ HasRoom
           THEN /\ channel' = Append(channel,
                      [kind |-> "edit", doc |-> d, base |-> sync[d].optimistic,
                       txn |-> txn + 1, leased |-> sync[d].known])
                /\ sync' = [sync EXCEPT ![d] = reserve_pending(@, txn + 1)]
           ELSE UNCHANGED <<channel, sync>>
        /\ UNCHANGED <<link, losses, server, wire, events, store>>

\* Mutant: the session leaves the store and not its order.
ActivateKeepingOrder(d) ==
    /\ pane.phase = "open" /\ d \in Retained
    /\ Install(Insert([sessions EXCEPT ![d] = NoSession], lru, pane.shown))
    /\ pane' = [pane EXCEPT !.shown = d, !.dirty = sessions[d].dirty, !.text = sessions[d].text]
    /\ sync' = [sync EXCEPT ![d] = install(sessions[d].confirmed, sessions[d].pending)]
    /\ UNCHANGED <<link, losses, server, channel, wire, events, txn>>

\* activate_document: the retained session and the shown document change places.
\* The path of the view (active_document_path) stays as it is.
activate_document(d) ==
    LET rest == Dropped(Store, d)
    IN  /\ pane.phase = "open" /\ d \in Retained
        /\ Install(Insert(rest.sessions, rest.lru, pane.shown))
        /\ pane' = [pane EXCEPT !.shown = d, !.dirty = sessions[d].dirty, !.text = sessions[d].text]
        /\ sync' = [sync EXCEPT ![d] = install(sessions[d].confirmed, sessions[d].pending)]
        /\ UNCHANGED <<link, losses, server, channel, wire, events, txn>>

\* guard_pane_close looks at the shown document; close_pane then asks the server
\* to close it, and every retained one by force, as far as the channel takes it.
ClosePane ==
    LET close(d, f) == [kind |-> "close", doc |-> d, force |-> f]
        all == (IF pane.phase = "open" THEN <<close(pane.shown, FALSE)>> ELSE <<>>)
               \o [i \in DOMAIN lru |-> close(lru[i], TRUE)]
        room == Capacity - Len(channel)
    IN  /\ pane.phase # "closed" /\ ~pane.dirty
        /\ channel' = IF link = "up"
                      THEN channel \o SubSeq(all, 1, IF Len(all) < room THEN Len(all) ELSE room)
                      ELSE channel
        /\ pane' = [Blank EXCEPT !.phase = "closed"]
        /\ sessions' = [d \in Ids |-> NoSession]
        /\ lru' = <<>>
        /\ UNCHANGED <<link, losses, server, wire, events, sync, txn>>

\* open_document_session.  A second open of the shown document changes nothing,
\* except after a reconnect.  The shown document is stashed before the retained
\* copy of the opened one is dropped.
OpenSession(m) ==
    IF pane.shown = m.doc /\ ~pane.resync
    THEN UNCHANGED <<sync, pane, store, channel>>
    ELSE LET stashed == IF pane.phase = "open" THEN Insert(sessions, lru, pane.shown)
                                               ELSE Store
         IN  /\ Install(Dropped(stashed, m.doc))
             /\ CloseEvicted(stashed.evicted)
             /\ pane' = [phase |-> "open", shown |-> m.doc, path |-> FileOf(m.doc),
                         dirty |-> m.dirty, text |-> m.text, resync |-> FALSE]
             /\ sync' = [sync EXCEPT ![m.doc] = install(m.version, <<>>)]

\* A snapshot goes to the shown document or into its retained session.
LoadSnapshot(m) ==
    CASE pane.shown = m.doc ->
            /\ pane' = [pane EXCEPT !.text = m.text, !.dirty = FALSE]
            /\ sync' = [sync EXCEPT ![m.doc] = install(m.version, <<>>)]
            /\ UNCHANGED <<store, channel>>
      [] pane.shown # m.doc /\ m.doc \in Retained ->
            /\ sessions' = [sessions EXCEPT ![m.doc] =
                   [@ EXCEPT !.confirmed = m.version, !.pending = <<>>, !.dirty = FALSE,
                             !.text = m.text]]
            /\ UNCHANGED <<sync, pane, lru, channel>>
      [] OTHER -> UNCHANGED <<sync, pane, store, channel>>

\* An acknowledgement of a retained document: `pending` is filtered by its
\* document and not by the transaction, so every entry stays.
NoteAck(m) ==
    /\ sessions' = IF m.doc \in Retained
                   THEN [sessions EXCEPT ![m.doc] = [@ EXCEPT !.confirmed = m.version]]
                   ELSE sessions
    /\ UNCHANGED <<sync, pane, lru, channel>>

\* apply_connection_event; the events of a closed pane are dropped.
ApplyEvent ==
    /\ events # <<>>
    /\ LET m == Head(events)
       IN  IF pane.phase = "closed" \/ m.kind = "rejected"
           THEN UNCHANGED <<sync, pane, store, channel>>
           ELSE CASE m.kind = "opened" -> OpenSession(m)
                  [] m.kind = "snapshot" -> LoadSnapshot(m)
                  [] m.kind = "ack" -> NoteAck(m)
    /\ events' = Tail(events)
    /\ UNCHANGED <<link, losses, server, wire, txn>>

-----------------------------------------------------------------------------
(* The connection loop and the server.                                     *)

\* The loop applies a message to the tracking state and passes it on.  The
\* resync that answers a rejection is written past the channel.
Receive ==
    /\ wire # <<>>
    /\ Len(events) < Capacity
    /\ LET m == Head(wire)
       IN  /\ sync' = CASE m.kind = "ack" -> [sync EXCEPT ![m.doc] = acknowledge(@, m.version, m.txn)]
                        [] m.kind = "rejected" -> [sync EXCEPT ![m.doc] = reject(@, m.txn)]
                        [] m.kind = "snapshot" -> [sync EXCEPT ![m.doc] = install(m.version, <<>>)]
                        [] m.kind = "opened" -> sync
           /\ IF m.kind = "rejected" /\ m.repair
              THEN /\ Len(channel) <= Capacity
                   /\ channel' = <<[kind |-> "resync", doc |-> m.doc]>> \o channel
              ELSE UNCHANGED channel
           /\ events' = Append(events, m)
    /\ wire' = Tail(wire)
    /\ UNCHANGED <<link, losses, server, pane, store, txn>>

Serving(kind) ==
    /\ link = "up"
    /\ channel # <<>> /\ Head(channel).kind = kind
    /\ Len(wire) < Capacity
    /\ channel' = Tail(channel)
    /\ UNCHANGED <<link, losses, events, sync, pane, store, txn>>

State(kind, d) ==
    [kind |-> kind, doc |-> d, version |-> Version(d), text |-> text[d],
     dirty |-> d \in unsaved]

\* The document of a file: the registered one, or a new one.
DocumentFor(f) ==
    IF \E d \in registered : FileOf(d) = f
    THEN CHOOSE d \in registered : FileOf(d) = f
    ELSE <<f, made[f] + 1>>

\* The ceiling applies to a document that the connection does not hold yet.
ServeOpen ==
    /\ Serving("open")
    /\ LET d == DocumentFor(Head(channel).file)
       IN  /\ d[2] <= MaxEpoch
           /\ d \in held \/ Cardinality(held) < SessionMax
           /\ made' = [made EXCEPT ![FileOf(d)] = d[2]]
           /\ registered' = registered \cup {d}
           /\ held' = held \cup {d}
           /\ wire' = Append(wire, State("opened", d))
    /\ UNCHANGED <<text, unsaved>>

\* At its ceiling, or because the file cannot be read.
RefuseOpen ==
    /\ Serving("open")
    /\ UNCHANGED <<server, wire>>

ServeEdit ==
    /\ Serving("edit")
    /\ LET m == Head(channel)
           no(repair) == [kind |-> "rejected", doc |-> m.doc, txn |-> m.txn, repair |-> repair]
       IN  IF m.doc \in held /\ m.leased /\ m.base = Version(m.doc)
           THEN /\ text' = [text EXCEPT ![m.doc] = @ \cup {m.txn}]
                /\ unsaved' = unsaved \cup {m.doc}
                /\ wire' = Append(wire, [kind |-> "ack", doc |-> m.doc,
                                         version |-> Version(m.doc) + 1, txn |-> m.txn])
           ELSE /\ wire' = Append(wire, no(m.doc \in held))
                /\ UNCHANGED <<text, unsaved>>
    /\ UNCHANGED <<made, registered, held>>

\* Mutant: the registry entry goes and the access stays.
ServeCloseKeepsAccess ==
    /\ Serving("close")
    /\ registered' = registered \ {Head(channel).doc}
    /\ UNCHANGED <<made, held, text, unsaved, wire>>

\* close_document: a dirty document needs force.
ServeClose ==
    /\ Serving("close")
    /\ LET m == Head(channel)
           gone == IF FileOf(m.doc) \in SharedFiles THEN {} ELSE {m.doc}
       IN  IF m.doc \in held /\ (m.force \/ m.doc \notin unsaved)
           THEN /\ held' = held \ {m.doc}
                /\ registered' = registered \ gone
                /\ unsaved' = unsaved \ gone
           ELSE UNCHANGED <<held, registered, unsaved>>
    /\ UNCHANGED <<made, text, wire>>

ServeResync ==
    /\ Serving("resync")
    /\ LET d == Head(channel).doc
       IN  wire' = IF d \in held THEN Append(wire, State("snapshot", d)) ELSE wire
    /\ UNCHANGED server

\* The connection is lost; the server releases what it held.
Disconnect ==
    /\ link = "up" /\ losses < MaxLosses /\ pane.phase # "closed"
    /\ link' = "lost" /\ losses' = losses + 1
    /\ held' = {}
    /\ registered' = {d \in registered : FileOf(d) \in SharedFiles}
    /\ unsaved' = {d \in unsaved : FileOf(d) \in SharedFiles}
    /\ channel' = <<>> /\ wire' = <<>>
    /\ UNCHANGED <<made, text, events, sync, pane, store, txn>>

\* documents_for_reopen: the view's path and the retained ones, in any order.
ReopenPaths == ({pane.path} \cup {sessions[d].path : d \in Retained}) \ {NoFile}

\* PaneDocumentView::reconnect and reconnect_tab: a fresh queue and fresh
\* tracking state, and every path is opened again, the view's own first.
Reconnect ==
    /\ link = "lost" /\ events = <<>>
    /\ link' = "up"
    /\ sync' = [d \in Ids |-> Unknown]
    /\ pane' = [pane EXCEPT !.resync = TRUE]
    /\ \E order \in SetToSeqs(ReopenPaths) :
          /\ pane.path # NoFile => order[1] = pane.path
          /\ channel' = [i \in 1..(IF Len(order) < Capacity THEN Len(order) ELSE Capacity) |->
                            [kind |-> "open", file |-> order[i]]]
    /\ UNCHANGED <<losses, server, wire, events, store, txn>>

-----------------------------------------------------------------------------
Next ==
    \/ \E f \in Files : RequestOpen(f)
    \/ \E d \in Ids : activate_document(d)
    \/ Type \/ ClosePane \/ ApplyEvent \/ Receive
    \/ ServeOpen \/ RefuseOpen \/ ServeEdit \/ ServeClose \/ ServeResync
    \/ Disconnect \/ Reconnect

Spec == Init /\ [][Next]_vars

-----------------------------------------------------------------------------
(* Properties.                                                             *)

\* The retained sessions and their order name the same documents, once each;
\* the shown document is not among them, and the store is within its limit.
\* Otherwise evict_if_needed would stop short, or drop nothing.
StoreIsConsistent ==
    /\ Retained = Range(lru) /\ IsInjective(lru)
    /\ pane.shown \notin Retained
    /\ Cardinality(Retained) <= MaxRetained

Quiet == link = "up" /\ channel = <<>> /\ wire = <<>> /\ events = <<>>

\* The version the next edit of a shown or retained document would be based on.
BaseOf(d) ==
    IF d = pane.shown THEN sync[d].optimistic
    ELSE NextBase(sessions[d].confirmed, sessions[d].pending)

Tracked(d) == d \in held /\ sync[d].known /\ (d = pane.shown \/ d \in Retained)

\* When nothing is on its way, no document would send an edit based on a version
\* that the server has not reached: whatever copies of the tracking state were
\* stashed and installed while acknowledgements were under way, an edit that is
\* out of step is out of step as a stale one, which asks for a resync.
SyncNeverRunsAhead ==
    Quiet => \A d \in Ids : Tracked(d) => BaseOf(d) <= Version(d)
=============================================================================
