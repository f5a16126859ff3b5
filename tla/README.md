# Clay: TLA+ models of the editor's client/server core

Clay is a code editor in two halves: a client that renders and edits, and a
tokio server that owns the documents, the files, the JavaScript runtime and the
packages. They talk over a local socket in ordered frames. This directory
holds TLA+ models of the parts where the two halves can disagree, the
configurations that check them with TLC, and TLAPS proofs. Source paths below
are relative to the repository's `src/`.

## 1. Inventory

| Component | State | Operations | Hard because | What makes it correct |
|---|---|---|---|---|
| Document state, `server/document.rs` | version, text, dirty, active lease, access holders | apply an edit, acquire/release access, resync snapshot, replace from storage | one mutex per document, shared by the handlers of all connections and by the runtime | every change has a new version; one holder of the editable lease; lease ids are never reused |
| Client sync state, `client/mod.rs` | per document: confirmed and optimistic version, pending transactions, lease; bounded outgoing channel | reserve, roll back, acknowledge, reject, install; send and receive frames | written by the UI thread and by the connection task; automatic resync overtakes queued edits | pending edits are resolved; confirmed never exceeds the server's version |
| Pane, `masonry_pane_document.rs` | active document, retained sessions, recovery menu, reconnect flag | type, open, reload, resync, apply events, disconnect, reconnect | edits are shown before they are confirmed; events lag behind the sync state | shows the server's text once everything is answered |
| Tab driver, `driver/` | tabs, their connections, last registry revision, restore plans | open, switch, close, reconnect, reconcile, restore | snapshots arrive over several connections; the new connection races the release of the old one | a lost tab is served again, on its own root; the tab bar follows the registry |
| Connection handler, `server/connection.rs` | bound tab, menu sessions | one arm per message, cleanup at the end | runs beside the other handlers; writes can fail | releases everything on every exit |
| File workspace, `server/workspace.rs` | roots, documents, path index | open, save, reload, close, release | disk I/O happens with the registry unlocked; other programs change files | one document per path, ceilings, clean means stored, no blind overwrite |
| Runtime document operations, `server/ops/documents.rs` | - (client 0) | open, save, reload | concurrent with the clients' own operations | as the workspace |
| Document sessions, `editor/document_session.rs` | retained sessions, LRU order, a copy of the tracking state each | stash, activate, evict, reopen, close | answers for a document arrive while it is stashed; eviction closes documents on the server | store and order agree; no copy runs ahead of the server |
| Parse coordinator, `server/parse_coordinator.rs`, `output_router.rs` | task table, current versions, handlers, routes | schedule, coalesce, supersede, finish, publish, forget | schedule and finish are several critical sections each | replaced work reaches no holder; output goes to holders only; nothing is left behind |
| Completion and language intelligence, `server/completion.rs`, `server/language_intelligence.rs` | active tasks, current versions, reply lanes, the pane's menu | request, supersede, time out, reply, show | results arrive after the text they were computed for | every request ends; a menu fits the text it is shown for |
| Document analysis, `server/document_analysis.rs` | subscriptions | subscribe, publish | as the coordinators | a stale result is not published |
| Runtime generations and behaviour, `server/mod.rs`, `server/behavior.rs`, `server/config_watch.rs` | generation, manifests with their version, grace window, snapshot fanout, watcher baseline | watch, reload, commit, publish, activate a mode, expire | a reload has several awaits; modes are activated and edits arrive meanwhile | manifests change one at a time; clients get the generation; the grace is bounded; a save is loaded |
| Tab registry, `server/tab_registry.rs` | tab rows, active tab, revision, next id | new, reclaim, close, move, expire | two locks, taken one after the other; a restart counts ids from 1 | a tab is bound to one connection and has its state |
| Menu sessions, `server/menu_sessions.rs` | active session | open, query, activate, cancel | late activations | only the active session acts |
| Scoped locks, `server/locks.rs` | lock table | acquire, release | ordering | no two overlapping holders |
| Shell layout, `shell/layout.rs` | split tree | split, close, focus, persist | pure algorithm | the tree stays well formed |
| Packages, `packages/` | records, approvals, active set | install, approve, activate | approval against a changed manifest | nothing runs unapproved |
| Wire, windows, rendering, git, server-driven UI | - | - | I/O and data | out of scope (section 8) |

Interaction: a keystroke changes the pane's text at once, reserves a version in
the sync state and enters the outgoing channel. The connection task writes it to
the socket. The server's handler finds the document under the workspace mutex,
applies the edit under the document's own mutex, and answers. The task
updates the sync state and sends an event to the UI thread. Opening, saving and
reloading take the workspace mutex to prepare and to commit, and release
it for the I/O. A tab's workspace and documents are shared by every connection
bound to that tab, and any connection may reclaim a tab, so several connections
can meet at one document.

## 2. Modules

| Module | Role |
|---|---|
| `VersionedDocument` | abstract: what the server promises about one document; `DocumentSync` instantiates it (`Promise == INSTANCE VersionedDocument WITH ...`) |
| `DocumentSync` | server document, handlers, sockets, channels, sync states and panes of any number of connections |
| `MCDocumentSync` | welcome documents for TLC |
| `DocumentSyncProofs` | types, leases, the single editor, and that shown documents stay open |
| `DocumentRefinementProofs` | `DocumentSync` implements `VersionedDocument`; versions arrive in order |
| `WorkspaceFiles` | registry, open/save/reload/close with unlocked I/O, other programs writing the files |
| `MCWorkspaceFiles` | symmetries for TLC |
| `WorkspaceProofs` | types, registry consistency, ceilings, and what saves and reloads leave on disk |
| `DocumentSessions`, `MCDocumentSessions` | one pane's shown and retained documents over the sync state and the server |
| `DocumentSessionsProofs` | types, store consistency, and that tracking never runs ahead |
| `ParseCoordinator`, `MCParseCoordinator` | background parsing: table, tasks, generations, routes |
| `ParseCoordinatorProofs` | the five safety properties of `ParseCoordinator` |
| `TabRegistry` | the registry's operations as operators on a registry value |
| `TabSessions`, `MCTabSessions` | composes the registry with the server's tab states, the connections and the window's driver |
| `TabSessionsProofs` | types, states, bindings, grants; that tabs keep their root, stale snapshots drop nothing and a window at rest lists what is registered |
| `ProviderRequests`, `MCProviderRequests` | completion and language-intelligence requests from the keystroke to the menu |
| `ProviderRequestsProofs` | types, menus fit the text, no request is forgotten, each is answered once |
| `RuntimeReload`, `MCRuntimeReload` | configuration watcher, reload, manifests, grace window, fanout, client installation |
| `RuntimeReloadProofs` | types, manifests change serially, who is admitted by grace and how many that can be |

### DocumentSync

One document, any number of connections. A connection is one `ClientId`; a
client that reconnects is a new connection that takes the pane over.

* **Text** is the sequence of the contributions that made it, so two texts are
  equal exactly when the same edits and loads produced them. An edit carries, as
  a ghost field `on`, the text it was composed on; it decides only whether
  the byte range fits (`Verdicts`: a range composed on another text may fit or
  not, both outcomes are explored).
* **Server**: `version, text, holder, leaseId, nextLease, access, closed` are
  `DocumentState` and its registry entry. `AcceptEdit`/`RejectEdit` are
  `dispatch_edit_operation`, with the checks in the code's order; `ServeOpen`
  is the open with `acquire_access`; `ServeResync`, `CommitReload`,
  `AnswerReload` and `ReleaseAccess` are the other arms. A reload is two steps
  because the code answers from a second critical section. `RefuseRequest` is
  every refusal: a closed document, an unforced reload of unsaved edits, a file
  that cannot be read. An open of a closed document reads the file under another
  document id (`OtherOpened`), and the pane then shows that one.
* **Client**: `Type` is `enqueue_edit_event` together with the pane's local
  edit: when the channel is full, or the connection is gone, the reservation is rolled back
  and the pane keeps the text, as in the code. `SendFrame` and
  `ReceiveFrame` are the two branches of `run_connection`; `ReceiveFrame` changes
  the sync state before the event is queued, and writes an automatic
  `RequestResync` straight to the socket. `ApplyEvent` is
  `apply_connection_event`.
* **Failure**: `Disconnect` ends the task; frames not yet read are lost, frames
  on their way to the server are still handled. `CloseTab` is the driver dropping a tab
  that the registry no longer lists. `Reconnect` is
  `start_tab_reconnect`/`reconnect_tab`: the pane keeps its text and its old
  access until the next `DocumentOpened`, and its queue has the welcome
  document's lease.
* **History**: `disturbed` records the connections whose text left the protocol
  (an edit dropped at the channel, an edit accepted that the pane lost to an
  earlier snapshot, a reload answered late). It guards nothing.

Left out of this module: behaviour-version validation (in `RuntimeReload`), region
locks (no code path takes one), retained sessions (in `DocumentSessions`), saving
and closing files (in `WorkspaceFiles`).

### WorkspaceFiles

One tab's workspace. A text and a stamp are numbers, new at each write; a stamp
stands for length and modification time (`FileMetadata`), so the model assumes that a write
changes them, as the code does. A node is an inode: an open handle keeps reading
the old one after a rename.

* Every client operation is a sequence of phases of an *actor*: a connection
  (whose handler serves one message at a time) or a task of the JS runtime (all of
  them client 0). `op[a]` is what the code carries in its plan structures.
  Open: `PrepareOpen`, `OpenHandle`, `ReadHandle`, `Register`. Save:
  `AuthorizeSave`, `PrepareSave`, `CaptureSave`, `CheckTarget`, `RenameTemp`,
  `StatSaved`, `CommitSave`. Reload: `AuthorizeReload`, `PrepareReload`, the two
  read phases, `CheckReload`, `ReplaceText`. `FailIO` fails any disk phase.
* The workspace mutex is implicit: a phase under it is one action.
  `commit_reload` locks the document twice under it; between the two
  `WorkspaceFree` is false, and only steps that need no workspace mutex run.
* `WriteInPlace`, `ReplaceFile`, `RemoveFile` are other programs. They are
  external, modelled from what `matches_current`, `read_file_bounded` and
  `atomic_write_file` guard against. A second tab with the same file
  behaves like another program.
* History: `seen` and `raced` record what a document was loaded from or saved
  as, and the files whose save another write or a reload overlapped.

Left out: root management and path authorization, refusals that change nothing (such as a
`known_version` ahead of the document), a save that creates a file.

### DocumentSessions

One pane and its connection. A document id is a file and an epoch, new each time
the file is registered. There are three copies of the tracking state: `sync`, which
the connection loop keeps (`Receive`), the copy in a retained session, and
what the events on their way will change. `RequestOpen`, `Type`,
`activate_document` and `ClosePane` are the user; `ApplyEvent` with
`OpenSession`, `LoadSnapshot` and `NoteAck` is `apply_connection_event`; `Insert` and
`Evicted` are the store with its LRU list; an eviction or a close sends
`CloseDocument` if the channel has room (`CloseEvicted`), as the code does. `Disconnect`
drops what the server alone held; `Reconnect` reopens the paths of all sessions.
`SharedFiles` are kept open by another client and survive.

Left out: fold and decoration state, the welcome document, saving.

### ParseCoordinator

Each action is one critical section of the coordinator's mutex. Scheduling is
`Schedule` (coalesced, stale, or superseding what it replaces) and then
`InstallTask`, since the task is spawned before its entry is inserted. A task then takes
`HandlerReturns`, `CheckEntry`, `CheckGeneration`, `CheckVersion` and `Settle`, with
`Publish` or `Reject` at the end: `finish_task`. An abort removes the entry, but a
future in its last poll may still return (`DropAborted` is the other outcome).
`CommitGeneration`, `RefreshDocument` and `SkipRefresh` are what a reload does to
the coordinator; open, edit, close and disconnect are the handler's calls.

Left out: what a parser computes, window geometry, why a parse fails (a failure is
an outcome that ends in `Reject`).

### TabRegistry and TabSessions

`TabRegistry` has the registry's methods, each from a registry to a registry, with
the refusals as identity. `TabSessions` uses them for the
server (`BindNew`, `LookUp`/`EnsureState`/`Reclaim`, `Perform`, `FinishClose`,
`CleanUp`, `Depart`, the sweep) and adds the window: `ApplySnapshot` is
`apply_registry_snapshot` with its comparison of revisions, `Disconnected` starts a
reconnect task, `TryConnect`, `FallBackToReclaim`, `FallBackToNew`, `Retry` and
`Rekey` are that task, `OpenTab`/`MountTab`/`OpenFailed` the dialog. `Restart` is a
new server process: empty registry, ids from 1. `Lose` breaks one connection;
the server notices later (`Notice`).

Left out: restoring a saved window, save-all-and-close, `open_workspace` of
the path browser.

### ProviderRequests

The two coordinators are lanes of one model; they differ where the code does
(replies and fallback of completion, the outstanding limit of language
intelligence, when entries are inserted). The pane stamps a request with its
version (`Stamp`), `ChooseProvider` and `Scheduled` are the handler up to the
spawned task, `InsertTask` is apart because the insert comes after the spawn;
`ProviderReturns`, `CheckFreshness`, `CheckResult` and `Finish` are the task, `Await`
the handler's waiting half with its timeout, `Deliver` and `Drain` the bounded
result lane, `ReceiveResult` the pane's decision. `RegisterCandidate` and
`CommitGeneration` are a reload as the coordinators see it.

Left out: ranking, filtering, snippet text, rejected edits.

### RuntimeReload

A configuration is its revision number. The watcher is `Poll`, `QuietScan`,
`QuietScanFails`, `WatchReload`, `Rebaseline`; a reload of the watcher
or of a command takes `StartReload` (the attempt lock), `Prepare` (evaluate and
clone what is expected), `Commit` (compare, replace, open the grace window),
`Publish` (store, then announce), `Refresh` (every document listed before the
commit), one action for each span between awaits in which another task can
intervene. `Commit` may also refuse for what the model abstracts (a held behaviour lock,
changed UI, theme or typography, a failed registration), which ends the attempt as a
refused preparation does. Connections subscribe before the welcome, take updates between messages
(`NextMessage`), serve edits in two steps (check, then apply and count), opens with
mode activation, reload commands and acknowledgements. The client's side is
`apply_behavior_manifest` and the snapshot validation that takes an equal or older
generation for a duplicate. A receiver that lags resumes at `latest`.

Left out: evaluation and validation of `init.js` (may fail, may publish a
manifest or not: both are explored), UI trees and package code in a generation, the
loss of a connection (its cleanup here touches only `ack`).

## 3. Runs

One passing run for each model, with its safety and its liveness properties on one
instance, and one run for each disagreement between code and documentation. Deadlock
checking is off in all of them: users may stop, and the bounds run out.

| Run | Instance | Checks |
|---|---|---|
| `MCDocumentSync` | 2 connections, 3 inputs each (up to 2 edits, up to 2 requests), 1 new content, channel of 1, fairness (190,000 states) | `TypeOK`, `HeldLeasesAreActive`, `OneEditor`, `ShownDocumentsStayOpen`, `VersionsArriveInOrder`, `QuietEditorAgrees`, `ImplementsVersionedDocument`, `PendingEditsResolve`, `RejectionsAreRepaired` |
| `DocumentSyncEdits` | 2 connections, 4 inputs each, channel of 2 | `EditsApplyToTheTextTheyWereMadeOn` is violated |
| `MCWorkspaceFiles` | 1 client, 1 runtime task, 2 files, ceilings of 2 and 1, 1 root, 4 changes (2.9 million) | `TypeOK`, `RegistryIsConsistent`, `CeilingsHold`, `CleanMeansStored`, `SavesReplaceSeenContent` |
| `WorkspaceReloads` | 1 client, 1 runtime task, 1 file | `ReloadsKeepUnsavedEdits` is violated |
| `WorkspaceSaves` | as `WorkspaceReloads` | `SavesOverwriteNothingUnseen` is violated |
| `MCDocumentSessions` | 2 files, one of them shared, room for one retained session, 2 edits, 1 lost connection | `TypeOK`, `StoreIsConsistent`, `SyncNeverRunsAhead` |
| `MCParseCoordinator` | 1 client, 1 document, 2 modes, 2 windows, 2 tasks at a time, 2 versions, 2 generations | `TypeOK`, `EntriesAreAlive`, `RoutesFollowAccess`, `ClosedDocumentsAreForgotten`, `ReplacedWorkReachesNoHolder` |
| `MCTabSessions` | 1 tab, 6 connections, 2 roots, any 2 events (a tab opened, a command, a loss, an expiry, a restart), fairness (57,000) | `TypeOK`, `RegisteredTabsHaveState`, `OneTabPerClient`, `GrantsEnd`, `TabsKeepTheirRoot`, `WindowAgreesAtRest`, `DropsOnlyUnregistered`, `LostTabsReturn` |
| `TabsDropped` | 2 tabs, 5 connections, any 2 events | `RebuiltTabsStay` is violated |
| `MCProviderRequests` | both lanes, 2 requests, 1 edit or reload, result lane of 1, 1 outstanding, fairness | `TypeOK`, `InstalledMenusFit`, `EveryRequestIsAnswered`, `AnswersAreShown` |
| `MCRuntimeReload` | 1 client, any 3 events (up to 2 saves, up to 2 edits, opens or reload commands, 1 failing scan), grace of 1, fanout of 1, fairness (313,000) | `TypeOK`, `ManifestChangesAreSerial`, `GraceAdmitsWithinLimit`, `PublishedGenerationsArrive`, `SavesAreTried` |
| `GraceWindow` | 2 clients, 2 edits, 1 save, grace of 1 | `GraceLimitHolds` is violated |

Bounds. `MaxInputs`, `MaxChanges` and `MaxEvents` bound what comes from outside all
together, so that a run takes every combination of a few events rather than one fixed
mix. Two connections are needed for a lease to be refused, handed over and taken back.
Two edits give a pipelined edit behind a rejected one, which is where the rollback of
optimistic versions shows; two requests give a resync or reload while an open is under
way. A channel of one message is full after the first, so the dropped edit happens. In
`WorkspaceFiles` two actors race saves, reloads, edits and writers on one document and
opens of one path; two files and ceilings this small reach the client's ceiling (the
server's equals the number of files; the theorem covers the others). A pane with room
for one retained session evicts at its second document. Two tasks are enough for a
coordinator's entry to change hands between the check and the removal, two modes for work
that superseding does not abort. Two events meet a reclaim with a loss, a close, a sweep
or a restart, and leave two tabs in the window when the first is an opened tab; a second
root lets a tab leave beside another. One request superseding another is all that the
lanes of `ProviderRequests` tell apart, and capacities of 1 are full with the first. Two
saves put one into each phase of the reload of the other, and a reload command or an open
meets a reload of the watcher. A capacity of 1 makes a broadcast receiver lag with the
second generation. One client suffices there for liveness; what depends on several
(`ManifestChangesAreSerial`, the grace) is proved for any number. The proofs in section 4
hold for all bounds of the safety properties except `QuietEditorAgrees`.

Fairness. In the live runs (`MCDocumentSync`, `MCTabSessions`, `MCProviderRequests`,
`MCRuntimeReload`), tasks of the tokio runtime and the UI loop keep running:
sends, receives, handlers, spawned tasks, reconnect tasks and the watcher's loop
are weakly fair. A provider returns or its timeout fires (`Await`). Users, saves,
lost connections, restarts and failing scans owe nothing, and are bounded: a
connection that breaks for ever returns nothing. There is no strong fairness.

### Where code and documentation disagree

Five properties state what a comment or a page of the documentation says, and TLC
finds a behaviour of the model, and so of the code, that violates each of them.

* `DocumentSyncEdits`. `versioned-text-synchronization.md:15`: the server "accepts only
  edits based on its current canonical version". Versions are compared by count, and the
  sync state takes a snapshot before the pane does. In the trace one client reloads a file
  that changed; the connection task installs the new version in the sync state, the user
  types before the pane has the event, and the edit goes out with the new version as its
  base on the old text. It is accepted. (`QuietEditorAgrees` holds all the same: the event
  on its way replaces the pane's text, and the answer is counted as a loss, `disturbed`.)
* `WorkspaceReloads`. `workspace.rs:1530-1532` ("Don't clobber unsaved edits unless the
  caller asked to force the reload") and `server-file-workspace.md:58` and `:85`. In the
  trace a runtime task's reload reads the file and finds the document clean, an edit of the
  client is applied, and the reload replaces the text: `commit_reload` looks and replaces
  under two locks of the document.
* `WorkspaceSaves`. `workspace.rs:1943-1948` has it that revalidating the target "closes the
  TOCTOU window"; `:2183-2185` that an external edit "fails the save instead of being
  silently clobbered". A write between `matches_current` and the rename is overwritten.
* `TabsDropped`. `restore.rs:759-766` and `tabs-and-clients.md:260-262`: a tab that the
  server evicted is rebuilt with `New`. It is, but `reconnect_tab` mounts it with the tab
  id it had, and a snapshot that has neither that id nor the new client (in the trace the
  announcement of the eviction, relayed by the other tab's connection) drops it from the
  window, while the server keeps the new tab. The property speaks of windows in
  which no tab was closed and the server did not restart.
* `GraceWindow`. `budgets.rs:214` ("Maximum previous-generation transactions accepted during
  one grace window") and `persistent-runtime-hot-reload.md:64`. The check and the
  count are two critical sections with the edit's application between: two handlers at the
  last place both pass. What holds is `GraceAdmitsWithinLimit` (none passes once the limit
  has been accepted) and the bound of `GraceStaysBounded` (section 4).

Four more were met and have no run of their own; the models take the steps.

* A reload between a save's capture and its commit replaces the document and marks it
  clean, although the save then puts the older text on disk.
  `server-file-workspace.md:58` says of a concurrent change during a save that it leaves
  "the document dirty rather than falsely clean". (`raced` in `CleanMeansStored`.)
* A parse result that is replaced after its handler returned may still be published, since
  the last check and the publication are apart. `persistent-runtime-hot-reload.md:93`:
  "Parse results publish only if document version and runtime generation still match active
  state"; `parse-task-lifecycle.md:122` likewise. `ReplacedWorkReachesNoHolder` claims it
  only of results that were replaced before.
* `note_installed` records an acknowledgement of a generation older than the latest;
  `server/mod.rs:202-204` says that it ignores one (`Noted`). Only the bound `ack <=
  latest.generation` is part of `TypeOK`.
* After a restart the server counts client ids from 1, and a tab that reconnects under an id
  another tab of the window still has replaces that tab when it is mounted
  (`Rekey`). `tabs-and-clients.md:279-284` has every tab come back.
  `TabsKeepTheirRoot`, `DropsOnlyUnregistered` and `RebuiltTabsStay` speak of one process.

### What else the code does that a reader may not expect

The models take the following steps too. Each is an exception in a property (named here)
or a note at its hazard.

* A reload's answer pairs the text that was read with the version found later
  (`AnswerReload`; `disturbed` in `QuietEditorAgrees`).
* After a rejection the automatic resync overtakes edits that wait in the channel; one of
  them may be accepted although the pane then loads a snapshot without it (`disturbed`).
* The stat after the rename can fail, and the save is reported as failed although the
  file was replaced.
* A reload that listed a document before it was closed brings its version back into
  the parse coordinator (`ClosedDocumentsAreForgotten` speaks of the first
  generation). When one of two clients has closed a document and the other finishes the
  last close between two sections of `finish_task`, the version that made a result
  outdated is forgotten, and the result goes to a route that is about to be dropped; hence
  *holder*.
* An eviction from a pane's store can close the very document on the server that is about
  to be shown (no property excludes it).
* After a reconnect to a document that was closed meanwhile, the pane is given another
  document (`OtherOpened`) while its sync state still holds the welcome document's
  version (`VersionsArriveInOrder` bounds what is confirmed only for a pane that shows
  the document and is not reopening it).
* Activating a stashed session installs its own copy of the tracking state; it may be
  behind the loop's, and the next edit is rejected as stale and resynced.
* After a restart a reclaimed id can name another tab's new entry
  (`TabsKeepTheirRoot` and `DropsOnlyUnregistered` speak of one process). A tab that is closed while its stream ends
  may be registered again by its reconnect. A `Reclaim` of an attempt
  that was given up can be carried out after the attempt that succeeded: the row then
  names a client that is gone, and the tab is served without it (`LostTabsReturn`
  speaks of the connection that serves the tab). The tab bar then lists that tab last,
  because it looks rows up by client; `WindowAgreesAtRest` compares tab ids.
* An empty snapshot is accepted whatever its revision (`Accepts`). Once the registry was
  empty (its only tab expired while its connection was being replaced), a connection
  that relays the empty snapshot late sets the window's revision back, announcements
  that were stale pass for new, and the window can come to rest with an older order of
  the tabs (it takes eight connections). `WindowAgreesAtRest` therefore speaks of a
  registry that is never empty; a restart empties it too.
* A tab that was closed can be registered again by the reconnect that its ending stream
  started, and then be dropped from the window by a snapshot of before.
* A tab that is mounted when a newer snapshot was already applied has no tab id until the
  registry changes again: `mount_tab` sets none, and the snapshot on its own connection
  is stale by then (`WindowAgreesAtRest` orders the tabs that have one).
* A language-intelligence entry can be inserted after its task has ended, and
  then counts against the limit.
* A save after a reload has read the configuration is absorbed by the new baseline;
  a reload that lost to a mode activation (`active_state_conflict`) is not tried
  again. `SavesAreTried` speaks of saves that no reload has begun to miss.
* A mode activation advances the server-wide behaviour version without telling the other
  clients; their stamps stay behind until the next manifest reaches them.

## 4. Proofs

All for every value of the constants, from the named assumptions of the modules
(`NoConnection` is no connection, bounds are naturals, the channel holds at least
one message, clients and runtime tasks are distinct, and so are clients and the
configuration watcher). Each property was checked by TLC first,
and so were the inductive invariants that are not obvious.

**DocumentSync** (`DocumentSyncProofs`, `DocumentRefinementProofs`)

* `TypeCorrect` (`Spec => []TypeOK`): inductive as it stands; the bound of the
  channel rests on `HasRoom`.
* `LeasesStayActive` (`[]HeldLeasesAreActive`) and `SingleEditor`
  (`[]OneEditor`). `LeaseInv` adds that a connection that was never used
  carries no lease anywhere, so that `Connect` and `Reconnect` start clean. One
  lemma per direction (client steps, server steps) shows that the acting
  connection's leases stay active, another that no step disturbs the others'.
  `OneEditor` follows, since a lease other than 0 in a pane that is not
  reopening is the active one, and there is one holder.
* `ShownDocumentsAreOpen` (`[]ShownDocumentsStayOpen`). `AccessInv`: a live connection
  is in the access set, or the document is closed, or it has had no answer yet and its
  first question is an open (`Asking`). The last case is what the property itself does not
  say: without it nothing excludes that a snapshot reaches a connection that never opened.
* `SyncImplementsDocument` (`Spec => ImplementsVersionedDocument`). The mapping is
  the identity on version, text, holder and next lease. A load must really change
  the text, which needs the invariant that every token from storage in the text
  is older than the next load (`StoredTokensAreOld`).
* `VersionsStayInOrder` (`[]VersionsArriveInOrder`). `VersionInv` orders each of a
  client's two queues, and one after the other, and bounds both by the server's version.

**WorkspaceFiles** (`WorkspaceProofs`)

* `WorkspaceTypeCorrect`: `Grounded` makes it inductive: an operation past its
  first phase names a file and a registered document.
* `RegistryStaysConsistent`: every step does one of four things to the registry
  (nothing, lease, add, shrink; `RegistrySteps`), and each of the four keeps the
  path index and the documents in step. Inductive together with the types.
* `CeilingsAreKept`: by the same four cases; adding an element to a finite set of
  fewer than `limit` elements stays within the limit, shrinking never exceeds it.
* `CleanDocumentsAreStored` (`[]CleanMeansStored`) and `SavesReplaceOnlySeenContent`
  (`SavesReplaceSeenContent`, an action property). `HoldInv` says that the document of an
  operation stays open and accessible to its client. `SaveInv` says what each operation
  may rely on at its step (`Sound`: a save past its comparison has a document that was
  loaded from what the file has), and that two saves of one file are never both past it
  (`Apart`: the rename gives the file a new stamp, which fails the comparison of every
  save that is behind). Both speak of files not in `raced`.

**ParseCoordinator** (`ParseCoordinatorProofs`)

* `ParseTypeCorrect` and `EntriesStayAlive`, together (`TableInv`): a task between the two
  sections of its scheduling is not aborted, since aborts go through the table; a held
  document has a version.
* `RoutesNeedAccess` and `ClosingForgets` (`AccessInv`): a connection finishes one close
  at a time; before the first reload only holders schedule, so nothing enters
  the table for a document that nobody holds.
* `ReplacedWorkIsNotSeen` (`ReplacedWorkReachesNoHolder`, an action property).
  `LateInv`: a replaced result is outdated in each later section, either because the
  current version is above its own or because nobody holds the document; and an id that
  was given up is never opened again. With two clients the instance is too big for TLC
  (the run has one); the theorem covers them.

**ProviderRequests** (`ProviderRequestsProofs`)

From one invariant, `RequestsInv`.

* `RequestsTypeCorrect` (`[]TypeOK`): an edit is pending at the writer exactly while it
  or its acknowledgement is on its way (`CountInv`, a count of places in two queues), the
  result lane keeps its capacity, and everything in a queue, lane or menu names a request
  of that client and lane (`MailInv`, `PaneInv`).
* `InstalledMenusFitText` (`InstalledMenusFit`, an action property). `WaitsWell`: while the
  pane waits for a completion its text is the one the request was made for, since every
  edit and every newer request ends the waiting. A result for an older request finds
  nothing waiting for it.
* `RequestsAreCarried` (`[]NoRequestForgotten`): an unanswered request is in the socket,
  in the handler, or has a reply that a task or the handler's waiting half still owes
  (`CarriedInv`, `RepliesInv`). This is the safety half of `EveryRequestIsAnswered`.
* `AnswersAreFinal` (`AnsweredOnce`): no step changes an answer once there is one; a reply
  that can still be sent or closed belongs to a request without an answer.

The attempt corrected the model: `DropTask` closed the reply of every aborted task, also
of one whose reply the handler had taken already, and could so answer a request twice.

**RuntimeReload** (`RuntimeReloadProofs`)

* `ReloadTypeCorrect` (`[]TypeOK`), from `ReloadTypes`. The watcher works on a revision
  newer than its baseline and waits exactly for the reload it asked for (`WatchInv`); a
  handler is inside a reload exactly while the attempt is its own (`ReloadInv`,
  `HandlerInv`); nothing on its way to a client or held by one is ahead of the
  latest snapshot and the manifests (`MessageInv`). Every generation is paid for by a
  request or a saved revision, every edit accepted by grace by a request (`BudgetInv`):
  that bounds the versions, and shows that no failure, conflict or retry makes a
  generation nobody asked for.

* `ManifestsChangeSerially` (`Spec => ManifestChangesAreSerial`): every step leaves the
  manifests alone or takes the next version and keeps every layer (`SerialStep`). An
  activation does by its definition. A commit does because it compares the manifests
  with the ones its candidate was prepared from; a candidate that publishes none must
  leave the record as it was, which needs `Shaped` (a record of a natural version
  and layers), an invariant of its own.
* `GraceAdmissionsAreWithinLimit` (`Spec => GraceAdmitsWithinLimit`): only the first half of
  serving an edit admits one by grace (`EditsAreAdmittedByServeEdit`), it needs an open
  window with room, and `Counted` ties that window's count to what was accepted.
* `GraceStaysBounded` (`[]GraceIsBounded`): the edits accepted by one window are at most the
  limit and one for every other client. The limit alone is not a bound (`GraceWindow`), so no
  run checks this form on an instance. `Counted`: while a window is open the edits
  accepted by it are those it counts, below the limit; once it is closed, the accepted ones
  and the handlers still between check and count (`InFlight`) stay together within
  the limit plus the number of other clients. A handler that counts moves from the second
  to the first, so the sum is what is inductive.

**TabSessions** (`TabSessionsProofs`)

* `TabsTypeCorrect`, `RegisteredTabsAreServed`, `ClientsHaveOneTab` and
  `LeavingEndsGrants`, with restarts, from one invariant, `TabsInv`. The registry's operators are
  summarised by what they do to the rows (keep some, rebind one, move one, add one). A
  client's only row is the tab its connection is bound to, none before it binds and
  none after it closed (`ConnectionInv`): the look-up and the binding of a `Reclaim` are two critical
  sections, and this is what makes the second safe. A grant is held by a
  connection that is bound and routed to its tab (`GrantInv`). `IdsSuffice` leaves a tab id
  for each connection that may still ask for one, which the types need.
* `ServedTabsKeepTheirRoot` (`[]TabsKeepTheirRoot`) and `StaleSnapshotsDropNothing`
  (`DropsOnlyUnregistered`, an action property), both up to the first restart, from
  `StoryInv`. It says that there is one root for each connection and one for each tab id
  given so far, and a set of all snapshots ever sent, such that every row (in the registry,
  in a snapshot, in a lane), every binding, every mounted tab and every reconnect task
  agrees with them; a step that binds a tab or makes a connection extends the two
  functions. A tab that an older snapshot has and a newer one has not is no longer in the
  registry (`InOrder`), nor is a tab of the window that a snapshot newer than the last
  applied one lacks (`Keeps`): that is why refusing older revisions is enough when several
  connections relay. After a restart tab ids and revisions start again and neither holds.
* `WindowsAgreeAtRest` (`WindowAgreesAtRest`), for a registry that is never empty, from
  `RestInv`. It keeps the newest announced revision, who made each tab, and the set of
  snapshots sent. Every connection that the window has or waits for either ends (a
  reconnect follows, whose connection starts with a snapshot) or still hears and has that
  revision on its way, unless it was applied (`Relays`). A snapshot at least that new lacks only
  tabs at the end of the registry's list whose makers have no session yet (`Ahead`), and
  every tab the window knows was made by a connection that has one (`Known`). At rest nothing is on
  its way, so the list applied last is such a snapshot. The argument needs each link to
  belong to one tab, task or dialog (`OneEach`), and that `last` never goes back: no
  snapshot sent is empty, so `Accepts` compares revisions. That is where `NeverEmpty`
  enters.

**DocumentSessions** (`DocumentSessionsProofs`)

* `SessionsTypeCorrect`, `StoreStaysConsistent` and `SyncStaysBehind`
  (`[]SyncNeverRunsAhead`) from `SessionsInv`. The first two need that no copy of a tracking state,
  wherever it is kept, confirms a version the server has not reached. The third
  needs `TrackInv`: a held document that no other client edits is either going to be
  repaired (a resync, a rejection that asks for one, or a snapshot is on its way), or
  everything its copies expect is reached, or will be by an edit on its way (`Covered`).
  The repair has to be part of it: after a rejection the copies are wrong until the
  snapshot comes, and an activation may install the wrong one meanwhile. Edits on their way are new
  (`Unique`, `GoodEdit`), so an accepted edit raises the version by exactly one, and an id
  that was let go is never held again (`HeldInv`, `Given`).

Only model-checked:

* the liveness properties of `MCDocumentSync`, `MCTabSessions`, `MCProviderRequests` and
  `MCRuntimeReload`: fairness and `ENABLED` are beyond the prover;
* `QuietEditorAgrees`: needs the text that each queued edit and snapshot will produce, a fold
  over the queues whose value for every length takes induction over data.

tlapm 1.4.5 expands an `@` inside the value of another `EXCEPT` wrongly; the model names
such values by operators of their own (`Received`).

## 5. Mutants

Every checked property has a mutant in the module it is about: a definition that
errs as that code plausibly could (a channel off by one, a lease taken from its
holder, an acknowledgement that keeps the transaction, an open that skips the second
look at the registry, a save that skips the metadata check, a next base counted from
the pending edits, a cleanup that trusts the registry instead of its own binding, a
poll that already moves the baseline). Replacing the
definition by its mutant makes TLC find the property violated.

## 6. Hazards

`PROJECT.json` lists what is hard to test, each at its line, with the properties
that cover it. Four have none, with the reason: the code takes the step, a model
reaches it, and nothing the repository says excludes it. Where a property covers only a
part of a hazard, or a disagreement run refutes what the repository says of it, the note
says so.

## 7. Plan

The order so far: `DocumentSync`, `WorkspaceFiles`, then `DocumentSessions`,
`ParseCoordinator`, `TabRegistry` and `TabSessions`, `ProviderRequests`,
`RuntimeReload`. What is next:

1. Proofs: `QuietEditorAgrees` for a single client.
2. Models: document analysis on the pattern of `ParseCoordinator`, menu sessions
   against late activations, the split tree of `shell/layout.rs` as a pure algorithm
   against a reference definition, package approvals.

## 8. Not modelled

Wire codec and transport (the models take an ordered stream that may end),
rendering and windows, git and other external programs, the V8 isolate, manifest
parsing, UI trees: input and output, or data without control of its own. The editor's buffer and
surface are sequential text editing on one thread, and most of the repository's
lines are such code: rendering, widgets, validation of records, tests. Region locks
(`server/locks.rs`) are taken by no code path. Command dispatch adds no state to
that of the components it calls. Everything else not in section 2 is in the plan.
