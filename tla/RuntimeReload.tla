---------------------------- MODULE RuntimeReload ----------------------------
(***************************************************************************)
(* Hot reload of the configuration: the watcher of                         *)
(* src/server/config_watch.rs, the reload, generations and snapshot fanout *)
(* of src/server/mod.rs, the behaviour version and its grace window of     *)
(* src/server/behavior.rs, the handlers of src/server/connection.rs that   *)
(* use them and the client's side of a snapshot.                           *)
(*                                                                         *)
(* The behaviour version is one counter for the whole server.  A reload    *)
(* advances it when the configuration publishes a manifest, and so does    *)
(* every document whose open activates a mode; an edit carries the version *)
(* its client knows.  A configuration is its revision number: revisions    *)
(* are what the watcher's scans tell apart.                                *)
(***************************************************************************)
EXTENDS Integers, Sequences, FiniteSets

CONSTANTS
    Clients,        \* connections
    Requests,       \* what clients ask for: "edit", "open", "reload"
    Documents,      \* documents that clients open, each once
    MaxSaves,       \* bound: configuration saves
    MaxRequests,    \* bound: edits, opens and reload commands of the clients
    MaxScanFaults,  \* bound: scans that fail while the watcher waits
    MaxEvents,      \* bound: saves, requests and failed scans together
    MaxRescans,     \* MAX_DEBOUNCE_RESCANS
    GraceLimit,     \* PREVIOUS_BEHAVIOR_GRACE_MAX_TRANSACTIONS
    FanoutCapacity, \* RUNTIME_STATE_BROADCAST_CAPACITY
    QueueCapacity   \* bound of a client's outbound queue

ASSUME ReloadConstants ==
    /\ IsFiniteSet(Clients) /\ Clients # {} /\ "watcher" \notin Clients
    /\ Requests \subseteq {"edit", "open", "reload"}
    /\ {MaxSaves, MaxRequests, MaxScanFaults, MaxEvents} \subseteq Nat
    /\ {MaxRescans, GraceLimit, FanoutCapacity, QueueCapacity} \subseteq Nat \ {0}

VARIABLES
    config,     \* the revision on disk
    tried,      \* history: the newest revision a reload has evaluated
    watch,      \* the watcher: phase, baseline, snapshot seen, rescans made
    reload,     \* the reload that holds reload_attempt
    generation, \* RuntimeGenerationStore.current.id
    behavior,   \* ActiveBehaviorManifest: version, documents with a layer
    latest,     \* ActiveRuntimeStateFanout.latest, or NoSnapshot
    grace,      \* PreviousBehaviorGrace, or NoGrace
    ack,        \* connection -> acknowledged generation, 0 for none
    conn,       \* connection -> "off", "subscribed" or "on"
    unread,     \* connection -> its broadcast receiver: buffered, lagged
    serving,    \* connection -> what its handler is in the middle of
    up,         \* connection -> messages to the server, in order
    down,       \* connection -> messages to the client, in order
    client,     \* connection -> the client's installed generation and version
    opened,     \* documents some client has asked to open
    accepted,   \* history: generation -> edits accepted on its manifest by grace
    joined,     \* history: connection -> latest generation when it subscribed
    used        \* counters of the bounds

vars == <<config, tried, watch, reload, generation, behavior, latest, grace, ack, conn,
          unread, serving, up, down, client, opened, accepted, joined, used>>

NoSnapshot == [generation |-> 0, version |-> 0]
NoGrace == [version |-> 0, generation |-> 0, accepted |-> 0]
NoReload == [phase |-> "none", by |-> "watcher", publishes |-> FALSE,
             expected |-> [version |-> 0, layers |-> {}], refresh |-> {}]
FirstBehavior == [version |-> 1, layers |-> {}]
Idle == [task |-> "idle", about |-> 0]
MaxGeneration == 1 + MaxSaves + MaxRequests
Generations == 1..MaxGeneration

ReloadPhase == {"none", "evaluating", "prepared", "committed",
                "stored", "refreshing"}
Watcher == [phase : {"idle", "quiet", "due", "reloading", "rescan"},
            baseline : Nat, seen : Nat, rescans : 0..MaxRescans]
Task == {"idle", "opening", "opened", "current", "grace", "reload"}

TypeOK ==
    /\ config \in 0..MaxSaves
    /\ tried \in 0..config
    /\ watch \in Watcher
    /\ {watch.baseline, watch.seen} \subseteq 0..config
    /\ reload.phase \in ReloadPhase
    /\ reload.by \in Clients \cup {"watcher"}
    /\ reload.refresh \subseteq opened
    /\ generation \in Generations
    /\ behavior.version \in Nat
    /\ behavior.layers \subseteq opened
    /\ latest.generation \in 0..generation
    /\ latest.version \in 0..behavior.version
    /\ grace.generation \in 0..(generation - 1)
    /\ grace.accepted \in 0..(GraceLimit - 1)
    /\ ack \in [Clients -> 0..latest.generation]
    /\ conn \in [Clients -> {"off", "subscribed", "on"}]
    /\ unread \in [Clients -> [buffered : 0..FanoutCapacity, lagged : BOOLEAN]]
    /\ \A c \in Clients :
          /\ serving[c].task \in Task
          /\ Len(up[c]) <= QueueCapacity
          /\ client[c].generation \in 0..latest.generation
          /\ client[c].version \in 0..behavior.version
    /\ opened \subseteq Documents
    /\ accepted \in [Generations -> 0..MaxRequests]

Init ==
    /\ config = 0 /\ tried = 0
    /\ watch = [phase |-> "idle", baseline |-> 0, seen |-> 0, rescans |-> 0]
    /\ reload = NoReload
    /\ generation = 1
    /\ behavior = FirstBehavior
    /\ latest \in {NoSnapshot, [generation |-> 1, version |-> 1]}
    /\ grace = NoGrace
    /\ ack = [c \in Clients |-> 0]
    /\ conn = [c \in Clients |-> "off"]
    /\ unread = [c \in Clients |-> [buffered |-> 0, lagged |-> FALSE]]
    /\ serving = [c \in Clients |-> Idle]
    /\ up = [c \in Clients |-> <<>>]
    /\ down = [c \in Clients |-> <<>>]
    /\ client = [c \in Clients |-> [generation |-> 0, version |-> 0]]
    /\ opened = {}
    /\ accepted = [g \in Generations |-> 0]
    /\ joined = [c \in Clients |-> 0]
    /\ used = [requests |-> 0, faults |-> 0]

watcherVars == <<config, watch>>
runtimeVars == <<generation, behavior, latest, grace>>
clientVars == <<conn, unread, up, down, client, joined>>

----------------------------------------------------------------------------
(* The watcher: poll, wait for a quiet period, reload, scan again.          *)

\* Something else may still happen from outside.
MayHappen == config + used.requests + used.faults < MaxEvents

\* The user saves a watched file.
Save ==
    /\ MayHappen
    /\ config < MaxSaves
    /\ config' = config + 1
    /\ UNCHANGED <<tried, watch, reload, runtimeVars, ack, clientVars, serving,
                   opened, accepted, used>>

\* A scan of the configuration root: the revision that the files are at.
Scan == config

\* Mutant: the poll already moves the baseline.
PollRebasing ==
    /\ watch.phase = "idle"
    /\ Scan # watch.baseline
    /\ watch' = [watch EXCEPT !.phase = "quiet", !.seen = Scan, !.rescans = 0,
                              !.baseline = Scan]
    /\ UNCHANGED <<config, tried, reload, runtimeVars, ack, clientVars, serving,
                   opened, accepted, used>>

Poll ==
    /\ watch.phase = "idle"
    /\ Scan # watch.baseline
    /\ watch' = [watch EXCEPT !.phase = "quiet", !.seen = Scan, !.rescans = 0]
    /\ UNCHANGED <<config, tried, reload, runtimeVars, ack, clientVars, serving,
                   opened, accepted, used>>

\* wait_for_quiet_period: a scan that finds no change ends it, and so does the
\* last scan; any other change is waited out again.
QuietScan ==
    /\ watch.phase = "quiet"
    /\ watch' = IF Scan = watch.seen \/ watch.rescans = MaxRescans - 1
                THEN [watch EXCEPT !.phase = "due", !.seen = Scan]
                ELSE [watch EXCEPT !.seen = Scan, !.rescans = @ + 1]
    /\ UNCHANGED <<config, tried, reload, runtimeVars, ack, clientVars, serving,
                   opened, accepted, used>>

\* A scan that fails gives the wait up; the next poll starts over.
QuietScanFails ==
    /\ watch.phase = "quiet"
    /\ MayHappen
    /\ used.faults < MaxScanFaults
    /\ used' = [used EXCEPT !.faults = @ + 1]
    /\ watch' = [watch EXCEPT !.phase = "idle"]
    /\ UNCHANGED <<config, tried, reload, runtimeVars, ack, clientVars, serving,
                   opened, accepted>>

\* execute_reload_command takes the attempt lock or is refused.
StartReload(by) ==
    /\ reload.phase = "none"
    /\ reload' = [NoReload EXCEPT !.phase = "evaluating", !.by = by]

WatchReload ==
    /\ watch.phase = "due"
    /\ \/ /\ StartReload("watcher")
          /\ watch' = [watch EXCEPT !.phase = "reloading"]
       \/ /\ reload.phase # "none"
          /\ watch' = [watch EXCEPT !.phase = "rescan"]
          /\ UNCHANGED reload
    /\ UNCHANGED <<config, tried, runtimeVars, ack, clientVars, serving,
                   opened, accepted, used>>

\* The attempt is over; whatever the disk holds now is the new baseline, and
\* the stable snapshot is where the scan fails.
Rebaseline ==
    /\ watch.phase = "rescan"
    /\ \/ /\ watch' = [watch EXCEPT !.phase = "idle", !.baseline = Scan]
          /\ UNCHANGED used
       \/ /\ MayHappen
          /\ used.faults < MaxScanFaults
          /\ used' = [used EXCEPT !.faults = @ + 1]
          /\ watch' = [watch EXCEPT !.phase = "idle", !.baseline = watch.seen]
    /\ UNCHANGED <<config, tried, reload, runtimeVars, ack, clientVars, serving,
                   opened, accepted>>

----------------------------------------------------------------------------
(* reload_runtime_generation_inner, one action for each span between awaits *)
(* in which another task can intervene.                                     *)

\* The attempt lock is released; its holder continues.
EndReload ==
    /\ reload' = NoReload
    /\ IF reload.by = "watcher"
       THEN /\ watch' = [watch EXCEPT !.phase = "rescan"]
            /\ UNCHANGED serving
       ELSE /\ serving' = [serving EXCEPT ![reload.by] = Idle]
            /\ UNCHANGED watch

\* load_configuration_for_service reads the disk and runs init.js, which may
\* throw; prepare_runtime_generation_candidate then clones what it expects to
\* replace, and any of its validations may refuse the candidate.  Publishing a
\* manifest is up to the configuration.  (One step: the first half reads only
\* what a save writes, the second nothing that a save writes.)
Prepare ==
    /\ reload.phase = "evaluating"
    /\ tried' = config
    /\ \/ EndReload
       \/ \E publishes \in BOOLEAN :
             /\ reload' = [reload EXCEPT !.phase = "prepared", !.publishes = publishes,
                                         !.expected = behavior, !.refresh = opened]
             /\ UNCHANGED <<watch, serving>>
    /\ UNCHANGED <<config, runtimeVars, ack, clientVars, opened, accepted, used>>

Candidate ==
    [version |-> reload.expected.version + (IF reload.publishes THEN 1 ELSE 0),
     layers |-> reload.expected.layers]

\* Mutant: only the generation is compared, so a mode activated since the
\* candidate was prepared is overwritten.
CommitUnchecked ==
    /\ reload.phase = "prepared"
    /\ behavior' = Candidate
    /\ generation' = generation + 1
    /\ grace' = [version |-> behavior.version, generation |-> generation, accepted |-> 0]
    /\ reload' = [reload EXCEPT !.phase = "committed"]
    /\ UNCHANGED <<config, tried, latest, watch, serving, ack, clientVars, opened,
                   accepted, used>>

\* commit_runtime_generation up to the release of the behaviour mutex: compare
\* with what was expected, swap, and keep the replaced manifest for grace.  It
\* may also refuse where the manifests are as expected: the behaviour lock is
\* held, the generation, the SDUI, the theme or the typography is another one,
\* or a registration of the candidate fails.
Commit ==
    /\ reload.phase = "prepared"
    /\ \/ EndReload /\ UNCHANGED runtimeVars
       \/ /\ behavior = reload.expected
          /\ behavior' = Candidate
          /\ generation' = generation + 1
          /\ grace' = [version |-> behavior.version, generation |-> generation, accepted |-> 0]
          /\ reload' = [reload EXCEPT !.phase = "committed"]
          /\ UNCHANGED <<latest, watch, serving>>
    /\ UNCHANGED <<config, tried, ack, clientVars, opened, accepted, used>>

\* A receiver that is full loses its oldest update and is told that it lagged.
Announced(u) ==
    IF u.buffered = FanoutCapacity THEN [u EXCEPT !.lagged = TRUE]
    ELSE [u EXCEPT !.buffered = @ + 1]

Store ==
    /\ latest' = [generation |-> generation, version |-> Candidate.version]
    /\ UNCHANGED unread

Announce ==
    /\ unread' = [c \in Clients |-> IF conn[c] = "off" THEN unread[c]
                                    ELSE Announced(unread[c])]
    /\ UNCHANGED latest

\* Mutant: announced first, stored afterwards.
PublishAnnouncingFirst ==
    /\ \/ /\ reload.phase = "committed"
          /\ Announce
          /\ reload' = [reload EXCEPT !.phase = "stored"]
       \/ /\ reload.phase = "stored"
          /\ Store
          /\ reload' = [reload EXCEPT !.phase = "refreshing"]
    /\ UNCHANGED <<config, tried, watch, generation, behavior, grace, ack, conn, serving,
                   up, down, client, joined, opened, accepted, used>>

\* ActiveRuntimeStateFanout::publish stores the snapshot, then announces it.
Publish ==
    /\ \/ /\ reload.phase = "committed"
          /\ Store
          /\ reload' = [reload EXCEPT !.phase = "stored"]
       \/ /\ reload.phase = "stored"
          /\ Announce
          /\ reload' = [reload EXCEPT !.phase = "refreshing"]
    /\ UNCHANGED <<config, tried, watch, generation, behavior, grace, ack, conn, serving,
                   up, down, client, joined, opened, accepted, used>>

\* classify_open_document runs the document's mode, whose manifest becomes the
\* document's layer under the next version; a document without one has none.
Activated(d) == {behavior, [version |-> behavior.version + 1,
                            layers |-> behavior.layers \cup {d}]}

\* refresh_open_documents_after_reload: one document.  Its messages go into the
\* reload's outcome, which neither caller sends to a client.
Refresh ==
    /\ reload.phase = "refreshing"
    /\ \/ \E d \in reload.refresh :
             /\ behavior' \in Activated(d)
             /\ reload' = [reload EXCEPT !.refresh = @ \ {d}]
             /\ UNCHANGED <<watch, serving>>
       \/ /\ reload.refresh = {}
          /\ EndReload
          /\ UNCHANGED behavior
    /\ UNCHANGED <<config, tried, generation, latest, grace, ack, clientVars, opened,
                   accepted, used>>

----------------------------------------------------------------------------
(* A connection's handler.                                                  *)

Send(c, message) == down' = [down EXCEPT ![c] = Append(@, message)]
Manifest == [type |-> "manifest", generation |-> 0, version |-> behavior.version]
Snapshot == [type |-> "snapshot", generation |-> latest.generation,
             version |-> latest.version]

\* latest_runtime_snapshot_for, written where there is one.
SendLatest(c) ==
    IF latest = NoSnapshot THEN UNCHANGED down ELSE Send(c, Snapshot)

\* handle_connection subscribes before it does anything else.
Subscribe(c) ==
    /\ conn[c] = "off"
    /\ conn' = [conn EXCEPT ![c] = "subscribed"]
    /\ joined' = [joined EXCEPT ![c] = latest.generation]
    /\ UNCHANGED <<watcherVars, tried, reload, runtimeVars, ack, unread, up, down,
                   client, serving, opened, accepted, used>>

\* send_welcome_snapshot_and_manifest: the manifests, but no runtime snapshot.
Welcome(c) ==
    /\ conn[c] = "subscribed"
    /\ conn' = [conn EXCEPT ![c] = "on"]
    /\ Send(c, Manifest)
    /\ UNCHANGED <<watcherVars, tried, reload, runtimeVars, ack, unread, up, client,
                   joined, serving, opened, accepted, used>>

NextMessage(c, type) ==
    /\ conn[c] = "on" /\ serving[c] = Idle
    /\ up[c] # <<>> /\ Head(up[c]).type = type
    /\ up' = [up EXCEPT ![c] = Tail(@)]

\* The next item of a receiver: that it lagged, then what it still holds.
Received(u) == IF u.lagged THEN [u EXCEPT !.lagged = FALSE]
               ELSE [u EXCEPT !.buffered = @ - 1]

\* The runtime-state branch of the select loop: an update and a lag are
\* answered alike, with the latest snapshot.
ReceiveUpdate(c) ==
    /\ conn[c] = "on" /\ serving[c] = Idle
    /\ unread[c].buffered > 0
    /\ unread' = [unread EXCEPT ![c] = Received(@)]
    /\ SendLatest(c)
    /\ UNCHANGED <<watcherVars, tried, reload, runtimeVars, ack, conn, up, client,
                   joined, serving, opened, accepted, used>>

\* note_installed
Noted(c, g) == IF g <= latest.generation THEN g ELSE ack[c]

ServeInstalled(c) ==
    /\ NextMessage(c, "installed")
    /\ ack' = [ack EXCEPT ![c] = Noted(c, Head(up[c]).value)]
    /\ UNCHANGED <<watcherVars, tried, reload, runtimeVars, conn, unread, down, client,
                   joined, serving, opened, accepted, used>>

\* BehaviorGraceState::validate_edit_version for a stamp that is not current.
WithinGrace(c, stamp) ==
    /\ grace # NoGrace
    /\ grace.generation = generation - 1
    /\ ack[c] < generation
    /\ stamp = grace.version
    /\ grace.accepted < GraceLimit

\* dispatch_edit_operation up to the decision about the stamp.
ServeEdit(c) ==
    /\ NextMessage(c, "edit")
    /\ LET stamp == Head(up[c]).value
       IN  \/ /\ stamp = behavior.version
              /\ serving' = [serving EXCEPT ![c].task = "current"]
              /\ UNCHANGED down
           \/ /\ stamp # behavior.version /\ WithinGrace(c, stamp)
              /\ serving' = [serving EXCEPT ![c] = [task |-> "grace",
                                                    about |-> grace.generation]]
              /\ UNCHANGED down
           \/ /\ stamp # behavior.version /\ ~WithinGrace(c, stamp)
              /\ SendLatest(c)          \* reject_invalid_behavior_version
              /\ UNCHANGED serving
    /\ UNCHANGED <<watcherVars, tried, reload, runtimeVars, ack, conn, unread, client,
                   joined, opened, accepted, used>>

\* Mutant: the edits are not counted.
RecordNothing == UNCHANGED grace

\* Mutant: the window stays open at the ceiling.
RecordWithoutClosing ==
    grace' = IF grace = NoGrace \/ grace.accepted + 1 > GraceLimit THEN NoGrace
             ELSE [grace EXCEPT !.accepted = @ + 1]

\* record_previous_accepted counts on the window that is open now.
RecordPreviousAccepted ==
    grace' = IF grace = NoGrace \/ grace.accepted + 1 >= GraceLimit THEN NoGrace
             ELSE [grace EXCEPT !.accepted = @ + 1]

\* The rest of dispatch_edit_operation: the document applies the edit, or
\* refuses it for reasons of its own.
ApplyEdit(c) ==
    /\ serving[c].task \in {"current", "grace"}
    /\ serving' = [serving EXCEPT ![c] = Idle]
    /\ IF serving[c].task = "grace"
       THEN \/ /\ accepted' = [accepted EXCEPT ![serving[c].about] = @ + 1]
               /\ RecordPreviousAccepted
            \/ UNCHANGED <<accepted, grace>>
       ELSE UNCHANGED <<accepted, grace>>
    /\ UNCHANGED <<watcherVars, tried, reload, generation, behavior, latest, ack,
                   clientVars, opened, used>>

\* The two seconds of PREVIOUS_BEHAVIOR_GRACE_MS are over.
GraceExpires ==
    /\ grace # NoGrace
    /\ grace' = NoGrace
    /\ UNCHANGED <<watcherVars, tried, reload, generation, behavior, latest, ack,
                   clientVars, serving, opened, accepted, used>>

\* An open: the workspace has the document, its mode is activated, and the
\* manifest of the moment after is sent, to this connection alone.
ServeOpen(c) ==
    \/ /\ NextMessage(c, "open")
       /\ LET d == Head(up[c]).value
          IN  /\ opened' = opened \cup {d}
              /\ serving' = [serving EXCEPT ![c] = [task |-> "opening", about |-> d]]
       /\ UNCHANGED <<watcherVars, tried, reload, runtimeVars, ack, conn, unread, down,
                      client, joined, accepted, used>>
    \/ /\ serving[c].task = "opening"
       /\ behavior' \in Activated(serving[c].about)
       /\ serving' = [serving EXCEPT ![c].task = "opened"]
       /\ UNCHANGED <<watcherVars, tried, reload, generation, latest, grace, ack,
                      clientVars, opened, accepted, used>>
    \/ /\ serving[c].task = "opened"
       /\ Send(c, Manifest)
       /\ serving' = [serving EXCEPT ![c] = Idle]
       /\ UNCHANGED <<watcherVars, tried, reload, runtimeVars, ack, conn, unread, up,
                      client, joined, opened, accepted, used>>

\* runtime.reloadConfiguration: the handler runs the reload itself.
ServeReload(c) ==
    /\ NextMessage(c, "reload")
    /\ \/ /\ StartReload(c)
          /\ serving' = [serving EXCEPT ![c].task = "reload"]
       \/ /\ reload.phase # "none"
          /\ UNCHANGED <<reload, serving>>
    /\ UNCHANGED <<watcherVars, tried, runtimeVars, ack, conn, unread, down, client,
                   joined, opened, accepted, used>>

----------------------------------------------------------------------------
(* The client.                                                              *)

\* Messages that the outbound queue has no room for are dropped.
Enqueue(c, type, value) ==
    up' = [up EXCEPT ![c] = IF Len(@) = QueueCapacity THEN @
                            ELSE Append(@, [type |-> type, value |-> value])]

\* apply_behavior_manifest
ApplyBehaviorManifest(c, message) ==
    /\ client' = [client EXCEPT ![c].version = IF message.version <= @ THEN @
                                               ELSE message.version]
    /\ UNCHANGED up

\* ClientRuntimeStateCandidate::validate
StaleOrDuplicate(c, message) == message.generation <= client[c].generation

\* install_runtime_state_snapshot: only a strictly newer generation is
\* installed, version and all, and acknowledged.
InstallRuntimeStateSnapshot(c, message) ==
    IF StaleOrDuplicate(c, message) THEN UNCHANGED <<client, up>>
    ELSE /\ client' = [client EXCEPT ![c] = [generation |-> message.generation,
                                             version |-> message.version]]
         /\ Enqueue(c, "installed", message.generation)

ClientReceive(c) ==
    /\ down[c] # <<>>
    /\ down' = [down EXCEPT ![c] = Tail(@)]
    /\ LET message == Head(down[c])
       IN  IF message.type = "manifest" THEN ApplyBehaviorManifest(c, message)
           ELSE InstallRuntimeStateSnapshot(c, message)
    /\ UNCHANGED <<watcherVars, tried, reload, runtimeVars, ack, conn, unread, joined,
                   serving, opened, accepted, used>>

\* The user edits, opens a document or asks for a reload.
ClientSends(c) ==
    /\ client[c].version # 0
    /\ Len(up[c]) < QueueCapacity
    /\ MayHappen
    /\ used.requests < MaxRequests
    /\ used' = [used EXCEPT !.requests = @ + 1]
    /\ \/ "edit" \in Requests /\ Enqueue(c, "edit", client[c].version)
       \/ "reload" \in Requests /\ Enqueue(c, "reload", 0)
       \/ \E d \in Documents \ opened : "open" \in Requests /\ Enqueue(c, "open", d)
    /\ UNCHANGED <<watcherVars, tried, reload, runtimeVars, ack, conn, unread, down,
                   client, joined, serving, opened, accepted>>

----------------------------------------------------------------------------
WatchStep == Poll \/ QuietScan \/ WatchReload \/ Rebaseline

ReloadStep == Prepare \/ Commit \/ Publish \/ Refresh

ServerStep(c) ==
    \/ Welcome(c) \/ ReceiveUpdate(c) \/ ServeInstalled(c) \/ ServeEdit(c)
    \/ ApplyEdit(c) \/ ServeOpen(c) \/ ServeReload(c)

Next ==
    \/ Save \/ QuietScanFails \/ GraceExpires
    \/ WatchStep \/ ReloadStep
    \/ \E c \in Clients : Subscribe(c) \/ ServerStep(c) \/ ClientReceive(c) \/ ClientSends(c)

Spec == Init /\ [][Next]_vars

\* Tasks that can run do run: the runtime schedules the watcher, the reload and
\* every connection, and a client reads its socket.
FairSpec ==
    /\ Spec
    /\ WF_vars(WatchStep) /\ WF_vars(ReloadStep)
    /\ \A c \in Clients : WF_vars(ServerStep(c)) /\ WF_vars(ClientReceive(c))

----------------------------------------------------------------------------
\* An edit stamped with a replaced manifest passes the check only while fewer
\* than GraceLimit such edits have been accepted, on all connections together:
\* also where handlers count on a window that has expired, or that a further
\* reload has replaced, since their edit passed.
GraceAdmitsWithinLimit ==
    [][\A c \in Clients :
           serving[c].task # "grace" /\ serving'[c].task = "grace"
               => accepted[serving'[c].about] < GraceLimit]_vars

\* Edits stamped with a replaced manifest are accepted GraceLimit times, and
\* once more for every other connection: an edit is counted only after it is
\* applied, so each handler may have one that passed before the last was counted.
GraceIsBounded ==
    \A g \in Generations : accepted[g] <= GraceLimit + Cardinality(Clients) - 1

\* Disagreement: budgets.rs promises at most GraceLimit edits in one window
\* (PREVIOUS_BEHAVIOR_GRACE_MAX_TRANSACTIONS), but the check and the count are
\* two critical sections of behavior.rs with the application of the edit between.
GraceLimitHolds == \A g \in Generations : accepted[g] <= GraceLimit

\* A behaviour version names one state of the manifests: whatever changes them,
\* a reload's commit or a mode activation on any connection, takes the next
\* version and keeps every document's mode layer, also where the candidate was
\* prepared from an older state (install_staged, commit_runtime_generation).
ManifestChangesAreSerial ==
    [][behavior' # behavior => /\ behavior'.version = behavior.version + 1
                               /\ behavior.layers \subseteq behavior'.layers]_vars

\* Every generation that is published while a connection is subscribed reaches
\* its client, unless a newer one does: also when the handshake or a long
\* request holds the connection up and its receiver lags.
PublishedGenerationsArrive ==
    \A c \in Clients, g \in Generations :
        (latest.generation = g /\ conn[c] # "off" /\ joined[c] < g)
            ~> client[c].generation >= g

\* A save that no reload has begun to miss is evaluated: the watcher sees it and
\* reloads, or finds a reload in progress that began after the save.
SavesAreTried ==
    \A r \in 1..MaxSaves :
        (config = r /\ watch.phase \in {"idle", "quiet", "due"}
            /\ watch.baseline # r /\ reload.phase = "none")
            ~> tried >= r
=============================================================================
