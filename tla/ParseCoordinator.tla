-------------------------- MODULE ParseCoordinator --------------------------
(***************************************************************************)
(* Background parsing: src/server/parse_coordinator.rs, the routes of      *)
(* src/server/output_router.rs and the calls that src/server/connection.rs *)
(* and src/server/mod.rs make on them.                                     *)
(*                                                                         *)
(* The coordinator's state is behind one mutex, but neither scheduling nor *)
(* finishing a parse holds it throughout: every step below is one critical *)
(* section, and the server runs on several threads.  A task is a spawned   *)
(* future; `active` names the tasks that the table active_tasks refers to, *)
(* at most one for each key.  Aborting a task removes its table entry; the *)
(* future itself may already be in its last poll and still return.         *)
(***************************************************************************)
EXTENDS Integers, Sequences, FiniteSets

CONSTANTS
    Clients,        \* connections; identities are never reused
    Documents,      \* document ids; a closed document's id is not reused
    Packages,       \* package prefixes
    Modes,          \* mode ids
    Windows,        \* stable parse-window ids
    Tasks,          \* names for the futures that run at one time
    MaxVersion,     \* bound: document versions
    MaxGeneration,  \* bound: runtime generations
    Capacity        \* OUTPUT_SUBSCRIPTION_CAPACITY

ASSUME ParseConstants ==
    /\ MaxVersion \in Nat \ {0}
    /\ MaxGeneration \in Nat \ {0}
    /\ Capacity \in Nat \ {0}

Free == [phase |-> "free"]
Absent == 0
Versions == 1..MaxVersion
Generations == 1..MaxGeneration
HandlerKey == Packages \X Modes

VARIABLES
    conn,       \* connection -> "new", "on", "leaving" or "gone"
    closing,    \* connection -> the documents whose close it is finishing
    opening,    \* connection -> the generation its open began under, or Absent
    holders,    \* document -> connections with access (the workspace's)
    version,    \* document -> its version, Absent before it is opened
    generation, \* the committed runtime generation
    refresh,    \* <<document, version>> pairs a reload still has to refresh
    handlers,   \* handler key -> generation of its handler, or Absent
    current,    \* current_versions: document -> version, or Absent
    tasks,      \* task -> its record, or Free
    active,     \* the tasks that active_tasks refers to
    routes,     \* document_index: document -> subscribed connections
    lane        \* connection -> updates waiting in its bounded channel

vars == <<conn, closing, opening, holders, version, generation, refresh, handlers,
          current, tasks, active, routes, lane>>

Phase == {"scheduled", "parsing", "returned", "registered", "fresh",
          "valid", "failed", "stale"}
Caller == Clients \cup {"reload"}

TaskRecord ==
    [generation : Generations, document : Documents, handler : HandlerKey,
     window : Windows, version : Versions, by : Caller, phase : Phase,
     aborted : BOOLEAN,
     late : BOOLEAN]    \* history: replaced by the time its handler returned

Update == [document : Documents, version : Versions]

TypeOK ==
    /\ conn \in [Clients -> {"new", "on", "leaving", "gone"}]
    /\ closing \in [Clients -> SUBSET Documents]
    /\ opening \in [Clients -> Generations \cup {Absent}]
    /\ holders \in [Documents -> SUBSET Clients]
    /\ version \in [Documents -> Versions \cup {Absent}]
    /\ generation \in Generations
    /\ refresh \subseteq Documents \X Versions
    /\ handlers \in [HandlerKey -> Generations \cup {Absent}]
    /\ current \in [Documents -> Versions \cup {Absent}]
    /\ tasks \in [Tasks -> TaskRecord \cup {Free}]
    /\ active \subseteq Tasks
    /\ routes \in [Documents -> SUBSET Clients]
    /\ lane \in [Clients -> Seq(Update)]
    /\ \A c \in Clients : Len(lane[c]) <= Capacity

Init ==
    /\ conn = [c \in Clients |-> "new"]
    /\ closing = [c \in Clients |-> {}]
    /\ opening = [c \in Clients |-> Absent]
    /\ holders = [d \in Documents |-> {}]
    /\ version = [d \in Documents |-> Absent]
    /\ generation = 1
    /\ refresh = {}
    /\ handlers = [k \in HandlerKey |-> Absent]
    /\ current = [d \in Documents |-> Absent]
    /\ tasks = [t \in Tasks |-> Free]
    /\ active = {}
    /\ routes = [d \in Documents |-> {}]
    /\ lane = [c \in Clients |-> <<>>]

Running(t) == tasks[t].phase # "free"

SameKey(a, b) ==
    /\ a.generation = b.generation
    /\ a.document = b.document
    /\ a.handler = b.handler
    /\ a.window = b.window

\* The table entry that a lookup of a task's key finds, as a set.
EntryOf(rec) == {a \in active : SameKey(tasks[a], rec)}

\* abort_tasks: the entries leave the table and their futures are told.
Abort(set) ==
    /\ active' = active \ set
    /\ tasks' = [t \in Tasks |->
                    IF t \in set THEN [tasks[t] EXCEPT !.aborted = TRUE]
                                 ELSE tasks[t]]

\* A connection handles one message at a time: it is between two calls when
\* no close, open or schedule of its own is under way ...
Between(c) ==
    /\ conn[c] = "on"
    /\ closing[c] = {}
    /\ opening[c] = Absent
    /\ \A t \in Tasks : Running(t) => ~(tasks[t].by = c /\ tasks[t].phase = "scheduled")

\* ... and takes its next message when every open has come to its route.
Idle(c) == Between(c) /\ \A d \in Documents : c \in holders[d] => c \in routes[d]

-----------------------------------------------------------------------------
(* Connections, access and routes.                                         *)

\* subscribe_client: the connection's bounded lane.
Connect(c) ==
    /\ conn[c] = "new"
    /\ conn' = [conn EXCEPT ![c] = "on"]
    /\ UNCHANGED <<closing, opening, holders, version, generation, refresh, handlers,
                   current, tasks, active, routes, lane>>

\* The workspace grants access; the reply is written before the route exists.
OpenDocument(c, d) ==
    /\ Idle(c)
    /\ c \notin holders[d]
    /\ \/ version[d] = Absent /\ version' = [version EXCEPT ![d] = 1]
       \/ holders[d] # {} /\ UNCHANGED version
    /\ holders' = [holders EXCEPT ![d] = @ \cup {c}]
    /\ UNCHANGED <<conn, closing, opening, generation, refresh, handlers, current,
                   tasks, active, routes, lane>>

\* subscribe_document, after DocumentOpened has been written.  The generation
\* is read here and used when the document's mode has been classified.
SubscribeDocument(c, d) ==
    /\ Between(c)
    /\ c \in holders[d] \ routes[d]
    /\ routes' = [routes EXCEPT ![d] = @ \cup {c}]
    /\ opening' = [opening EXCEPT ![c] = generation]
    /\ UNCHANGED <<conn, closing, holders, version, generation, refresh,
                   handlers, current, tasks, active, lane>>

\* An accepted edit makes the document's next version.
Edit(c, d) ==
    /\ Idle(c)
    /\ c \in holders[d]
    /\ version[d] < MaxVersion
    /\ version' = [version EXCEPT ![d] = @ + 1]
    /\ UNCHANGED <<conn, closing, opening, holders, generation, refresh, handlers,
                   current, tasks, active, routes, lane>>

\* Mutant: the version table is forgotten.
RemoveTasksOnly(set) ==
    /\ Abort({t \in active : tasks[t].document \in set})
    /\ UNCHANGED current

\* remove_document for the documents whose last holder has left.
RemoveDocuments(set) ==
    /\ current' = [d \in Documents |-> IF d \in set THEN Absent ELSE current[d]]
    /\ Abort({t \in active : tasks[t].document \in set})

\* CloseDocument: the workspace releases the access first ...
CloseDocument(c, d) ==
    /\ Idle(c)
    /\ c \in routes[d]
    /\ holders' = [holders EXCEPT ![d] = @ \ {c}]
    /\ closing' = [closing EXCEPT ![c] = {d}]
    /\ UNCHANGED <<conn, opening, version, generation, refresh, handlers, current,
                   tasks, active, routes, lane>>

\* ... then the route goes, and the final holder tears the document down.
FinishClose(c, d) ==
    /\ d \in closing[c]
    /\ conn[c] = "on"
    /\ closing' = [closing EXCEPT ![c] = {}]
    /\ routes' = [routes EXCEPT ![d] = @ \ {c}]
    /\ RemoveDocuments(IF holders[d] = {} THEN {d} ELSE {})
    /\ UNCHANGED <<conn, opening, holders, version, generation, refresh, handlers, lane>>

\* Mutant: the routes are left in place.
DisconnectKeepsRoutes(c) ==
    /\ Between(c)
    /\ conn' = [conn EXCEPT ![c] = "leaving"]
    /\ lane' = [lane EXCEPT ![c] = <<>>]
    /\ UNCHANGED <<closing, opening, holders, version, generation, refresh,
                   handlers, current, tasks, active, routes>>

\* A lost connection or a failed write: the subscriptions are dropped with the
\* connection's handler (unsubscribe_client), before its access is released.
Disconnect(c) ==
    /\ Between(c)
    /\ conn' = [conn EXCEPT ![c] = "leaving"]
    /\ routes' = [d \in Documents |-> routes[d] \ {c}]
    /\ lane' = [lane EXCEPT ![c] = <<>>]
    /\ UNCHANGED <<closing, opening, holders, version, generation, refresh, handlers,
                   current, tasks, active>>

\* cleanup_connection_documents: every access is released under the workspace
\* lock; the documents that lost their last holder are torn down.
CleanUpConnection(c) ==
    /\ conn[c] = "leaving"
    /\ conn' = [conn EXCEPT ![c] = "gone"]
    /\ holders' = [d \in Documents |-> holders[d] \ {c}]
    /\ RemoveDocuments({d \in Documents : holders[d] = {c}})
    /\ UNCHANGED <<closing, opening, version, generation, refresh, handlers, routes, lane>>

\* The connection writes the oldest waiting update to its client.
DrainLane(c) ==
    /\ conn[c] = "on"
    /\ lane[c] # <<>>
    /\ lane' = [lane EXCEPT ![c] = Tail(@)]
    /\ UNCHANGED <<conn, closing, opening, holders, version, generation, refresh,
                   handlers, current, tasks, active, routes>>

-----------------------------------------------------------------------------
(* Handlers and generations.                                               *)

\* register_handler_meta: work of another generation under the key is aborted,
\* older or newer.  A duplicate of the same generation is refused, which changes
\* nothing, or replaces the handler.
Register(k, g) ==
    /\ handlers' = [handlers EXCEPT ![k] = g]
    /\ Abort({t \in active : tasks[t].handler = k /\ tasks[t].generation # g})

\* classify_open_document: the handler of the document's mode, if it has one.
ActivateMode(c, k) ==
    /\ opening[c] # Absent
    /\ Register(k, opening[c])
    /\ opening' = [opening EXCEPT ![c] = Absent]
    /\ UNCHANGED <<conn, closing, holders, version, generation, refresh,
                   current, routes, lane>>

NoMode(c) ==
    /\ opening[c] # Absent
    /\ opening' = [opening EXCEPT ![c] = Absent]
    /\ UNCHANGED <<conn, closing, holders, version, generation, refresh,
                   handlers, current, tasks, active, routes, lane>>

\* The same for a document that the reload refreshes.
ReactivateMode(k) ==
    /\ refresh # {}
    /\ Register(k, generation)
    /\ UNCHANGED <<conn, closing, opening, holders, version, generation,
                   refresh, current, routes, lane>>

\* commit_runtime_generation: some handlers are registered again for the next
\* generation, then cancel_older_generations drops what is older.  The reload
\* goes on to refresh the documents it found open when it began.
CommitGeneration(kept) ==
    /\ generation < MaxGeneration
    /\ refresh = {}
    /\ generation' = generation + 1
    /\ handlers' = [k \in HandlerKey |-> IF k \in kept THEN generation + 1 ELSE Absent]
    /\ Abort({t \in active : tasks[t].generation <= generation})
    /\ refresh' = {<<d, version[d]>> : d \in {x \in Documents : holders[x] # {}}}
    /\ UNCHANGED <<conn, closing, opening, holders, version, current, routes, lane>>

\* cancel_package: a package's handlers and work are withdrawn.
CancelPackage(p) ==
    /\ \E k \in HandlerKey : k[1] = p /\ handlers[k] # Absent
    /\ handlers' = [k \in HandlerKey |-> IF k[1] = p THEN Absent ELSE handlers[k]]
    /\ Abort({t \in active : tasks[t].handler[1] = p})
    /\ UNCHANGED <<conn, closing, opening, holders, version, generation, refresh,
                   current, routes, lane>>

-----------------------------------------------------------------------------
(* Scheduling: two critical sections.                                      *)

Request(k, d, w, v, by) ==
    [generation |-> handlers[k], document |-> d, handler |-> k, window |-> w,
     version |-> v, by |-> by, phase |-> "scheduled", aborted |-> FALSE,
     late |-> FALSE]

Coalesced(req) == \E a \in EntryOf(req) : tasks[a].version = req.version
StaleRequest(req) == current[req.document] > req.version

Superseded(req) ==
    {a \in active : /\ tasks[a].generation = req.generation
                    /\ tasks[a].document = req.document
                    /\ tasks[a].handler = req.handler
                    /\ \/ SameKey(tasks[a], req)
                       \/ tasks[a].version < req.version}

\* First section of schedule_parse_with_windows: the version becomes the
\* document's current one and superseded work is aborted.  A coalesced or a
\* stale request changes nothing, so it is no step.
Schedule(req, t) ==
    /\ ~Running(t)
    /\ ~Coalesced(req)
    /\ ~StaleRequest(req)
    /\ current' = [current EXCEPT ![req.document] = req.version]
    /\ active' = active \ Superseded(req)
    /\ tasks' = [x \in Tasks |->
                    IF x = t THEN req
                    ELSE IF x \in Superseded(req)
                         THEN [tasks[x] EXCEPT !.aborted = TRUE]
                         ELSE tasks[x]]

\* A connection asks for a version that it read earlier, of a document it holds.
ScheduleParse(c, k, d, w, v, t) ==
    /\ Idle(c)
    /\ c \in holders[d]
    /\ v <= version[d]
    /\ handlers[k] # Absent
    /\ Schedule(Request(k, d, w, v, c), t)
    /\ UNCHANGED <<conn, closing, opening, holders, version, generation, refresh,
                   handlers, routes, lane>>

\* refresh_open_documents_after_reload: the snapshot's version, open or not.
RefreshDocument(k, d, w, v, t) ==
    /\ <<d, v>> \in refresh
    /\ refresh' = refresh \ {<<d, v>>}
    /\ handlers[k] # Absent
    /\ Schedule(Request(k, d, w, v, "reload"), t)
    /\ UNCHANGED <<conn, closing, opening, holders, version, generation, handlers,
                   routes, lane>>

\* The refresh of a document with no mode, or with a stale version, is skipped.
SkipRefresh(d, v) ==
    /\ <<d, v>> \in refresh
    /\ refresh' = refresh \ {<<d, v>>}
    /\ UNCHANGED <<conn, closing, opening, holders, version, generation, handlers,
                   current, tasks, active, routes, lane>>

\* Second section: the entry is installed, whatever was there is forgotten,
\* and the start gate opens.
InstallTask(t) ==
    /\ Running(t) /\ tasks[t].phase = "scheduled"
    /\ active' = (active \ EntryOf(tasks[t])) \cup {t}
    /\ tasks' = [tasks EXCEPT ![t].phase = "parsing"]
    /\ UNCHANGED <<conn, closing, opening, holders, version, generation, refresh,
                   handlers, current, routes, lane>>

-----------------------------------------------------------------------------
(* Finishing: finish_task takes the lock up to four times.                 *)

TaskStep(t, from) == Running(t) /\ tasks[t].phase = from
MoveTo(t, to) == tasks' = [tasks EXCEPT ![t].phase = to]
OnlyTasks ==
    UNCHANGED <<conn, closing, opening, holders, version, generation, refresh, handlers,
                current, active, routes, lane>>

\* An aborted future is dropped at its next poll ...
DropAborted(t) ==
    /\ TaskStep(t, "parsing")
    /\ tasks[t].aborted
    /\ tasks' = [tasks EXCEPT ![t] = Free]
    /\ OnlyTasks

Replaced(t) == current[tasks[t].document] > tasks[t].version

\* ... unless this is its last poll: the handler returns, well or not.
HandlerReturns(t) ==
    /\ TaskStep(t, "parsing")
    /\ tasks' = [tasks EXCEPT ![t].phase = "returned", ![t].late = Replaced(t)]
    /\ OnlyTasks

\* The first check: is there an entry under the key, with this version?
HasEntry(t) == \E a \in EntryOf(tasks[t]) : tasks[a].version = tasks[t].version

CheckEntry(t) ==
    /\ TaskStep(t, "returned")
    /\ IF HasEntry(t)
       THEN \E to \in {"registered", "failed"} : MoveTo(t, to)
       ELSE tasks' = [tasks EXCEPT ![t] = Free]
    /\ OnlyTasks

\* validate_task_generation.
CheckGeneration(t) ==
    /\ TaskStep(t, "registered")
    /\ MoveTo(t, IF handlers[tasks[t].handler] = tasks[t].generation
                 THEN "fresh" ELSE "stale")
    /\ OnlyTasks

\* Mutant: any version is accepted.
AnyVersion(t) == TRUE

\* validate_update: an untracked document counts as current; a malformed or
\* oversized update is rejected.
IsCurrent(t) == current[tasks[t].document] \in {Absent, tasks[t].version}

CheckVersion(t) ==
    /\ TaskStep(t, "fresh")
    /\ IF IsCurrent(t)
       THEN \E to \in {"valid", "failed"} : MoveTo(t, to)
       ELSE MoveTo(t, "stale")
    /\ OnlyTasks

\* Mutant: the entry is left in the table.
SettleKeepsEntry(t) ==
    /\ tasks' = [tasks EXCEPT ![t] = Free]
    /\ UNCHANGED <<conn, closing, opening, holders, version, generation,
                   refresh, handlers, current, active, routes>>

\* The last section removes the entry under the task's key.
Settle(t) ==
    /\ active' = active \ EntryOf(tasks[t])
    /\ tasks' = [tasks EXCEPT ![t] = Free]
    /\ UNCHANGED <<conn, closing, opening, holders, version, generation, refresh,
                   handlers, current, routes>>

\* Mutant: the lane is not bounded.
RoutedUnbounded(d, upd) ==
    [c \in Clients |-> IF c \in routes[d] THEN Append(lane[c], upd) ELSE lane[c]]

\* route_document: a full lane drops the update.
Routed(d, upd) ==
    [c \in Clients |-> IF c \in routes[d] /\ Len(lane[c]) < Capacity
                       THEN Append(lane[c], upd) ELSE lane[c]]

Publish(t) ==
    /\ TaskStep(t, "valid")
    /\ lane' = Routed(tasks[t].document,
                      [document |-> tasks[t].document, version |-> tasks[t].version])
    /\ Settle(t)

\* A stale result is counted; a failed one is also broadcast as a diagnostic.
Reject(t) ==
    /\ TaskStep(t, "stale") \/ TaskStep(t, "failed")
    /\ UNCHANGED lane
    /\ Settle(t)

-----------------------------------------------------------------------------
ClientNext ==
    \E c \in Clients :
        \/ Connect(c) \/ Disconnect(c) \/ CleanUpConnection(c) \/ DrainLane(c)
        \/ \E d \in Documents :
               \/ OpenDocument(c, d) \/ SubscribeDocument(c, d) \/ Edit(c, d)
               \/ CloseDocument(c, d) \/ FinishClose(c, d)

RuntimeNext ==
    \/ \E c \in Clients : NoMode(c) \/ \E k \in HandlerKey : ActivateMode(c, k)
    \/ \E k \in HandlerKey : ReactivateMode(k)
    \/ \E kept \in SUBSET HandlerKey : CommitGeneration(kept)
    \/ \E p \in Packages : CancelPackage(p)
    \/ \E d \in Documents, v \in Versions : SkipRefresh(d, v)

ScheduleNext ==
    \E t \in Tasks, k \in HandlerKey, d \in Documents, w \in Windows, v \in Versions :
        \/ \E c \in Clients : ScheduleParse(c, k, d, w, v, t)
        \/ RefreshDocument(k, d, w, v, t)

TaskNext ==
    \E t \in Tasks :
        \/ InstallTask(t) \/ DropAborted(t) \/ HandlerReturns(t) \/ CheckEntry(t)
        \/ CheckGeneration(t) \/ CheckVersion(t) \/ Publish(t) \/ Reject(t)

Next == ClientNext \/ RuntimeNext \/ ScheduleNext \/ TaskNext

Spec == Init /\ [][Next]_vars

-----------------------------------------------------------------------------
(* Properties.                                                             *)

\* An entry of active_tasks always belongs to a future that will still settle
\* it, so a request that is coalesced with it is answered: no path of
\* schedule_parse_with_windows, abort_tasks or finish_task leaves an entry
\* behind whose future is gone.
EntriesAreAlive ==
    \A t \in active : Running(t) /\ ~tasks[t].aborted /\ tasks[t].phase # "scheduled"

\* Parse output goes only to connections that hold the document: a route
\* outlives the access only until the same close has withdrawn it.
RoutesFollowAccess ==
    \A d \in Documents, c \in Clients :
        c \in routes[d] => conn[c] = "on" /\ (c \in holders[d] \/ d \in closing[c])

\* The documents whose last holder has left and been cleaned up.
Closed(d) ==
    /\ version[d] # Absent
    /\ holders[d] = {}
    /\ \A c \in Clients : d \notin closing[c]

\* The final close or disconnect removes a document's task and version state
\* for good, whatever edits and parses of it were under way.  Only a reload that
\* listed the document before brings them back: hence the first generation.
ClosedDocumentsAreForgotten ==
    generation = 1 =>
        \A d \in Documents :
            Closed(d) => /\ current[d] = Absent
                         /\ \A t \in active : tasks[t].document # d

\* A result that a newer version had replaced before its handler returned
\* reaches no client that has the document open.  Superseding aborts the work of
\* one handler only; what it leaves running has to be caught by the two checks of
\* finish_task, through closes, reloads and entries that change hands meanwhile.
\* (A client in the middle of its own close may still get it: the last holder's
\* teardown makes an untracked document count as current.)
\* The documentation says more, that results publish only if version and
\* generation still match (persistent-runtime-hot-reload.md).  That is not
\* claimed: finish_task publishes after its last check, and an edit or a reload
\* in between makes the published result stale.
ReplacedWorkReachesNoHolder ==
    [][\A t \in Tasks :
           Publish(t) /\ tasks[t].late
               => \A c \in holders[tasks[t].document] : lane'[c] = lane[c]]_vars
=============================================================================
