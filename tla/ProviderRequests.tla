-------------------------- MODULE ProviderRequests --------------------------
(***************************************************************************)
(* Completion and language-intelligence requests for one document: the     *)
(* pane that makes them and shows the answers in its menu, the connection  *)
(* handler, and the server's two coordinators (src/server/completion.rs    *)
(* and language_intelligence.rs), which run a package's provider in a task *)
(* of its own.                                                             *)
(*                                                                         *)
(* The lane "completion" stands for the one, "intelligence" for the other, *)
(* with one feature.  One client holds the lease and edits; the others     *)
(* keep the version at which they opened the document.  A text is the      *)
(* number of the changes made to it.  Rejected edits, payloads and the     *)
(* contents of results are left out.                                       *)
(***************************************************************************)
EXTENDS Integers, Sequences, FiniteSets, FiniteSetsExt

CONSTANTS
    Writer, Readers,   \* the clients
    Lanes,             \* the coordinators in use
    MaxRequests,       \* bound: requests made
    MaxChanges,        \* bound: edits and reloads of the runtime
    LaneCapacity,      \* CONNECTION_RESULT_LANE_CAPACITY
    MaxOutstanding     \* LANGUAGE_INTELLIGENCE_MAX_OUTSTANDING_REQUESTS

Clients == {Writer} \union Readers

ASSUME ProviderConstants ==
    /\ Writer \notin Readers
    /\ Lanes \subseteq {"completion", "intelligence"}
    /\ {MaxRequests, MaxChanges} \subseteq Nat
    /\ {LaneCapacity, MaxOutstanding} \subseteq Nat \ {0}

VARIABLES
    version,      \* the server's version of the document
    committed,    \* the committed runtime generation
    registered,   \* lane -> generation of the package's provider, or 0
    current,      \* lane -> current_versions and current_generations, 0: none
    active,       \* lane -> active_tasks: the entries, each naming its task
    requests,     \* every request made, in order, with its task and its reply
    handler,      \* client -> where its connection handler stands
    toServer, toClient,  \* client -> messages on their way
    results,      \* client -> lane -> the connection's bounded result lane
    pane,         \* client -> what it shows and waits for
    edits         \* edits made so far

coordinators == <<registered, current, active>>
vars == <<version, committed, coordinators, requests, handler, toServer,
          toClient, results, pane, edits>>

Requests == DOMAIN requests
None == 0

\* The changes begun: a reload is one as soon as it registers a candidate.
MayReload == edits + committed <= MaxChanges
MayEdit == edits + Max({committed} \union {registered[l] : l \in Lanes})
               <= MaxChanges
Idle == [at |-> "idle"]
NoMenu == [request |-> None]

Init ==
    /\ version = 1
    /\ committed = 1
    /\ registered = [l \in Lanes |-> 1]
    /\ current = [l \in Lanes |-> [version |-> 0, generation |-> 0]]
    /\ active = [l \in Lanes |-> {}]
    /\ requests = <<>>
    /\ handler = [c \in Clients |-> Idle]
    /\ toServer = [c \in Clients |-> <<>>]
    /\ toClient = [c \in Clients |-> <<>>]
    /\ results = [c \in Clients |-> [l \in Lanes |-> <<>>]]
    /\ pane = [c \in Clients |->
           [confirmed |-> 1, pending |-> 0, text |-> 1,
            waiting |-> [l \in Lanes |-> None], menu |-> NoMenu]]
    /\ edits = 0

-----------------------------------------------------------------------------
(* The pane                                                                *)

optimistic_version(p) == p.confirmed + p.pending

\* Mutant: pending edits are not counted.
StampConfirmed(l, p) == p.confirmed

\* The version a request names: that of the text with its pending edits for a
\* completion, the last confirmed one for language intelligence.
Stamp(l, p) ==
    IF l = "completion" THEN optimistic_version(p) ELSE p.confirmed

Waiting(p, l, r) == [p EXCEPT !.waiting[l] = r]

\* Mutant: the requests in flight stay.
StillWaiting(p) == p

clear_active(p) == [p EXCEPT !.waiting = [l \in Lanes |-> None]]
Edited(p) == [p EXCEPT !.pending = @ + 1, !.text = @ + 1]

NextRequest == Len(requests) + 1
NewRequest(c, l, p) ==
    [client |-> c, lane |-> l, version |-> Stamp(l, p), text |-> p.text,
     generation |-> 0, task |-> "none", aborted |-> FALSE, reply |-> "none",
     answer |-> "none"]

\* Enqueue a request for the state p of the pane.
Ask(c, l, p, messages) ==
    /\ NextRequest <= MaxRequests
    /\ requests' = Append(requests, NewRequest(c, l, p))
    /\ toServer' = [toServer EXCEPT ![c] =
           @ \o messages \o <<[kind |-> "request", request |-> NextRequest]>>]
    /\ pane' = [pane EXCEPT ![c] = Waiting(p, l, NextRequest)]

\* A manual trigger, or a command such as hover.
Trigger(c, l) ==
    /\ Ask(c, l, pane[c], <<>>)
    /\ UNCHANGED <<version, committed, coordinators, handler, toClient,
                   results, edits>>

EditMessage == [kind |-> "edit"]

\* A character that asks for a completion: the menu and a request for language
\* intelligence stay.
TypeWord ==
    /\ MayEdit
    /\ "completion" \in Lanes
    /\ edits' = edits + 1
    /\ Ask(Writer, "completion", Edited(pane[Writer]), <<EditMessage>>)
    /\ UNCHANGED <<version, committed, coordinators, handler, toClient,
                   results>>

Change(p) ==
    /\ MayEdit
    /\ edits' = edits + 1
    /\ pane' = [pane EXCEPT ![Writer] = Edited(p)]
    /\ toServer' = [toServer EXCEPT ![Writer] = Append(@, EditMessage)]
    /\ UNCHANGED <<version, committed, coordinators, requests, handler,
                   toClient, results>>

\* Any other edit ends what is asked and shown.
TypeOther == Change([clear_active(pane[Writer]) EXCEPT !.menu = NoMenu])

\* accept_completion_with_event, and the menu closes.
CanAccept(p) ==
    /\ p.menu # NoMenu
    /\ requests[p.menu.request].lane = "completion"
    /\ p.menu.version = p.confirmed

Accept ==
    /\ CanAccept(pane[Writer])
    /\ Change([clear_active(pane[Writer]) EXCEPT !.menu = NoMenu])

\* Escape
Dismiss(c) ==
    /\ pane[c].menu # NoMenu
    /\ pane' = [pane EXCEPT ![c] = [clear_active(@) EXCEPT !.menu = NoMenu]]
    /\ UNCHANGED <<version, committed, coordinators, requests, handler,
                   toServer, toClient, results, edits>>

\* An acknowledgement confirms a version.
ReceiveAck(c) ==
    /\ toClient[c] # <<>>
    /\ Head(toClient[c]).kind = "ack"
    /\ pane' = [pane EXCEPT ![c].confirmed = Head(toClient[c]).version,
                            ![c].pending = @ - 1]
    /\ toClient' = [toClient EXCEPT ![c] = Tail(@)]
    /\ UNCHANGED <<version, committed, coordinators, requests, handler,
                   toServer, results, edits>>

\* apply_completion_result, apply_language_intelligence_result
Shows(p, r) ==
    /\ p.waiting[requests[r].lane] = r
    /\ requests[r].version = p.confirmed

ReceiveResult(c) ==
    LET r == Head(toClient[c]).request
    IN  /\ toClient[c] # <<>>
        /\ Head(toClient[c]).kind = "result"
        /\ pane' = [pane EXCEPT ![c].menu =
               IF Shows(pane[c], r)
               THEN [request |-> r, version |-> requests[r].version]
               ELSE @]
        /\ toClient' = [toClient EXCEPT ![c] = Tail(@)]
        /\ UNCHANGED <<version, committed, coordinators, requests, handler,
                       toServer, results, edits>>

-----------------------------------------------------------------------------
(* The coordinator.  An entry is keyed by generation and client.           *)

Entry(r) == [generation |-> requests[r].generation,
             client |-> requests[r].client, task |-> r]
SameKey(e, f) == e.generation = f.generation /\ e.client = f.client

\* The requests with the tasks of the entries `gone` aborted.
Aborting(reqs, gone) ==
    [r \in DOMAIN reqs |->
        IF \E e \in gone : e.task = r THEN [reqs[r] EXCEPT !.aborted = TRUE]
                                      ELSE reqs[r]]

\* document_changed of both coordinators after an accepted edit.
Serving(c, kind) ==
    /\ handler[c] = Idle
    /\ toServer[c] # <<>>
    /\ Head(toServer[c]).kind = kind
    /\ toServer' = [toServer EXCEPT ![c] = Tail(@)]

AcceptEdit(c) ==
    /\ Serving(c, "edit")
    /\ version' = version + 1
    /\ current' = [l \in Lanes |-> [current[l] EXCEPT !.version = version']]
    /\ requests' = Aborting(requests, UNION {active[l] : l \in Lanes})
    /\ active' = [l \in Lanes |-> {}]
    /\ toClient' = [toClient EXCEPT ![c] =
           Append(@, [kind |-> "ack", version |-> version'])]
    /\ UNCHANGED <<committed, registered, handler, results, pane, edits>>

\* An answer written to the stream at once: the static fallback, or an empty
\* or failed language-intelligence result.
Answer(c, r, how) ==
    /\ requests' = [requests EXCEPT ![r].answer = how]
    /\ toClient' = [toClient EXCEPT ![c] =
           Append(@, [kind |-> "result", request |-> r])]

\* The handler of a completion request looks for a provider and remembers its
\* generation; it asks the coordinator to run it afterwards.
ChooseProvider(c) ==
    LET r == Head(toServer[c]).request
        generation == registered["completion"]
    IN  /\ Serving(c, "request")
        /\ requests[r].lane = "completion"
        /\ IF generation = 0
           THEN /\ Answer(c, r, "fallback")
                /\ UNCHANGED handler
           ELSE /\ requests' = [requests EXCEPT ![r].generation = generation]
                /\ handler' = [handler EXCEPT ![c] =
                       [at |-> "chosen", request |-> r]]
                /\ UNCHANGED toClient
        /\ UNCHANGED <<version, committed, coordinators, results, pane, edits>>

\* Supersede what the client still has running, track the request's version,
\* and spawn the task; its entry is inserted under a second lock.
Scheduled(c, r, generation) ==
    LET l == requests[r].lane
        superseded == {e \in active[l] : e.client = c}
    IN  /\ current' = [current EXCEPT
               ![l].version = requests[r].version,
               ![l].generation = Max({@, generation})]
        /\ active' = [active EXCEPT ![l] = @ \ superseded]
        /\ requests' = [Aborting(requests, superseded) EXCEPT
               ![r].generation = generation,
               ![r].task = "running",
               ![r].reply = "open"]
        /\ handler' = [handler EXCEPT ![c] = [at |-> "spawned", request |-> r]]

schedule_completion(c) ==
    LET r == handler[c].request
    IN  /\ handler[c].at = "chosen"
        /\ IF registered["completion"] = 0
           THEN /\ Answer(c, r, "fallback")
                /\ handler' = [handler EXCEPT ![c] = Idle]
                /\ UNCHANGED <<current, active>>
           ELSE /\ Scheduled(c, r, requests[r].generation)
                /\ UNCHANGED toClient
        /\ UNCHANGED <<version, committed, registered, toServer, results, pane,
                       edits>>

AtLimit == Cardinality(active["intelligence"]) >= MaxOutstanding

schedule(c) ==
    LET r == Head(toServer[c]).request
    IN  /\ Serving(c, "request")
        /\ requests[r].lane = "intelligence"
        /\ IF AtLimit \/ registered["intelligence"] = 0
           THEN /\ Answer(c, r, "status")
                /\ UNCHANGED <<current, active, handler>>
           ELSE /\ Scheduled(c, r, registered["intelligence"])
                /\ UNCHANGED toClient
        /\ UNCHANGED <<version, committed, registered, results, pane, edits>>

InsertTask(c) ==
    LET r == handler[c].request
        l == requests[r].lane
    IN  /\ handler[c].at = "spawned"
        /\ active' = [active EXCEPT ![l] =
               {e \in @ : ~SameKey(e, Entry(r))} \union {Entry(r)}]
        /\ handler' = [handler EXCEPT ![c] = Idle]
        /\ UNCHANGED <<version, committed, registered, current, requests,
                       toServer, toClient, results, pane, edits>>

\* A reload registers the providers that the new generation still has, and
\* commits: cancel_older_generations.
RegisterCandidate(l) ==
    /\ MayReload
    /\ registered[l] <= committed
    /\ registered' = [registered EXCEPT ![l] = committed + 1]
    /\ UNCHANGED <<version, committed, current, active, requests, handler,
                   toServer, toClient, results, pane, edits>>

CommitGeneration ==
    LET g == committed + 1
        older(l) == {e \in active[l] : e.generation < g}
    IN  /\ MayReload
        /\ committed' = g
        /\ registered' = [l \in Lanes |->
               IF registered[l] < g THEN 0 ELSE registered[l]]
        /\ requests' = Aborting(requests, UNION {older(l) : l \in Lanes})
        /\ active' = [l \in Lanes |-> active[l] \ older(l)]
        /\ current' = [l \in Lanes |->
               IF current[l].generation = 0 THEN current[l]
               ELSE [current[l] EXCEPT !.generation = Max({@, g})]]
        /\ UNCHANGED <<version, handler, toServer, toClient, results, pane,
                       edits>>

-----------------------------------------------------------------------------
(* A provider's task and the one that waits for its reply                  *)

Task(r, from, to) ==
    /\ requests[r].task = from
    /\ requests' = [requests EXCEPT ![r].task = to]

ServerOnly == UNCHANGED <<version, committed, registered, handler, toServer,
                          toClient, pane, edits>>

\* The provider returns a result, or fails or exceeds its time.
ProviderReturns(r) ==
    /\ Task(r, "running", "returned") \/ Task(r, "running", "failed")
    /\ UNCHANGED <<current, active, results>> /\ ServerOnly

\* An aborted task is dropped where it waits, and its half of the reply with it.
DropTask(r) ==
    /\ requests[r].task = "running"
    /\ requests[r].aborted
    /\ requests' = [requests EXCEPT
           ![r].task = "ended", ![r].reply = IF @ = "open" THEN "closed" ELSE @]
    /\ UNCHANGED <<current, active, results>> /\ ServerOnly

\* finish_task: validate_task_freshness
CheckFreshness(r) ==
    LET fresh == current[requests[r].lane].generation
                     \in {0, requests[r].generation}
    IN  /\ Task(r, "returned", IF fresh THEN "fresh" ELSE "stale")
        /\ UNCHANGED <<current, active, results>> /\ ServerOnly

Tracked(r) == current[requests[r].lane]

\* finish_task: validate_result
CheckResult(r) ==
    LET ok == /\ Tracked(r).generation \in {0, requests[r].generation}
              /\ Tracked(r).version \in {0, requests[r].version}
    IN  /\ Task(r, "fresh", IF ok THEN "valid" ELSE "stale")
        /\ UNCHANGED <<current, active, results>> /\ ServerOnly

\* What finish_task sends: a valid result, or the status of a failure of
\* language intelligence; otherwise the reply is dropped.
Replied(r) ==
    \/ requests[r].task = "valid"
    \/ requests[r].task = "failed" /\ requests[r].lane = "intelligence"

\* finish_task removes whatever entry has the task's key.
Finish(r) ==
    /\ requests[r].task \in {"failed", "stale", "valid"}
    /\ active' = [active EXCEPT ![requests[r].lane] =
           {e \in @ : ~SameKey(e, Entry(r))}]
    /\ requests' = [requests EXCEPT
           ![r].task = "ended",
           ![r].reply = IF @ # "open" THEN @
                        ELSE IF Replied(r) THEN "sent" ELSE "closed"]
    /\ UNCHANGED <<current, results>> /\ ServerOnly

\* Mutant: the lane is not bounded.
DeliverAlways(r, how) ==
    /\ requests' = [requests EXCEPT ![r].reply = "taken", ![r].answer = how]
    /\ results' = [results EXCEPT
           ![requests[r].client][requests[r].lane] = Append(@, r)]

\* A result enters the connection's lane, or is dropped when that is full.
Deliver(r, how) ==
    LET c == requests[r].client
        l == requests[r].lane
        room == Len(results[c][l]) < LaneCapacity
    IN  /\ requests' = [requests EXCEPT
               ![r].reply = "taken", ![r].answer = IF room THEN how ELSE "lost"]
        /\ results' = IF room THEN [results EXCEPT ![c][l] = Append(@, r)]
                              ELSE results

\* Mutant: only a result ends the wait.
AwaitResult(r) ==
    /\ requests[r].reply = "sent"
    /\ Deliver(r, "result")
    /\ UNCHANGED <<current, active>> /\ ServerOnly

\* The waiting task takes the reply.  A completion that was cancelled, failed
\* or timed out is answered with the fallback; for language intelligence a
\* dropped reply is silence.
Await(r) ==
    /\ \/ requests[r].reply = "sent" /\ Deliver(r, "result")
       \/ /\ requests[r].lane = "completion"
          /\ requests[r].reply \in {"open", "closed"}
          /\ Deliver(r, "fallback")
       \/ /\ requests[r].lane = "intelligence"
          /\ requests[r].reply = "closed"
          /\ requests' = [requests EXCEPT ![r].reply = "taken",
                                          ![r].answer = "silent"]
          /\ UNCHANGED results
    /\ UNCHANGED <<current, active>> /\ ServerOnly

\* The handler writes the next result of a lane to the stream.
Drain(c, l) ==
    /\ handler[c] = Idle
    /\ results[c][l] # <<>>
    /\ results' = [results EXCEPT ![c][l] = Tail(@)]
    /\ toClient' = [toClient EXCEPT ![c] =
           Append(@, [kind |-> "result", request |-> Head(results[c][l])])]
    /\ UNCHANGED <<version, committed, coordinators, requests, handler,
                   toServer, pane, edits>>

-----------------------------------------------------------------------------
HandlerStep(c) ==
    \/ AcceptEdit(c) \/ ChooseProvider(c) \/ schedule_completion(c)
    \/ schedule(c) \/ InsertTask(c)

TaskStep(r) ==
    \/ ProviderReturns(r) \/ DropTask(r) \/ CheckFreshness(r)
    \/ CheckResult(r) \/ Finish(r)

PaneStep(c) == ReceiveAck(c) \/ ReceiveResult(c)

Next ==
    \/ \E c \in Clients :
           \/ HandlerStep(c) \/ PaneStep(c) \/ Dismiss(c)
           \/ \E l \in Lanes : Trigger(c, l) \/ Drain(c, l)
    \/ \E r \in Requests : TaskStep(r) \/ Await(r)
    \/ TypeWord \/ TypeOther \/ Accept
    \/ CommitGeneration \/ \E l \in Lanes : RegisterCandidate(l)

Spec == Init /\ [][Next]_vars

\* The runtime runs the handlers and tasks, providers end (or their timeout
\* does), and the event loop hands the panes what arrives.
Fairness ==
    /\ \A c \in Clients :
           /\ WF_vars(HandlerStep(c))
           /\ WF_vars(PaneStep(c))
           /\ \A l \in Lanes : WF_vars(Drain(c, l))
    /\ \A r \in 1..MaxRequests :
           /\ WF_vars(r \in Requests /\ TaskStep(r))
           /\ WF_vars(r \in Requests /\ Await(r))

FairSpec == Spec /\ Fairness

-----------------------------------------------------------------------------
(* Properties                                                              *)

TypeOK ==
    /\ version \in 1..(MaxChanges + 1)
    /\ committed \in 1..(MaxChanges + 1)
    /\ \A l \in Lanes :
           /\ registered[l] \in 0..(MaxChanges + 1)
           /\ \A e \in active[l] : e.client \in Clients /\ e.task \in Requests
    /\ Len(requests) <= MaxRequests
    /\ \A c \in Clients :
           /\ pane[c].pending \in 0..MaxChanges
           /\ \A l \in Lanes : Len(results[c][l]) <= LaneCapacity
           /\ pane[c].menu.request \in Requests \union {None}

\* A completion menu is installed only for the text it was asked for: no edit
\* was made since the request, acknowledged or not (the pane's bookkeeping of
\* the request in flight and the version check together).
InstalledMenusFit ==
    [][\A c \in Clients :
           LET r == pane'[c].menu.request
           IN  (/\ r # None /\ pane'[c].menu # pane[c].menu
                /\ requests[r].lane = "completion")
                   => requests[r].text = pane[c].text]_vars

\* Every request is answered, with a result, the fallback or a status, unless
\* the client's lane was full: no cancellation, failure, timeout or reload
\* leaves a completion without an answer.
EveryRequestIsAnswered ==
    \A r \in 1..MaxRequests :
        (r \in Requests) ~> (r \in Requests /\ requests[r].answer # "none")

\* The answer to a completion that the pane still waits for is shown when it
\* arrives: the version that the request names is the one the pane then has.
WaitedFor(r) ==
    /\ r \in Requests
    /\ requests[r].lane = "completion"
    /\ pane[requests[r].client].waiting["completion"] = r
Underway(r) ==
    LET c == requests[r].client
    IN  \/ \E i \in DOMAIN results[c]["completion"] :
               results[c]["completion"][i] = r
        \/ \E i \in DOMAIN toClient[c] :
               toClient[c][i] = [kind |-> "result", request |-> r]
Shown(r) == pane[requests[r].client].menu.request = r
AnswersAreShown ==
    \A r \in 1..MaxRequests :
        (WaitedFor(r) /\ Underway(r)) ~> (~WaitedFor(r) \/ Shown(r))
=============================================================================
