----------------------- MODULE ParseCoordinatorProofs -----------------------
(***************************************************************************)
(* Theorems about ParseCoordinator, for any number of connections,         *)
(* documents, packages, modes, windows, tasks, versions and generations.   *)
(***************************************************************************)
EXTENDS ParseCoordinator, TLAPS

\* A task between the two sections of its scheduling has not been aborted:
\* aborts go through the table, and it is not there yet.
ScheduledAreUntouched ==
    \A t \in Tasks : tasks[t].phase = "scheduled" => ~tasks[t].aborted

\* A document that somebody holds has been opened.
HeldAreOpen == \A d \in Documents : holders[d] # {} => version[d] # Absent

TableInv == TypeOK /\ EntriesAreAlive /\ ScheduledAreUntouched /\ HeldAreOpen

-----------------------------------------------------------------------------
(* Records of tasks                                                        *)

\* A task that runs has a record; what is not free runs.
LEMMA RunningTasks ==
    ASSUME TypeOK, NEW t \in Tasks
    PROVE  /\ Running(t) <=> tasks[t] \in TaskRecord
           /\ ~Running(t) <=> tasks[t] = Free
<1>1. tasks[t] \in TaskRecord \cup {Free}
  BY DEF TypeOK
<1>2. Free.phase = "free"
  BY DEF Free
<1>3. \A r \in TaskRecord : r.phase # "free"
  BY DEF TaskRecord, Phase
<1> QED
  BY <1>1, <1>2, <1>3 DEF Running

\* What an abort does to a record.
LEMMA AbortedRecord ==
    ASSUME NEW r \in TaskRecord
    PROVE  LET a == [r EXCEPT !.aborted = TRUE]
           IN  /\ a \in TaskRecord
               /\ a.generation = r.generation /\ a.document = r.document
               /\ a.handler = r.handler /\ a.window = r.window
               /\ a.version = r.version /\ a.by = r.by
               /\ a.phase = r.phase /\ a.late = r.late
  BY DEF TaskRecord

\* The fields of the tasks that running on, aborting and superseding keep.
SameTask(t) ==
    /\ Running(t)' = Running(t)
    /\ Running(t) => /\ tasks'[t].phase = tasks[t].phase
                     /\ tasks'[t].document = tasks[t].document
                     /\ tasks'[t].version = tasks[t].version
                     /\ tasks'[t].by = tasks[t].by
                     /\ tasks'[t].late = tasks[t].late

\* abort_tasks, on entries of the table.
LEMMA AbortStep ==
    ASSUME TableInv, NEW set \in SUBSET active, Abort(set)
    PROVE  /\ tasks' \in [Tasks -> TaskRecord \cup {Free}]
           /\ active' \subseteq active
           /\ EntriesAreAlive' /\ ScheduledAreUntouched'
           /\ \A t \in Tasks : SameTask(t)
<1>1. \A t \in set : t \in Tasks /\ tasks[t] \in TaskRecord /\ tasks[t].phase # "scheduled"
  BY RunningTasks DEF TableInv, TypeOK, EntriesAreAlive
<1>2. ASSUME NEW t \in Tasks
      PROVE  /\ tasks'[t] \in TaskRecord \cup {Free}
             /\ SameTask(t)
             /\ t \notin set => tasks'[t] = tasks[t]
             /\ tasks'[t].phase = tasks[t].phase
  <2>1. CASE t \in set
    <3>1. tasks'[t] = [tasks[t] EXCEPT !.aborted = TRUE]
      BY <2>1 DEF Abort
    <3> QED
      BY <2>1, <3>1, <1>1, AbortedRecord DEF SameTask, Running
  <2>2. CASE t \notin set
    BY <2>2 DEF Abort, SameTask, Running, TableInv, TypeOK
  <2> QED
    BY <2>1, <2>2
<1>3. tasks' \in [Tasks -> TaskRecord \cup {Free}]
  BY <1>2 DEF Abort
<1>4. active' = active \ set
  BY DEF Abort
<1>5. EntriesAreAlive'
  BY <1>2, <1>4 DEF EntriesAreAlive, Running, TableInv, TypeOK
<1>6. ScheduledAreUntouched'
  BY <1>1, <1>2 DEF ScheduledAreUntouched, TableInv
<1> QED
  BY <1>2, <1>3, <1>4, <1>5, <1>6

\* A request names a handler that is registered.
LEMMA RequestType ==
    ASSUME TypeOK, NEW k \in HandlerKey, NEW d \in Documents, NEW w \in Windows,
           NEW v \in Versions, NEW by \in Caller, handlers[k] # Absent
    PROVE  /\ Request(k, d, w, v, by) \in TaskRecord
           /\ Request(k, d, w, v, by).phase = "scheduled"
           /\ ~Request(k, d, w, v, by).aborted
           /\ ~Request(k, d, w, v, by).late
           /\ Request(k, d, w, v, by).document = d
           /\ Request(k, d, w, v, by).version = v
           /\ Request(k, d, w, v, by).by = by
<1>1. handlers[k] \in Generations
  BY DEF TypeOK
<1> QED
  BY <1>1 DEF Request, TaskRecord, Phase

\* The first section of schedule_parse_with_windows.
LEMMA ScheduleStep ==
    ASSUME TableInv, NEW t \in Tasks, NEW req \in TaskRecord,
           req.phase = "scheduled", ~req.aborted, Schedule(req, t)
    PROVE  /\ tasks' \in [Tasks -> TaskRecord \cup {Free}]
           /\ active' \subseteq active
           /\ EntriesAreAlive' /\ ScheduledAreUntouched'
           /\ \A x \in Tasks \ {t} : SameTask(x)
           /\ tasks'[t] = req
           /\ current' = [current EXCEPT ![req.document] = req.version]
           /\ t \notin active
<1> DEFINE S == Superseded(req)
<1>1. S \subseteq active /\ t \notin active
  BY DEF Superseded, Schedule, TableInv, EntriesAreAlive
<1>2. \A x \in S : x \in Tasks /\ tasks[x] \in TaskRecord /\ tasks[x].phase # "scheduled"
  BY <1>1, RunningTasks DEF TableInv, TypeOK, EntriesAreAlive
<1>3. active' = active \ S /\ tasks'[t] = req
  BY DEF Schedule
<1> HIDE DEF S
<1>4. ASSUME NEW x \in Tasks, x # t
      PROVE  /\ tasks'[x] \in TaskRecord \cup {Free}
             /\ SameTask(x)
             /\ x \notin S => tasks'[x] = tasks[x]
             /\ tasks'[x].phase = tasks[x].phase
  <2>1. CASE x \in S
    <3>1. tasks'[x] = [tasks[x] EXCEPT !.aborted = TRUE]
      BY <2>1, <1>4 DEF Schedule, S
    <3> QED
      BY <2>1, <3>1, <1>2, AbortedRecord DEF SameTask, Running
  <2>2. CASE x \notin S
    <3>1. tasks'[x] = tasks[x]
      BY <2>2, <1>4 DEF Schedule, S
    <3> QED
      BY <3>1, <2>2 DEF SameTask, Running, TableInv, TypeOK
  <2> QED
    BY <2>1, <2>2
<1>5. tasks' \in [Tasks -> TaskRecord \cup {Free}]
  <2>1. \A x \in Tasks : tasks'[x] \in TaskRecord \cup {Free}
    BY <1>3, <1>4
  <2> QED
    BY <2>1 DEF Schedule
<1>6. EntriesAreAlive'
  BY <1>1, <1>3, <1>4 DEF EntriesAreAlive, Running, TableInv, TypeOK
<1>7. ScheduledAreUntouched'
  BY <1>2, <1>3, <1>4 DEF ScheduledAreUntouched, TableInv
<1> QED
  BY <1>1, <1>3, <1>4, <1>5, <1>6, <1>7 DEF Schedule

\* A task moves to a phase after its scheduling.
LEMMA MoveStep ==
    ASSUME TableInv, NEW t \in Tasks, Running(t), NEW p \in Phase \ {"scheduled"},
           NEW l \in BOOLEAN, active' = active,
           \/ tasks' = [tasks EXCEPT ![t].phase = p] /\ l = tasks[t].late
           \/ tasks' = [tasks EXCEPT ![t].phase = p, ![t].late = l],
           tasks[t].phase # "scheduled"
    PROVE  /\ tasks' \in [Tasks -> TaskRecord \cup {Free}]
           /\ EntriesAreAlive' /\ ScheduledAreUntouched'
           /\ \A x \in Tasks \ {t} : tasks'[x] = tasks[x]
           /\ Running(t)'
           /\ tasks'[t].phase = p /\ tasks'[t].late = l
           /\ tasks'[t].document = tasks[t].document
           /\ tasks'[t].version = tasks[t].version
           /\ tasks'[t].by = tasks[t].by
<1>1. tasks[t] \in TaskRecord /\ tasks \in [Tasks -> TaskRecord \cup {Free}]
  BY RunningTasks DEF TableInv, TypeOK
<1>2. /\ tasks'[t] \in TaskRecord
      /\ tasks'[t].phase = p /\ tasks'[t].late = l
      /\ tasks'[t].document = tasks[t].document
      /\ tasks'[t].version = tasks[t].version
      /\ tasks'[t].by = tasks[t].by
      /\ tasks'[t].aborted = tasks[t].aborted
  BY <1>1 DEF TaskRecord
<1>3. \A x \in Tasks \ {t} : tasks'[x] = tasks[x]
  BY <1>1
<1>4. tasks' \in [Tasks -> TaskRecord \cup {Free}]
  BY <1>1, <1>2, <1>3
<1>5. Running(t)'
  BY <1>2 DEF Running, Phase
<1>6. EntriesAreAlive'
  BY <1>2, <1>3, <1>5 DEF EntriesAreAlive, Running, TableInv, TypeOK
<1>7. ScheduledAreUntouched'
  BY <1>2, <1>3 DEF ScheduledAreUntouched, TableInv
<1> QED
  BY <1>2, <1>3, <1>4, <1>5, <1>6, <1>7

\* A future ends; its entry, if it has one, is gone.
LEMMA EndStep ==
    ASSUME TableInv, NEW t \in Tasks, NEW keep \in SUBSET active, t \notin keep,
           active' = keep, tasks' = [tasks EXCEPT ![t] = Free]
    PROVE  /\ tasks' \in [Tasks -> TaskRecord \cup {Free}]
           /\ EntriesAreAlive' /\ ScheduledAreUntouched'
           /\ \A x \in Tasks \ {t} : tasks'[x] = tasks[x]
           /\ ~Running(t)'
<1>1. tasks'[t] = Free /\ \A x \in Tasks \ {t} : tasks'[x] = tasks[x]
  BY DEF TableInv, TypeOK
<1>2. Free.phase = "free"
  BY DEF Free
<1> QED
  BY <1>1, <1>2 DEF EntriesAreAlive, ScheduledAreUntouched, Running, TableInv, TypeOK

-----------------------------------------------------------------------------
(* Types and the table                                                     *)

\* The clients' steps that leave the coordinator alone.
LEMMA ConnectionKeepsTable ==
    ASSUME TableInv, NEW c \in Clients,
           \/ Connect(c) \/ Disconnect(c) \/ DrainLane(c) \/ NoMode(c)
           \/ \E d \in Documents : \/ OpenDocument(c, d) \/ SubscribeDocument(c, d)
                                   \/ Edit(c, d) \/ CloseDocument(c, d)
    PROVE  TableInv'
<1>1. EntriesAreAlive' /\ ScheduledAreUntouched'
  BY DEF Connect, Disconnect, DrainLane, NoMode, OpenDocument, SubscribeDocument, Edit,
         CloseDocument, TableInv, EntriesAreAlive, ScheduledAreUntouched, Running
<1>5. HeldAreOpen'
  <2>1. CASE \E d \in Documents : OpenDocument(c, d)
    BY <2>1 DEF OpenDocument, TableInv, TypeOK, HeldAreOpen, Absent
  <2>2. CASE \E d \in Documents : Edit(c, d)
    BY <2>2 DEF Edit, TableInv, TypeOK, HeldAreOpen, Absent, Versions
  <2>3. CASE \E d \in Documents : CloseDocument(c, d)
    BY <2>3 DEF CloseDocument, TableInv, TypeOK, HeldAreOpen
  <2> QED
    BY <2>1, <2>2, <2>3 DEF Connect, Disconnect, DrainLane, NoMode, SubscribeDocument,
                            TableInv, HeldAreOpen
<1>2. CASE Connect(c) \/ NoMode(c)
  BY <1>1, <1>5, <1>2 DEF Connect, NoMode, TableInv, TypeOK
<1>3. CASE Disconnect(c) \/ DrainLane(c)
  <2>1. lane[c] \in Seq(Update) /\ Len(lane[c]) <= Capacity
    BY DEF TableInv, TypeOK
  <2>2. lane[c] # <<>> => Tail(lane[c]) \in Seq(Update) /\ Len(Tail(lane[c])) <= Capacity
    BY <2>1, ParseConstants
  <2>3. <<>> \in Seq(Update) /\ Len(<<>>) <= Capacity
    BY ParseConstants
  <2>4. lane' \in [Clients -> Seq(Update)] /\ \A x \in Clients : Len(lane'[x]) <= Capacity
    <3>1. lane \in [Clients -> Seq(Update)] /\ \A x \in Clients : Len(lane[x]) <= Capacity
      BY DEF TableInv, TypeOK
    <3>2. PICK q \in Seq(Update) : Len(q) <= Capacity /\ lane' = [lane EXCEPT ![c] = q]
      BY <1>3, <2>2, <2>3 DEF Disconnect, DrainLane
    <3> QED
      BY <3>1, <3>2
  <2>5. conn' \in [Clients -> {"new", "on", "leaving", "gone"}]
    BY <1>3 DEF Disconnect, DrainLane, TableInv, TypeOK
  <2>6. routes' \in [Documents -> SUBSET Clients]
    BY <1>3 DEF Disconnect, DrainLane, TableInv, TypeOK
  <2> QED
    BY <1>1, <1>5, <1>3, <2>4, <2>5, <2>6 DEF Disconnect, DrainLane, TableInv, TypeOK
<1>4. ASSUME NEW d \in Documents,
             OpenDocument(c, d) \/ SubscribeDocument(c, d) \/ Edit(c, d) \/ CloseDocument(c, d)
      PROVE  TableInv'
  <2>1. 1 \in Versions
    BY ParseConstants DEF Versions
  <2>2. CASE OpenDocument(c, d)
    BY <1>1, <1>5, <2>1, <2>2 DEF OpenDocument, TableInv, TypeOK
  <2>3. CASE SubscribeDocument(c, d)
    BY <1>1, <1>5, <2>3 DEF SubscribeDocument, TableInv, TypeOK
  <2>4. CASE Edit(c, d)
    <3>1. version[d] + 1 \in Versions
      <4>1. version[d] \in 0..MaxVersion
        BY ParseConstants DEF TableInv, TypeOK, Versions, Absent
      <4> QED
        BY <2>4, <4>1, ParseConstants DEF Edit, Versions
    <3> QED
      BY <1>1, <1>5, <2>4, <3>1 DEF Edit, TableInv, TypeOK
  <2>5. CASE CloseDocument(c, d)
    BY <1>1, <1>5, <2>5 DEF CloseDocument, TableInv, TypeOK
  <2> QED
    BY <1>4, <2>2, <2>3, <2>4, <2>5
<1> QED
  BY <1>2, <1>3, <1>4

\* The steps that abort entries of the table: closes, cleanups, registrations,
\* commits and the withdrawal of a package.
AbortingStep ==
    \/ \E c \in Clients : CleanUpConnection(c)
    \/ \E c \in Clients, d \in Documents : FinishClose(c, d)
    \/ \E c \in Clients, k \in HandlerKey : ActivateMode(c, k)
    \/ \E k \in HandlerKey : ReactivateMode(k)
    \/ \E kept \in SUBSET HandlerKey : CommitGeneration(kept)
    \/ \E p \in Packages : CancelPackage(p)

LEMMA AbortsKeepTable ==
    ASSUME TableInv, AbortingStep
    PROVE  /\ TableInv'
           /\ active' \subseteq active
           /\ \A t \in Tasks : SameTask(t)
<1>1. PICK set \in SUBSET active : Abort(set)
  BY DEF CleanUpConnection, FinishClose, RemoveDocuments, ActivateMode, ReactivateMode,
         Register, CommitGeneration, CancelPackage, AbortingStep
<1>2. /\ tasks' \in [Tasks -> TaskRecord \cup {Free}]
      /\ active' \subseteq active
      /\ EntriesAreAlive' /\ ScheduledAreUntouched'
      /\ \A t \in Tasks : SameTask(t)
  BY <1>1, AbortStep
<1>9. HeldAreOpen'
  <2>1. version' = version
    BY DEF CleanUpConnection, FinishClose, ActivateMode, ReactivateMode,
           CommitGeneration, CancelPackage, AbortingStep
  <2>2. CASE \E c \in Clients : CleanUpConnection(c)
    BY <2>1, <2>2 DEF CleanUpConnection, HeldAreOpen, TableInv
  <2>3. CASE UNCHANGED holders
    BY <2>1, <2>3 DEF HeldAreOpen, TableInv
  <2> QED
    BY <2>2, <2>3 DEF FinishClose, ActivateMode, ReactivateMode, CommitGeneration,
                      CancelPackage, AbortingStep
<1>3. ASSUME NEW c \in Clients, CleanUpConnection(c)
      PROVE  TableInv'
  BY <1>9, <1>2, <1>3 DEF CleanUpConnection, RemoveDocuments, TableInv, TypeOK
<1>4. ASSUME NEW c \in Clients, NEW d \in Documents, FinishClose(c, d)
      PROVE  TableInv'
  BY <1>9, <1>2, <1>4 DEF FinishClose, RemoveDocuments, TableInv, TypeOK
<1>5. ASSUME NEW c \in Clients, NEW k \in HandlerKey, ActivateMode(c, k)
      PROVE  TableInv'
  BY <1>9, <1>2, <1>5 DEF ActivateMode, Register, TableInv, TypeOK
<1>6. ASSUME NEW k \in HandlerKey, ReactivateMode(k)
      PROVE  TableInv'
  BY <1>9, <1>2, <1>6 DEF ReactivateMode, Register, TableInv, TypeOK
<1>7. ASSUME NEW kept \in SUBSET HandlerKey, CommitGeneration(kept)
      PROVE  TableInv'
  <2>1. generation + 1 \in Generations
    BY <1>7, ParseConstants DEF CommitGeneration, TableInv, TypeOK, Generations
  <2>2. handlers' \in [HandlerKey -> Generations \cup {Absent}]
    BY <1>7, <2>1 DEF CommitGeneration
  <2>3. refresh' \subseteq Documents \X Versions
    BY <1>7 DEF CommitGeneration, TableInv, TypeOK, HeldAreOpen
  <2> QED
    BY <1>9, <1>2, <1>7, <2>1, <2>2, <2>3 DEF CommitGeneration, TableInv, TypeOK
<1>8. ASSUME NEW p \in Packages, CancelPackage(p)
      PROVE  TableInv'
  BY <1>9, <1>2, <1>8 DEF CancelPackage, TableInv, TypeOK
<1> QED
  BY <1>2, <1>3, <1>4, <1>5, <1>6, <1>7, <1>8 DEF AbortingStep

\* Scheduling and refreshing.
LEMMA SchedulesKeepTable ==
    ASSUME TableInv, ScheduleNext
    PROVE  TableInv'
<1>1. PICK t \in Tasks, k \in HandlerKey, d \in Documents, w \in Windows, v \in Versions :
         \/ \E c \in Clients : ScheduleParse(c, k, d, w, v, t)
         \/ RefreshDocument(k, d, w, v, t)
  BY DEF ScheduleNext
<1>2. PICK by \in Caller : handlers[k] # Absent /\ Schedule(Request(k, d, w, v, by), t)
  BY <1>1 DEF ScheduleParse, RefreshDocument, Caller
<1> DEFINE req == Request(k, d, w, v, by)
<1>3. /\ req \in TaskRecord /\ req.phase = "scheduled" /\ ~req.aborted
      /\ req.document = d /\ req.version = v
  <2>1. TypeOK
    BY DEF TableInv
  <2> QED
    BY <1>2, <2>1, RequestType
<1>4. /\ tasks' \in [Tasks -> TaskRecord \cup {Free}]
      /\ active' \subseteq active
      /\ EntriesAreAlive' /\ ScheduledAreUntouched'
      /\ current' = [current EXCEPT ![d] = v]
  <2> HIDE DEF req
  <2> QED
    BY <1>2, <1>3, ScheduleStep DEF req
<1>5. /\ UNCHANGED <<conn, closing, opening, holders, version, generation, handlers, routes, lane>>
      /\ refresh' \subseteq refresh
  BY <1>1 DEF ScheduleParse, RefreshDocument
<1> QED
  BY <1>4, <1>5 DEF TableInv, TypeOK, HeldAreOpen

\* finish_task, one section at a time.
LEMMA TasksKeepTable ==
    ASSUME TableInv, NEW t \in Tasks,
           \/ InstallTask(t) \/ DropAborted(t) \/ HandlerReturns(t) \/ CheckEntry(t)
           \/ CheckGeneration(t) \/ CheckVersion(t) \/ Publish(t) \/ Reject(t)
    PROVE  TableInv'
<1>0. UNCHANGED <<conn, closing, opening, holders, version, generation, refresh, handlers,
                  current, routes>>
  BY DEF InstallTask, DropAborted, HandlerReturns, CheckEntry, CheckGeneration,
         CheckVersion, Publish, Reject, Settle, OnlyTasks
<1>1. HeldAreOpen'
  BY <1>0 DEF TableInv, HeldAreOpen
<1>2. Running(t) /\ tasks[t] \in TaskRecord
  BY RunningTasks DEF InstallTask, DropAborted, HandlerReturns, CheckEntry,
     CheckGeneration, CheckVersion, Publish, Reject, TaskStep, TableInv
<1>3. CASE InstallTask(t)
  <2>1. /\ tasks[t].phase = "scheduled" /\ tasks[t].aborted = FALSE
        /\ t \notin active
    BY <1>2, <1>3 DEF InstallTask, TableInv, ScheduledAreUntouched, EntriesAreAlive,
                      TaskRecord
  <2>2. /\ tasks'[t] \in TaskRecord /\ tasks'[t].phase = "parsing"
        /\ tasks'[t].aborted = FALSE
    BY <1>2, <1>3, <2>1 DEF InstallTask, TableInv, TypeOK, TaskRecord, Phase
  <2>3. \A x \in Tasks \ {t} : tasks'[x] = tasks[x]
    BY <1>3 DEF InstallTask, TableInv, TypeOK
  <2>4. tasks' \in [Tasks -> TaskRecord \cup {Free}]
    BY <1>3, <2>2, <2>3 DEF InstallTask, TableInv, TypeOK
  <2>5. active' \subseteq active \cup {t}
    BY <1>3 DEF InstallTask
  <2>6. EntriesAreAlive'
    BY <2>2, <2>3, <2>5 DEF EntriesAreAlive, Running, TableInv, TypeOK
  <2>7. ScheduledAreUntouched'
    BY <2>2, <2>3 DEF ScheduledAreUntouched, TableInv
  <2>8. lane' = lane
    BY <1>3 DEF InstallTask
  <2> QED
    BY <1>0, <1>1, <2>4, <2>5, <2>6, <2>7, <2>8 DEF TableInv, TypeOK
<1>4. ASSUME NEW p \in Phase \ {"scheduled"}, NEW l \in BOOLEAN,
             tasks[t].phase # "scheduled", OnlyTasks,
             \/ tasks' = [tasks EXCEPT ![t].phase = p] /\ l = tasks[t].late
             \/ tasks' = [tasks EXCEPT ![t].phase = p, ![t].late = l]
      PROVE  TableInv'
  <2>1. active' = active /\ lane' = lane
    BY <1>4 DEF OnlyTasks
  <2>2. /\ tasks' \in [Tasks -> TaskRecord \cup {Free}]
        /\ EntriesAreAlive' /\ ScheduledAreUntouched'
    BY <1>2, <1>4, <2>1, MoveStep
  <2> QED
    BY <1>0, <1>1, <2>1, <2>2 DEF TableInv, TypeOK
<1>5. CASE HandlerReturns(t)
  <2>1. Replaced(t) \in BOOLEAN
    BY DEF Replaced
  <2>2. "returned" \in Phase \ {"scheduled"} /\ tasks[t].phase # "scheduled"
    BY <1>5 DEF HandlerReturns, TaskStep, Phase
  <2> QED
    BY <1>4, <1>5, <2>1, <2>2 DEF HandlerReturns
<1>6. ASSUME NEW keep \in SUBSET active, t \notin keep, active' = keep,
             tasks' = [tasks EXCEPT ![t] = Free],
             lane' \in [Clients -> Seq(Update)], \A c \in Clients : Len(lane'[c]) <= Capacity
      PROVE  TableInv'
  <2>1. /\ tasks' \in [Tasks -> TaskRecord \cup {Free}]
        /\ EntriesAreAlive' /\ ScheduledAreUntouched'
    BY <1>6, EndStep
  <2> QED
    BY <1>0, <1>1, <1>6, <2>1 DEF TableInv, TypeOK
<1>7. lane \in [Clients -> Seq(Update)] /\ \A c \in Clients : Len(lane[c]) <= Capacity
  BY DEF TableInv, TypeOK
<1>8. CASE DropAborted(t)
  <2>1. t \notin active
    BY <1>8 DEF DropAborted, TableInv, EntriesAreAlive
  <2> QED
    BY <1>6, <1>7, <1>8, <2>1 DEF DropAborted, OnlyTasks
<1>9. CASE CheckEntry(t)
  <2>1. CASE HasEntry(t)
    <3>1. PICK to \in {"registered", "failed"} : MoveTo(t, to)
      BY <1>9, <2>1 DEF CheckEntry
    <3>2. to \in Phase \ {"scheduled"} /\ tasks[t].phase # "scheduled" /\ tasks[t].late \in BOOLEAN
      BY <1>2, <1>9 DEF CheckEntry, TaskStep, Phase, TaskRecord
    <3> QED
      BY <1>4, <1>9, <3>1, <3>2 DEF CheckEntry, MoveTo
  <2>2. CASE ~HasEntry(t)
    <3>1. t \notin active
      BY <2>2 DEF HasEntry, EntryOf, SameKey
    <3> QED
      BY <1>6, <1>7, <1>9, <2>2, <3>1 DEF CheckEntry, OnlyTasks
  <2> QED
    BY <2>1, <2>2
<1>10. CASE CheckGeneration(t) \/ CheckVersion(t)
  <2>1. PICK to \in {"fresh", "stale", "valid", "failed"} : MoveTo(t, to)
    BY <1>10 DEF CheckGeneration, CheckVersion
  <2>2. to \in Phase \ {"scheduled"} /\ tasks[t].phase # "scheduled" /\ tasks[t].late \in BOOLEAN
    BY <1>2, <1>10 DEF CheckGeneration, CheckVersion, TaskStep, Phase, TaskRecord
  <2> QED
    BY <1>4, <1>10, <2>1, <2>2 DEF CheckGeneration, CheckVersion, MoveTo
<1>11. CASE Publish(t) \/ Reject(t)
  <2> DEFINE keep == active \ EntryOf(tasks[t])
  <2>1. t \notin keep /\ active' = keep /\ tasks' = [tasks EXCEPT ![t] = Free]
    BY <1>11 DEF Publish, Reject, Settle, EntryOf, SameKey
  <2>2. lane' \in [Clients -> Seq(Update)] /\ \A c \in Clients : Len(lane'[c]) <= Capacity
    <3>1. CASE Reject(t)
      BY <1>7, <3>1 DEF Reject
    <3>2. CASE Publish(t)
      <4> DEFINE upd == [document |-> tasks[t].document, version |-> tasks[t].version]
      <4>1. upd \in Update
        BY <1>2 DEF Update, TaskRecord
      <4> HIDE DEF upd
      <4>2. ASSUME NEW q \in Seq(Update), Len(q) < Capacity
            PROVE  Append(q, upd) \in Seq(Update) /\ Len(Append(q, upd)) <= Capacity
        BY <4>1, <4>2, ParseConstants
      <4>3. lane' = [c \in Clients |-> IF c \in routes[tasks[t].document] /\ Len(lane[c]) < Capacity
                                        THEN Append(lane[c], upd) ELSE lane[c]]
        BY <3>2 DEF Publish, Routed, upd
      <4> QED
        BY <1>7, <4>2, <4>3
    <3> QED
      BY <1>11, <3>1, <3>2
  <2> HIDE DEF keep
  <2>3. keep \in SUBSET active
    BY DEF keep
  <2> QED
    BY <1>6, <2>1, <2>2, <2>3
<1> QED
  BY <1>3, <1>5, <1>8, <1>9, <1>10, <1>11

LEMMA TableInvariant == Spec => []TableInv
<1>1. Init => TableInv
  <2> SUFFICES ASSUME Init PROVE TableInv
    OBVIOUS
  <2>1. TypeOK
    BY ParseConstants DEF Init, TypeOK, Generations, Absent
  <2>2. \A t \in Tasks : tasks[t].phase = "free"
    BY DEF Init, Free
  <2> QED
    BY <2>1, <2>2 DEF Init, TableInv, EntriesAreAlive, ScheduledAreUntouched, HeldAreOpen
<1>2. TableInv /\ [Next]_vars => TableInv'
  <2> SUFFICES ASSUME TableInv, [Next]_vars
               PROVE  TableInv'
    OBVIOUS
  <2>1. CASE ClientNext
    <3>1. CASE AbortingStep
      BY <3>1, AbortsKeepTable
    <3> QED
      BY <2>1, <3>1, ConnectionKeepsTable DEF ClientNext, AbortingStep
  <2>2. CASE RuntimeNext
    <3>1. CASE \E d \in Documents, v \in Versions : SkipRefresh(d, v)
      BY <3>1 DEF SkipRefresh, TableInv, TypeOK, EntriesAreAlive, ScheduledAreUntouched,
                  HeldAreOpen, Running
    <3>2. CASE \E c \in Clients : NoMode(c)
      BY <3>2, ConnectionKeepsTable
    <3>3. CASE AbortingStep
      BY <3>3, AbortsKeepTable
    <3> QED
      BY <2>2, <3>1, <3>2, <3>3 DEF RuntimeNext, AbortingStep
  <2>3. CASE ScheduleNext
    BY <2>3, SchedulesKeepTable
  <2>4. CASE TaskNext
    BY <2>4, TasksKeepTable DEF TaskNext
  <2>5. CASE UNCHANGED vars
    BY <2>5 DEF vars, TableInv, TypeOK, EntriesAreAlive, ScheduledAreUntouched,
                HeldAreOpen, Running
  <2> QED
    BY <2>1, <2>2, <2>3, <2>4, <2>5 DEF Next
<1> QED
  BY <1>1, <1>2, PTL DEF Spec

\* Every variable keeps its type: no lane grows past
\* OUTPUT_SUBSCRIPTION_CAPACITY, and the table names only spawned tasks.
THEOREM ParseTypeCorrect == Spec => []TypeOK
<1>1. TableInv => TypeOK
  BY DEF TableInv
<1> QED
  BY <1>1, TableInvariant, PTL

\* An entry of active_tasks belongs to a future that will still settle it.
THEOREM EntriesStayAlive == Spec => []EntriesAreAlive
<1>1. TableInv => EntriesAreAlive
  BY DEF TableInv
<1> QED
  BY <1>1, TableInvariant, PTL
-----------------------------------------------------------------------------
(* Routes, and what is left of a closed document                           *)

\* A connection finishes one close at a time.
OneClose == \A c \in Clients : \A d, e \in closing[c] : d = e

\* Before the first reload nothing is refreshed, and a task that is still being
\* scheduled belongs to a connection that holds its document and closes nothing.
OnlyHoldersSchedule ==
    generation = 1 =>
        /\ refresh = {}
        /\ \A t \in Tasks : tasks[t].phase = "scheduled" =>
               /\ tasks[t].by \in holders[tasks[t].document]
               /\ conn[tasks[t].by] = "on"
               /\ closing[tasks[t].by] = {}

\* Nobody has access to the document, and nobody is finishing a close of it.
Abandoned(d) == holders[d] = {} /\ \A c \in Clients : d \notin closing[c]

AbandonedAreForgotten ==
    generation = 1 =>
        \A d \in Documents :
            Abandoned(d) => /\ current[d] = Absent
                            /\ \A t \in active : tasks[t].document # d

AccessInv == OneClose /\ RoutesFollowAccess /\ OnlyHoldersSchedule /\ AbandonedAreForgotten

\* One section of a task's life.
TaskMoves(t) ==
    \/ InstallTask(t) \/ DropAborted(t) \/ HandlerReturns(t) \/ CheckEntry(t)
    \/ CheckGeneration(t) \/ CheckVersion(t) \/ Publish(t) \/ Reject(t)

\* The phases between the handler's return and the publication.
Checked == {"returned", "registered", "fresh", "valid"}

\* What a section of a task's life does to the tasks and the table.
LEMMA TaskEffect ==
    ASSUME TableInv, NEW t \in Tasks, TaskMoves(t)
    PROVE  /\ UNCHANGED <<conn, closing, opening, holders, version, generation, refresh,
                          handlers, current, routes>>
           /\ Running(t)
           /\ \A x \in Tasks \ {t} : tasks'[x] = tasks[x]
           /\ active' \subseteq active \cup {t}
           /\ t \in active \/ t \notin active' \/ tasks[t].phase = "scheduled"
           /\ tasks'[t].phase # "scheduled"
           /\ Running(t)' => /\ tasks'[t].document = tasks[t].document
                             /\ tasks'[t].version = tasks[t].version
           /\ Running(t)' /\ tasks'[t].late /\ tasks'[t].phase \in Checked =>
                  \/ tasks'[t].phase = "returned" /\ Replaced(t)
                  \/ /\ tasks[t].late /\ tasks[t].phase \in Checked
                     /\ tasks'[t].phase = "valid" => IsCurrent(t)
<1>1. Running(t) /\ tasks[t] \in TaskRecord /\ tasks \in [Tasks -> TaskRecord \cup {Free}]
  BY RunningTasks DEF TaskMoves, InstallTask, DropAborted, HandlerReturns, CheckEntry,
     CheckGeneration, CheckVersion, Publish, Reject, TaskStep, TableInv, TypeOK
<1>2. UNCHANGED <<conn, closing, opening, holders, version, generation, refresh, handlers,
                  current, routes>>
  BY DEF TaskMoves, InstallTask, DropAborted, HandlerReturns, CheckEntry, CheckGeneration,
         CheckVersion, Publish, Reject, Settle, OnlyTasks
<1>3. /\ active' \subseteq active \cup {t}
      /\ t \in active \/ t \notin active' \/ tasks[t].phase = "scheduled"
  BY DEF TaskMoves, InstallTask, DropAborted, HandlerReturns, CheckEntry, CheckGeneration,
         CheckVersion, Publish, Reject, Settle, OnlyTasks
<1>4. CASE tasks' = [tasks EXCEPT ![t] = Free]
  <2>1. tasks'[t] = Free /\ Free.phase = "free" /\ \A x \in Tasks \ {t} : tasks'[x] = tasks[x]
    BY <1>1, <1>4 DEF Free
  <2> QED
    BY <1>1, <1>2, <1>3, <2>1 DEF Running, Checked
<1>5. ASSUME NEW p \in Phase, tasks' = [tasks EXCEPT ![t].phase = p]
      PROVE  /\ \A x \in Tasks \ {t} : tasks'[x] = tasks[x]
             /\ tasks'[t].document = tasks[t].document
             /\ tasks'[t].version = tasks[t].version
             /\ tasks'[t].late = tasks[t].late
             /\ tasks'[t].phase = p
  BY <1>1, <1>5 DEF TaskRecord
<1>6. CASE InstallTask(t)
  <2>1. tasks' = [tasks EXCEPT ![t].phase = "parsing"] /\ "parsing" \in Phase
    BY <1>6 DEF InstallTask, Phase
  <2> QED
    BY <1>1, <1>2, <1>3, <1>5, <2>1 DEF Checked
<1>7. CASE HandlerReturns(t)
  <2>1. tasks' = [tasks EXCEPT ![t].phase = "returned", ![t].late = Replaced(t)]
    BY <1>7 DEF HandlerReturns
  <2>2. /\ \A x \in Tasks \ {t} : tasks'[x] = tasks[x]
        /\ tasks'[t].document = tasks[t].document
        /\ tasks'[t].version = tasks[t].version
        /\ tasks'[t].late = Replaced(t)
        /\ tasks'[t].phase = "returned"
    BY <1>1, <2>1 DEF TaskRecord
  <2> QED
    BY <1>1, <1>2, <1>3, <2>2
<1>8. ASSUME NEW p \in {"registered", "failed", "fresh", "stale"}, MoveTo(t, p),
             CheckEntry(t) \/ CheckGeneration(t) \/ CheckVersion(t)
      PROVE  /\ \A x \in Tasks \ {t} : tasks'[x] = tasks[x]
             /\ tasks'[t].phase # "scheduled"
             /\ tasks'[t].document = tasks[t].document
             /\ tasks'[t].version = tasks[t].version
             /\ tasks'[t].late /\ tasks'[t].phase \in Checked =>
                    tasks[t].late /\ tasks[t].phase \in Checked /\ tasks'[t].phase # "valid"
  <2>1. tasks' = [tasks EXCEPT ![t].phase = p] /\ p \in Phase
    BY <1>8 DEF MoveTo, Phase
  <2>2. tasks[t].phase \in Checked
    BY <1>8 DEF CheckEntry, CheckGeneration, CheckVersion, TaskStep, Checked
  <2> QED
    BY <1>5, <1>8, <2>1, <2>2
<1>9. CASE CheckEntry(t)
  <2>1. CASE \E to \in {"registered", "failed"} : MoveTo(t, to)
    BY <1>1, <1>2, <1>3, <1>8, <1>9, <2>1
  <2> QED
    BY <1>4, <1>9, <2>1 DEF CheckEntry
<1>10. CASE CheckGeneration(t)
  <2>1. \E to \in {"fresh", "stale"} : MoveTo(t, to)
    BY <1>10 DEF CheckGeneration
  <2> QED
    BY <1>1, <1>2, <1>3, <1>8, <1>10, <2>1
<1>11. CASE CheckVersion(t)
  <2>1. CASE \E to \in {"failed", "stale"} : MoveTo(t, to)
    BY <1>1, <1>2, <1>3, <1>8, <1>11, <2>1
  <2>2. CASE IsCurrent(t) /\ MoveTo(t, "valid")
    <3>1. tasks' = [tasks EXCEPT ![t].phase = "valid"] /\ "valid" \in Phase
      BY <2>2 DEF MoveTo, Phase
    <3>2. tasks[t].phase \in Checked
      BY <1>11 DEF CheckVersion, TaskStep, Checked
    <3> QED
      BY <1>1, <1>2, <1>3, <1>5, <2>2, <3>1, <3>2
  <2> QED
    BY <1>11, <2>1, <2>2 DEF CheckVersion
<1> QED
  BY <1>4, <1>6, <1>7, <1>9, <1>10, <1>11
     DEF TaskMoves, DropAborted, Publish, Reject, Settle

\* What scheduling version v of document d as task t does, and who may ask.
Scheduled(t, d, v) ==
    /\ UNCHANGED <<conn, closing, opening, holders, version, generation, handlers,
                   routes, lane>>
    /\ refresh' \subseteq refresh
    /\ current' = [current EXCEPT ![d] = v]
    /\ ~(current[d] > v)
    /\ active' \subseteq active /\ t \notin active
    /\ \A x \in Tasks \ {t} : SameTask(x)
    /\ Running(t)' /\ ~tasks'[t].late
    /\ tasks'[t].phase = "scheduled" /\ tasks'[t].document = d /\ tasks'[t].version = v
    /\ \/ <<d, v>> \in refresh
       \/ /\ tasks'[t].by \in holders[d]
          /\ conn[tasks'[t].by] = "on" /\ closing[tasks'[t].by] = {}

LEMMA ScheduleEffect ==
    ASSUME TableInv, ScheduleNext
    PROVE  \E t \in Tasks, d \in Documents, v \in Versions : Scheduled(t, d, v)
<1>1. PICK t \in Tasks, k \in HandlerKey, d \in Documents, w \in Windows, v \in Versions :
         \/ \E c \in Clients : ScheduleParse(c, k, d, w, v, t)
         \/ RefreshDocument(k, d, w, v, t)
  BY DEF ScheduleNext
<1>2. PICK by \in Caller :
         /\ handlers[k] # Absent /\ Schedule(Request(k, d, w, v, by), t)
         /\ \/ <<d, v>> \in refresh
            \/ by \in holders[d] /\ conn[by] = "on" /\ closing[by] = {}
  BY <1>1 DEF ScheduleParse, RefreshDocument, Caller, Idle, Between
<1> DEFINE req == Request(k, d, w, v, by)
<1>3. /\ req \in TaskRecord /\ req.phase = "scheduled" /\ ~req.aborted /\ ~req.late
      /\ req.document = d /\ req.version = v /\ req.by = by
  <2>1. TypeOK
    BY DEF TableInv
  <2> QED
    BY <1>2, <2>1, RequestType
<1> HIDE DEF req
<1>4. /\ active' \subseteq active /\ t \notin active
      /\ current' = [current EXCEPT ![d] = v]
      /\ \A x \in Tasks \ {t} : SameTask(x)
      /\ tasks'[t] = req
  BY <1>2, <1>3, ScheduleStep DEF req
<1>5. ~(current[d] > v)
  BY <1>2, <1>3 DEF Schedule, StaleRequest, req
<1>6. UNCHANGED <<conn, closing, opening, holders, version, generation, handlers, routes, lane>>
      /\ refresh' \subseteq refresh
  BY <1>1 DEF ScheduleParse, RefreshDocument
<1>7. Running(t)'
  BY <1>3, <1>4 DEF Running
<1>8. Scheduled(t, d, v)
  BY <1>2, <1>3, <1>4, <1>5, <1>6, <1>7 DEF Scheduled
<1> QED
  BY <1>8

\* The steps of connections and reloads that leave tasks, table and versions alone.
QuietStep ==
    \/ \E c \in Clients :
           \/ Connect(c) \/ Disconnect(c) \/ DrainLane(c) \/ NoMode(c)
           \/ \E d \in Documents : \/ OpenDocument(c, d) \/ SubscribeDocument(c, d)
                                   \/ Edit(c, d) \/ CloseDocument(c, d)
    \/ \E d \in Documents, v \in Versions : SkipRefresh(d, v)

\* Every step is one of four kinds.
LEMMA StepKinds ==
    ASSUME Next
    PROVE  QuietStep \/ AbortingStep \/ ScheduleNext \/ \E t \in Tasks : TaskMoves(t)
<1>1. CASE ClientNext
  BY <1>1 DEF ClientNext, QuietStep, AbortingStep
<1>2. CASE RuntimeNext
  BY <1>2 DEF RuntimeNext, QuietStep, AbortingStep
<1>3. CASE TaskNext
  BY <1>3 DEF TaskNext, TaskMoves
<1> QED
  BY <1>1, <1>2, <1>3 DEF Next

\* A route goes with the access, and a connection is done with one close
\* before it starts another.
LEMMA QuietKeepsRoutes ==
    ASSUME TypeOK, OneClose, RoutesFollowAccess, QuietStep
    PROVE  OneClose' /\ RoutesFollowAccess'
<1>1. ASSUME NEW c \in Clients, Connect(c) \/ DrainLane(c) \/ NoMode(c)
      PROVE  OneClose' /\ RoutesFollowAccess'
  BY <1>1 DEF Connect, DrainLane, NoMode, OneClose, RoutesFollowAccess, TypeOK
<1>2. ASSUME NEW c \in Clients, Disconnect(c)
      PROVE  OneClose' /\ RoutesFollowAccess'
  BY <1>2 DEF Disconnect, OneClose, RoutesFollowAccess, TypeOK
<1>3. ASSUME NEW c \in Clients, NEW d \in Documents,
             OpenDocument(c, d) \/ SubscribeDocument(c, d) \/ Edit(c, d)
      PROVE  OneClose' /\ RoutesFollowAccess'
  <2>1. OneClose'
    BY <1>3 DEF OpenDocument, SubscribeDocument, Edit, OneClose
  <2>2. CASE OpenDocument(c, d)
    BY <2>1, <2>2 DEF OpenDocument, RoutesFollowAccess, TypeOK
  <2>3. CASE SubscribeDocument(c, d)
    <3>1. \A e \in Documents, x \in Clients :
             x \in routes'[e] => x \in routes[e] \/ (e = d /\ x = c)
      BY <2>3 DEF SubscribeDocument, TypeOK
    <3> QED
      BY <2>1, <2>3, <3>1 DEF SubscribeDocument, Between, RoutesFollowAccess
  <2>4. CASE Edit(c, d)
    BY <2>1, <2>4 DEF Edit, RoutesFollowAccess
  <2> QED
    BY <1>3, <2>2, <2>3, <2>4
<1>4. ASSUME NEW c \in Clients, NEW d \in Documents, CloseDocument(c, d)
      PROVE  OneClose' /\ RoutesFollowAccess'
  BY <1>4 DEF CloseDocument, Idle, Between, OneClose, RoutesFollowAccess, TypeOK
<1>5. ASSUME NEW d \in Documents, NEW v \in Versions, SkipRefresh(d, v)
      PROVE  OneClose' /\ RoutesFollowAccess'
  BY <1>5 DEF SkipRefresh, OneClose, RoutesFollowAccess
<1> QED
  BY <1>1, <1>2, <1>3, <1>4, <1>5 DEF QuietStep

LEMMA AbortsKeepRoutes ==
    ASSUME TypeOK, OneClose, RoutesFollowAccess, AbortingStep
    PROVE  OneClose' /\ RoutesFollowAccess'
<1>1. ASSUME NEW c \in Clients, CleanUpConnection(c)
      PROVE  OneClose' /\ RoutesFollowAccess'
  BY <1>1 DEF CleanUpConnection, OneClose, RoutesFollowAccess, TypeOK
<1>2. ASSUME NEW c \in Clients, NEW d \in Documents, FinishClose(c, d)
      PROVE  OneClose' /\ RoutesFollowAccess'
  BY <1>2 DEF FinishClose, OneClose, RoutesFollowAccess, TypeOK
<1>3. CASE UNCHANGED <<conn, closing, holders, routes>>
  BY <1>3 DEF OneClose, RoutesFollowAccess
<1> QED
  BY <1>1, <1>2, <1>3 DEF AbortingStep, ActivateMode, ReactivateMode, CommitGeneration,
                          CancelPackage

\* Before the first reload: who is scheduling, and what is left of documents.
LEMMA QuietKeepsForgotten ==
    ASSUME TableInv, AccessInv, QuietStep
    PROVE  OnlyHoldersSchedule' /\ AbandonedAreForgotten'
<1>1. UNCHANGED <<generation, current, tasks, active>> /\ refresh' \subseteq refresh
  BY DEF QuietStep, Connect, Disconnect, DrainLane, NoMode, OpenDocument, SubscribeDocument,
         Edit, CloseDocument, SkipRefresh
<1>2. ASSUME NEW d \in Documents, Abandoned(d)'
      PROVE  Abandoned(d)
  <2>1. ASSUME NEW c \in Clients, NEW e \in Documents, OpenDocument(c, e)
        PROVE  Abandoned(d)
    BY <1>2, <2>1 DEF OpenDocument, Abandoned, TableInv, TypeOK
  <2>2. ASSUME NEW c \in Clients, NEW e \in Documents, CloseDocument(c, e)
        PROVE  Abandoned(d)
    BY <1>2, <2>2 DEF CloseDocument, Idle, Between, Abandoned, TableInv, TypeOK
  <2>3. CASE UNCHANGED <<holders, closing>>
    BY <1>2, <2>3 DEF Abandoned
  <2> QED
    BY <2>1, <2>2, <2>3 DEF QuietStep, Connect, Disconnect, DrainLane, NoMode,
                            SubscribeDocument, Edit, SkipRefresh
<1>3. AbandonedAreForgotten'
  BY <1>1, <1>2 DEF AbandonedAreForgotten, AccessInv
<1>4. ASSUME generation = 1, NEW t \in Tasks, tasks[t].phase = "scheduled"
      PROVE  /\ tasks[t].by \in holders'[tasks[t].document]
             /\ conn'[tasks[t].by] = "on" /\ closing'[tasks[t].by] = {}
  <2> DEFINE b == tasks[t].by
             e == tasks[t].document
  <2>1. Running(t) /\ tasks[t] \in TaskRecord
    BY <1>4, RunningTasks DEF Running, TableInv
  <2>2. b \in holders[e] /\ conn[b] = "on" /\ closing[b] = {} /\ e \in Documents /\ b \in Clients
    BY <1>4, <2>1 DEF AccessInv, OnlyHoldersSchedule, TaskRecord, TableInv, TypeOK
  <2>3. ~Between(b)
    BY <1>4, <2>1 DEF Between
  <2> HIDE DEF b, e
  <2>4. b \in holders'[e] /\ conn'[b] = "on" /\ closing'[b] = {}
    <3>1. ASSUME NEW c \in Clients, Connect(c)
          PROVE  b \in holders'[e] /\ conn'[b] = "on" /\ closing'[b] = {}
      BY <2>2, <3>1 DEF Connect, TableInv, TypeOK
    <3>2. ASSUME NEW c \in Clients, Disconnect(c)
          PROVE  b \in holders'[e] /\ conn'[b] = "on" /\ closing'[b] = {}
      BY <2>2, <2>3, <3>2 DEF Disconnect, TableInv, TypeOK
    <3>3. ASSUME NEW c \in Clients, NEW d \in Documents, OpenDocument(c, d)
          PROVE  b \in holders'[e] /\ conn'[b] = "on" /\ closing'[b] = {}
      BY <2>2, <3>3 DEF OpenDocument, TableInv, TypeOK
    <3>4. ASSUME NEW c \in Clients, NEW d \in Documents, CloseDocument(c, d)
          PROVE  b \in holders'[e] /\ conn'[b] = "on" /\ closing'[b] = {}
      BY <2>2, <2>3, <3>4 DEF CloseDocument, Idle, TableInv, TypeOK
    <3>5. CASE UNCHANGED <<holders, closing, conn>>
      BY <2>2, <3>5
    <3> QED
      BY <3>1, <3>2, <3>3, <3>4, <3>5
         DEF QuietStep, DrainLane, NoMode, SubscribeDocument, Edit, SkipRefresh
  <2> QED
    BY <2>4 DEF b, e
<1>5. OnlyHoldersSchedule'
  BY <1>1, <1>4 DEF OnlyHoldersSchedule, AccessInv
<1> QED
  BY <1>3, <1>5

LEMMA AbortsKeepForgotten ==
    ASSUME TableInv, AccessInv, AbortingStep
    PROVE  OnlyHoldersSchedule' /\ AbandonedAreForgotten'
<1>0. active' \subseteq active /\ (\A t \in Tasks : SameTask(t)) /\ active \subseteq Tasks
  BY AbortsKeepTable DEF TableInv, TypeOK
<1>1. \A t \in active : Running(t) /\ tasks'[t].document = tasks[t].document
  BY <1>0 DEF SameTask, TableInv, EntriesAreAlive
<1>2. \A t \in Tasks : tasks'[t].phase = "scheduled" =>
         /\ tasks[t].phase = "scheduled" /\ tasks[t] \in TaskRecord
         /\ tasks'[t].by = tasks[t].by /\ tasks'[t].document = tasks[t].document
  <2> SUFFICES ASSUME NEW t \in Tasks, tasks'[t].phase = "scheduled"
               PROVE  /\ tasks[t].phase = "scheduled" /\ tasks[t] \in TaskRecord
                      /\ tasks'[t].by = tasks[t].by
                      /\ tasks'[t].document = tasks[t].document
    OBVIOUS
  <2>1. Running(t)' /\ SameTask(t)
    BY <1>0 DEF Running
  <2>2. Running(t)
    BY <2>1 DEF SameTask
  <2> QED
    BY <2>1, <2>2, RunningTasks DEF SameTask, TableInv
<1>3. ASSUME NEW kept \in SUBSET HandlerKey, CommitGeneration(kept)
      PROVE  generation' # 1
  BY <1>3 DEF CommitGeneration, TableInv, TypeOK, Generations
<1>4. ASSUME NEW c \in Clients, CleanUpConnection(c)
      PROVE  OnlyHoldersSchedule' /\ AbandonedAreForgotten'
  <2>1. OnlyHoldersSchedule'
    BY <1>2, <1>4 DEF CleanUpConnection, OnlyHoldersSchedule, AccessInv, TaskRecord,
                      TableInv, TypeOK
  <2>2. ASSUME generation = 1, NEW d \in Documents, Abandoned(d)'
        PROVE  current'[d] = Absent /\ \A t \in active' : tasks'[t].document # d
    <3>1. CASE holders[d] = {c}
      BY <1>0, <1>1, <1>4, <3>1 DEF CleanUpConnection, RemoveDocuments, Abort
    <3>2. CASE holders[d] # {c}
      <4>1. Abandoned(d)
        BY <1>4, <2>2, <3>2 DEF CleanUpConnection, Abandoned, TableInv, TypeOK
      <4>2. current[d] = Absent /\ \A t \in active : tasks[t].document # d
        BY <2>2, <4>1 DEF AccessInv, AbandonedAreForgotten
      <4> QED
        BY <1>0, <1>1, <1>4, <3>2, <4>2 DEF CleanUpConnection, RemoveDocuments
    <3> QED
      BY <3>1, <3>2
  <2>3. generation' = generation
    BY <1>4 DEF CleanUpConnection
  <2> QED
    BY <2>1, <2>2, <2>3 DEF AbandonedAreForgotten
<1>5. ASSUME NEW c \in Clients, NEW e \in Documents, FinishClose(c, e)
      PROVE  OnlyHoldersSchedule' /\ AbandonedAreForgotten'
  <2>0. UNCHANGED <<generation, holders, conn, refresh>>
    BY <1>5 DEF FinishClose
  <2>1. OnlyHoldersSchedule'
    <3>1. \A x \in Clients : closing[x] = {} => closing'[x] = {}
      BY <1>5 DEF FinishClose, TableInv, TypeOK
    <3>2. \A t \in Tasks : tasks[t] \in TaskRecord => tasks[t].document \in Documents
      BY DEF TaskRecord
    <3>3. \A d \in Documents : holders[d] \subseteq Clients
      BY DEF TableInv, TypeOK
    <3> QED
      BY <1>2, <2>0, <3>1, <3>2, <3>3 DEF OnlyHoldersSchedule, AccessInv
  <2>2. ASSUME generation = 1, NEW d \in Documents, Abandoned(d)'
        PROVE  current'[d] = Absent /\ \A t \in active' : tasks'[t].document # d
    <3>1. CASE d = e
      BY <1>0, <1>1, <1>5, <2>2, <3>1 DEF FinishClose, RemoveDocuments, Abort, Abandoned
    <3>2. CASE d # e
      <4>1. Abandoned(d)
        BY <1>5, <2>2, <3>2 DEF FinishClose, Abandoned, OneClose, AccessInv, TableInv, TypeOK
      <4>2. current[d] = Absent /\ \A t \in active : tasks[t].document # d
        BY <2>2, <4>1 DEF AccessInv, AbandonedAreForgotten
      <4> QED
        BY <1>0, <1>1, <1>5, <3>2, <4>2 DEF FinishClose, RemoveDocuments
    <3> QED
      BY <3>1, <3>2
  <2> QED
    BY <2>0, <2>1, <2>2 DEF AbandonedAreForgotten
<1>6. CASE UNCHANGED <<generation, conn, closing, holders, refresh, current>>
  <2>1. OnlyHoldersSchedule'
    BY <1>2, <1>6 DEF OnlyHoldersSchedule, AccessInv
  <2>2. AbandonedAreForgotten'
    BY <1>0, <1>1, <1>6 DEF AbandonedAreForgotten, Abandoned, AccessInv
  <2> QED
    BY <2>1, <2>2
<1>7. CASE generation' # 1
  BY <1>7 DEF OnlyHoldersSchedule, AbandonedAreForgotten
<1> QED
  BY <1>3, <1>4, <1>5, <1>6, <1>7 DEF AbortingStep, ActivateMode, ReactivateMode, CancelPackage

LEMMA SchedulesKeepForgotten ==
    ASSUME TableInv, AccessInv, ScheduleNext
    PROVE  OnlyHoldersSchedule' /\ AbandonedAreForgotten'
<1>1. PICK t \in Tasks, d \in Documents, v \in Versions : Scheduled(t, d, v)
  BY ScheduleEffect
<1>2. UNCHANGED <<generation, conn, closing, holders>> /\ refresh' \subseteq refresh
      /\ active' \subseteq active /\ t \notin active
      /\ current' = [current EXCEPT ![d] = v]
  BY <1>1 DEF Scheduled
<1> SUFFICES ASSUME generation = 1
             PROVE  OnlyHoldersSchedule' /\ AbandonedAreForgotten'
  BY <1>2 DEF OnlyHoldersSchedule, AbandonedAreForgotten
<1>3. refresh = {}
  BY DEF AccessInv, OnlyHoldersSchedule
<1>4. /\ tasks'[t].phase = "scheduled" /\ tasks'[t].document = d
      /\ tasks'[t].by \in holders[d]
      /\ conn[tasks'[t].by] = "on" /\ closing[tasks'[t].by] = {}
  BY <1>1, <1>3 DEF Scheduled
<1>5. \A x \in Tasks \ {t} : tasks'[x].phase = "scheduled" =>
         /\ tasks[x].phase = "scheduled"
         /\ tasks'[x].by = tasks[x].by /\ tasks'[x].document = tasks[x].document
  BY <1>1 DEF Scheduled, SameTask, Running
<1>6. \A x \in active : x # t /\ x \in Tasks /\ tasks'[x].document = tasks[x].document
  BY <1>1, <1>2 DEF Scheduled, SameTask, TableInv, EntriesAreAlive, TypeOK
<1>7. OnlyHoldersSchedule'
  BY <1>2, <1>3, <1>4, <1>5 DEF OnlyHoldersSchedule, AccessInv
<1>8. AbandonedAreForgotten'
  <2> SUFFICES ASSUME NEW e \in Documents, Abandoned(e)'
               PROVE  current'[e] = Absent /\ \A x \in active' : tasks'[x].document # e
    BY DEF AbandonedAreForgotten
  <2>1. Abandoned(e) /\ e # d
    BY <1>2, <1>4 DEF Abandoned
  <2>2. current[e] = Absent /\ \A x \in active : tasks[x].document # e
    BY <2>1 DEF AccessInv, AbandonedAreForgotten
  <2> QED
    BY <1>2, <1>6, <2>1, <2>2 DEF TableInv, TypeOK
<1> QED
  BY <1>7, <1>8

LEMMA TasksKeepForgotten ==
    ASSUME TableInv, AccessInv, NEW t \in Tasks, TaskMoves(t)
    PROVE  AccessInv'
<1>1. /\ UNCHANGED <<conn, closing, holders, generation, refresh, current, routes>>
      /\ Running(t)
      /\ \A x \in Tasks \ {t} : tasks'[x] = tasks[x]
      /\ active' \subseteq active \cup {t}
      /\ t \in active \/ t \notin active' \/ tasks[t].phase = "scheduled"
      /\ tasks'[t].phase # "scheduled"
      /\ Running(t)' => tasks'[t].document = tasks[t].document
  BY TaskEffect
<1>2. OneClose' /\ RoutesFollowAccess'
  BY <1>1 DEF AccessInv, OneClose, RoutesFollowAccess
<1>3. OnlyHoldersSchedule'
  BY <1>1 DEF AccessInv, OnlyHoldersSchedule
<1>4. AbandonedAreForgotten'
  <2> SUFFICES ASSUME generation = 1, NEW e \in Documents, Abandoned(e)
               PROVE  current[e] = Absent /\ \A x \in active' : tasks'[x].document # e
    BY <1>1 DEF AbandonedAreForgotten, Abandoned
  <2>1. current[e] = Absent /\ \A x \in active : tasks[x].document # e
    BY DEF AccessInv, AbandonedAreForgotten
  <2>2. tasks[t].phase = "scheduled" => tasks[t].document # e
    BY DEF AccessInv, OnlyHoldersSchedule, Abandoned
  <2>3. t \in active' => Running(t)'
    BY TasksKeepTable DEF TaskMoves, TableInv, EntriesAreAlive
  <2>4. active \subseteq Tasks
    BY DEF TableInv, TypeOK
  <2> QED
    BY <1>1, <2>1, <2>2, <2>3, <2>4
<1> QED
  BY <1>2, <1>3, <1>4 DEF AccessInv

LEMMA AccessInvariant == Spec => [](TableInv /\ AccessInv)
<1>1. Init => AccessInv
  <2> SUFFICES ASSUME Init PROVE AccessInv
    OBVIOUS
  <2>1. \A t \in Tasks : tasks[t].phase = "free"
    BY DEF Init, Free
  <2> QED
    BY <2>1 DEF Init, AccessInv, OneClose, RoutesFollowAccess, OnlyHoldersSchedule,
                AbandonedAreForgotten
<1>2. TableInv /\ AccessInv /\ [Next]_vars => AccessInv'
  <2> SUFFICES ASSUME TableInv, AccessInv, [Next]_vars
               PROVE  AccessInv'
    OBVIOUS
  <2>0. TypeOK /\ OneClose /\ RoutesFollowAccess
    BY DEF TableInv, AccessInv
  <2>1. CASE QuietStep
    BY <2>0, <2>1, QuietKeepsRoutes, QuietKeepsForgotten DEF AccessInv
  <2>2. CASE AbortingStep
    BY <2>0, <2>2, AbortsKeepRoutes, AbortsKeepForgotten DEF AccessInv
  <2>3. CASE ScheduleNext
    <3>1. UNCHANGED <<conn, closing, holders, routes>>
      BY <2>3 DEF ScheduleNext, ScheduleParse, RefreshDocument
    <3>2. OneClose' /\ RoutesFollowAccess'
      BY <2>0, <3>1 DEF OneClose, RoutesFollowAccess
    <3> QED
      BY <2>3, <3>2, SchedulesKeepForgotten DEF AccessInv
  <2>4. CASE \E t \in Tasks : TaskMoves(t)
    BY <2>4, TasksKeepForgotten
  <2>5. CASE UNCHANGED vars
    BY <2>5 DEF vars, AccessInv, OneClose, RoutesFollowAccess, OnlyHoldersSchedule,
                AbandonedAreForgotten, Abandoned
  <2> QED
    BY <2>1, <2>2, <2>3, <2>4, <2>5, StepKinds
<1> QED
  BY <1>1, <1>2, TableInvariant, PTL DEF Spec

\* Parse output goes only to connections that hold the document, or that are
\* in the middle of giving it up.
THEOREM RoutesNeedAccess == Spec => []RoutesFollowAccess
<1>1. AccessInv => RoutesFollowAccess
  BY DEF AccessInv
<1> QED
  BY <1>1, AccessInvariant, PTL

\* Until a reload, the final close or disconnect removes the task and version
\* state of a document for good, however many connections shared it.
THEOREM ClosingForgets == Spec => []ClosedDocumentsAreForgotten
<1>1. AccessInv => ClosedDocumentsAreForgotten
  BY DEF AccessInv, AbandonedAreForgotten, ClosedDocumentsAreForgotten, Closed, Abandoned
<1> QED
  BY <1>1, AccessInvariant, PTL

-----------------------------------------------------------------------------
(* Replaced work                                                           *)

\* What is parsed or waits to be refreshed has been opened: its document id
\* will not be opened again once its last holder has left.
WorkIsOnOpened ==
    /\ \A t \in Tasks : Running(t) => version[tasks[t].document] # Absent
    /\ \A r \in refresh : version[r[1]] # Absent

\* A replaced result that has not been rejected yet: the newer version is still
\* the current one, or nobody is left to see the result.
Outdated(t) ==
    /\ \/ current[tasks[t].document] > tasks[t].version
       \/ holders[tasks[t].document] = {}
    /\ tasks[t].phase = "valid" => holders[tasks[t].document] = {}

LateIsOutdated ==
    \A t \in Tasks : Running(t) /\ tasks[t].late /\ tasks[t].phase \in Checked => Outdated(t)

LateInv == WorkIsOnOpened /\ LateIsOutdated

\* Access to an opened document that nobody holds is never granted again, and
\* a version is forgotten only when nobody holds the document.
LEMMA AccessOnlyFalls ==
    ASSUME TableInv, QuietStep \/ AbortingStep, NEW d \in Documents, version[d] # Absent
    PROVE  /\ version'[d] # Absent
           /\ holders[d] = {} => holders'[d] = {}
           /\ current'[d] = current[d] \/ holders'[d] = {}
<1>1. ASSUME NEW c \in Clients, NEW e \in Documents, OpenDocument(c, e)
      PROVE  /\ version'[d] # Absent
             /\ holders[d] = {} => holders'[d] = {}
             /\ current'[d] = current[d]
  BY <1>1 DEF OpenDocument, TableInv, TypeOK, Absent
<1>2. ASSUME NEW c \in Clients, NEW e \in Documents, Edit(c, e)
      PROVE  /\ version'[d] # Absent
             /\ UNCHANGED <<holders, current>>
  BY <1>2 DEF Edit, TableInv, TypeOK, Absent, Versions
<1>3. ASSUME NEW c \in Clients, NEW e \in Documents, CloseDocument(c, e)
      PROVE  /\ UNCHANGED <<version, current>>
             /\ holders[d] = {} => holders'[d] = {}
  BY <1>3 DEF CloseDocument, TableInv, TypeOK
<1>4. ASSUME NEW c \in Clients, NEW e \in Documents, FinishClose(c, e)
      PROVE  /\ UNCHANGED <<version, holders>>
             /\ current'[d] = current[d] \/ holders[d] = {}
  BY <1>4 DEF FinishClose, RemoveDocuments
<1>5. ASSUME NEW c \in Clients, CleanUpConnection(c)
      PROVE  /\ UNCHANGED version
             /\ holders[d] = {} => holders'[d] = {}
             /\ current'[d] = current[d] \/ holders'[d] = {}
  BY <1>5 DEF CleanUpConnection, RemoveDocuments
<1>6. CASE UNCHANGED <<version, holders, current>>
  BY <1>6
<1> QED
  BY <1>1, <1>2, <1>3, <1>4, <1>5, <1>6
     DEF QuietStep, AbortingStep, Connect, Disconnect, DrainLane, NoMode, SubscribeDocument,
         SkipRefresh, ActivateMode, ReactivateMode, CommitGeneration, CancelPackage

\* Steps that neither schedule nor move a task.
LEMMA AccessKeepsLate ==
    ASSUME TableInv, LateInv, QuietStep \/ AbortingStep
    PROVE  LateInv'
<1>1. \A t \in Tasks : SameTask(t)
  <2>1. CASE QuietStep
    <3>1. tasks' = tasks
      BY <2>1 DEF QuietStep, Connect, Disconnect, DrainLane, NoMode, OpenDocument,
                  SubscribeDocument, Edit, CloseDocument, SkipRefresh
    <3> QED
      BY <3>1 DEF SameTask, Running
  <2> QED
    BY <2>1, AbortsKeepTable
<1>2. ASSUME NEW t \in Tasks, Running(t)'
      PROVE  /\ Running(t) /\ tasks[t].document \in Documents
             /\ tasks'[t].phase = tasks[t].phase /\ tasks'[t].late = tasks[t].late
             /\ tasks'[t].document = tasks[t].document /\ tasks'[t].version = tasks[t].version
  <2>1. Running(t) /\ SameTask(t)
    BY <1>1, <1>2 DEF SameTask
  <2>2. tasks[t] \in TaskRecord
    BY <2>1, RunningTasks DEF TableInv
  <2> QED
    BY <2>1, <2>2 DEF SameTask, TaskRecord
<1>3. \A d \in Documents : version[d] # Absent =>
         /\ version'[d] # Absent
         /\ holders[d] = {} => holders'[d] = {}
         /\ current'[d] = current[d] \/ holders'[d] = {}
  BY AccessOnlyFalls
<1>4. WorkIsOnOpened'
  <2>1. \A t \in Tasks : Running(t)' => version'[tasks'[t].document] # Absent
    BY <1>2, <1>3 DEF LateInv, WorkIsOnOpened
  <2>2. \A r \in refresh' : r[1] \in Documents /\ version[r[1]] # Absent
    <3>1. CASE \E kept \in SUBSET HandlerKey : CommitGeneration(kept)
      BY <3>1 DEF CommitGeneration, TableInv, HeldAreOpen
    <3>2. CASE refresh' \subseteq refresh
      BY <3>2 DEF LateInv, WorkIsOnOpened, TableInv, TypeOK
    <3> QED
      BY <3>1, <3>2
         DEF QuietStep, Connect, Disconnect, DrainLane, NoMode, OpenDocument,
             SubscribeDocument, Edit, CloseDocument, SkipRefresh, AbortingStep,
             CleanUpConnection, FinishClose, ActivateMode, ReactivateMode, CancelPackage
  <2> QED
    BY <1>3, <2>1, <2>2 DEF WorkIsOnOpened
<1>5. LateIsOutdated'
  <2> SUFFICES ASSUME NEW t \in Tasks, Running(t)', tasks'[t].late, tasks'[t].phase \in Checked
               PROVE  Outdated(t)'
    BY DEF LateIsOutdated
  <2>1. Outdated(t) /\ version[tasks[t].document] # Absent
    BY <1>2 DEF LateInv, LateIsOutdated, WorkIsOnOpened
  <2> QED
    BY <1>2, <1>3, <2>1 DEF Outdated
<1> QED
  BY <1>4, <1>5 DEF LateInv

LEMMA SchedulesKeepLate ==
    ASSUME TableInv, LateInv, ScheduleNext
    PROVE  LateInv'
<1>1. PICK t \in Tasks, d \in Documents, v \in Versions : Scheduled(t, d, v)
  BY ScheduleEffect
<1>2. /\ UNCHANGED <<holders, version>> /\ refresh' \subseteq refresh
      /\ current' = [current EXCEPT ![d] = v] /\ ~(current[d] > v)
      /\ tasks'[t].document = d /\ ~tasks'[t].late
      /\ <<d, v>> \in refresh \/ holders[d] # {}
  BY <1>1 DEF Scheduled
<1>3. version[d] # Absent
  BY <1>2 DEF LateInv, WorkIsOnOpened, TableInv, HeldAreOpen
<1>4. ASSUME NEW x \in Tasks, x # t, Running(x)'
      PROVE  /\ Running(x) /\ tasks[x].document \in Documents /\ tasks[x].version \in Versions
             /\ tasks'[x].phase = tasks[x].phase /\ tasks'[x].late = tasks[x].late
             /\ tasks'[x].document = tasks[x].document /\ tasks'[x].version = tasks[x].version
  <2>1. Running(x) /\ SameTask(x)
    BY <1>1, <1>4 DEF Scheduled, SameTask
  <2>2. tasks[x] \in TaskRecord
    BY <2>1, RunningTasks DEF TableInv
  <2> QED
    BY <2>1, <2>2 DEF SameTask, TaskRecord
<1>5. WorkIsOnOpened'
  <2>1. \A x \in Tasks : Running(x)' => version'[tasks'[x].document] # Absent
    BY <1>2, <1>3, <1>4 DEF LateInv, WorkIsOnOpened
  <2> QED
    BY <1>2, <2>1 DEF LateInv, WorkIsOnOpened
<1>6. \A e \in Documents : /\ current[e] \in Int /\ current'[e] \in Int
                           /\ current'[e] >= current[e]
  BY <1>2 DEF TableInv, TypeOK, Versions, Absent
<1>7. LateIsOutdated'
  <2> SUFFICES ASSUME NEW x \in Tasks, Running(x)', tasks'[x].late, tasks'[x].phase \in Checked
               PROVE  Outdated(x)'
    BY DEF LateIsOutdated
  <2>1. x # t
    BY <1>2
  <2>2. Outdated(x) /\ tasks[x].document \in Documents /\ tasks[x].version \in Int
    BY <1>4, <2>1 DEF LateInv, LateIsOutdated, Versions
  <2> QED
    BY <1>2, <1>4, <1>6, <2>1, <2>2 DEF Outdated
<1> QED
  BY <1>5, <1>7 DEF LateInv

\* The two checks: a late result that passes them belongs to a document that
\* nobody holds.
LEMMA TasksKeepLate ==
    ASSUME TableInv, LateInv, NEW t \in Tasks, TaskMoves(t)
    PROVE  LateInv'
<1>1. /\ UNCHANGED <<holders, version, refresh, current>>
      /\ Running(t)
      /\ \A x \in Tasks \ {t} : tasks'[x] = tasks[x]
      /\ Running(t)' => /\ tasks'[t].document = tasks[t].document
                        /\ tasks'[t].version = tasks[t].version
      /\ Running(t)' /\ tasks'[t].late /\ tasks'[t].phase \in Checked =>
             \/ tasks'[t].phase = "returned" /\ Replaced(t)
             \/ /\ tasks[t].late /\ tasks[t].phase \in Checked
                /\ tasks'[t].phase = "valid" => IsCurrent(t)
  BY TaskEffect
<1>2. tasks[t].document \in Documents /\ tasks[t].version \in Versions
  BY <1>1, RunningTasks DEF TableInv, TaskRecord
<1>3. WorkIsOnOpened'
  <2>1. \A x \in Tasks : Running(x)' => Running(x) /\ tasks'[x].document = tasks[x].document
    BY <1>1 DEF Running
  <2> QED
    BY <1>1, <2>1 DEF LateInv, WorkIsOnOpened
<1>4. LateIsOutdated'
  <2> SUFFICES ASSUME NEW x \in Tasks, Running(x)', tasks'[x].late, tasks'[x].phase \in Checked
               PROVE  Outdated(x)'
    BY DEF LateIsOutdated
  <2>1. CASE x # t
    BY <1>1, <2>1 DEF LateInv, LateIsOutdated, Outdated, Running
  <2>2. CASE x = t /\ tasks'[t].phase = "returned" /\ Replaced(t)
    BY <1>1, <2>2 DEF Outdated, Replaced
  <2>3. CASE x = t /\ tasks[t].late /\ tasks[t].phase \in Checked
             /\ (tasks'[t].phase = "valid" => IsCurrent(t))
    <3>1. \/ current[tasks[t].document] > tasks[t].version
          \/ holders[tasks[t].document] = {}
      BY <1>1, <2>3 DEF LateInv, LateIsOutdated, Outdated
    <3>2. IsCurrent(t) => ~(current[tasks[t].document] > tasks[t].version)
      BY <1>2 DEF IsCurrent, Absent, Versions, TableInv, TypeOK
    <3> QED
      BY <1>1, <2>3, <3>1, <3>2 DEF Outdated
  <2> QED
    BY <1>1, <2>1, <2>2, <2>3
<1> QED
  BY <1>3, <1>4 DEF LateInv

LEMMA LateInvariant == Spec => [](TableInv /\ LateInv)
<1>1. Init => LateInv
  <2> SUFFICES ASSUME Init PROVE LateInv
    OBVIOUS
  <2>1. \A t \in Tasks : ~Running(t)
    BY DEF Init, Free, Running
  <2> QED
    BY <2>1 DEF Init, LateInv, WorkIsOnOpened, LateIsOutdated
<1>2. TableInv /\ LateInv /\ [Next]_vars => LateInv'
  <2> SUFFICES ASSUME TableInv, LateInv, [Next]_vars
               PROVE  LateInv'
    OBVIOUS
  <2>1. CASE QuietStep \/ AbortingStep
    BY <2>1, AccessKeepsLate
  <2>2. CASE ScheduleNext
    BY <2>2, SchedulesKeepLate
  <2>3. CASE \E t \in Tasks : TaskMoves(t)
    BY <2>3, TasksKeepLate
  <2>4. CASE UNCHANGED vars
    BY <2>4 DEF vars, LateInv, WorkIsOnOpened, LateIsOutdated, Outdated, Running
  <2> QED
    BY <2>1, <2>2, <2>3, <2>4, StepKinds
<1> QED
  BY <1>1, <1>2, TableInvariant, PTL DEF Spec

\* A result that a newer version had replaced before its handler returned
\* reaches no client that has the document open, whatever closes, reloads and
\* requests of other clients come between the sections of finish_task.
THEOREM ReplacedWorkIsNotSeen == Spec => ReplacedWorkReachesNoHolder
<1>1. TableInv /\ LateInv =>
          [\A t \in Tasks :
              Publish(t) /\ tasks[t].late
                  => \A c \in holders[tasks[t].document] : lane'[c] = lane[c]]_vars
  <2> SUFFICES ASSUME LateInv, NEW t \in Tasks, Publish(t), tasks[t].late
               PROVE  holders[tasks[t].document] = {}
    OBVIOUS
  <2> QED
    BY DEF Publish, TaskStep, LateInv, LateIsOutdated, Outdated, Checked
<1> QED
  BY <1>1, LateInvariant, PTL DEF ReplacedWorkReachesNoHolder

=============================================================================
