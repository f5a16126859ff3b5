------------------------ MODULE DocumentRefinementProofs ------------------------
(* DocumentSync implements VersionedDocument: whatever the connections,    *)
(* queues and panes do, the server's document goes through the steps of    *)
(* one versioned text with an exclusive lease, and the versions a client   *)
(* hears of arrive in order.                                               *)
EXTENDS DocumentSyncProofs

(* What storage put into the text is numbered by the loads so far, so the  *)
(* next content to be loaded differs from the text it replaces.            *)
StoredTokensAreOld ==
    \A i \in 1..Len(text) : text[i].by = NoConnection => text[i].n <= loads

RefineInv == TypeOK /\ StoredTokensAreOld

(* Appending to a text keeps what was there and ends in the new token.     *)
LEMMA AppendToText ==
    ASSUME NEW x \in Text, NEW t \in Token
    PROVE  /\ Append(x, t) \in Text
           /\ Len(Append(x, t)) = Len(x) + 1
           /\ \A i \in 1..Len(x) : Append(x, t)[i] = x[i]
           /\ Append(x, t)[Len(x) + 1] = t
           /\ SubSeq(Append(x, t), 1, Len(x)) = x
BY DEF Text

(* The step relation of the document alone.                                *)
AcceptStep(c) ==
    /\ holder = c
    /\ \E n \in Nat : text' = Append(text, [by |-> c, n |-> n])
    /\ version' = version + 1
    /\ UNCHANGED <<holder, nextLease, loads>>

LoadStep ==
    /\ text' = <<[by |-> NoConnection, n |-> loads + 1]>>
    /\ loads' = loads + 1
    /\ version' = version + 1
    /\ UNCHANGED <<holder, nextLease>>

GrantStep(c) ==
    /\ holder = NoConnection
    /\ holder' = c
    /\ nextLease' = nextLease + 1
    /\ UNCHANGED <<version, text, loads>>

ReleaseStep(c) ==
    /\ holder = c
    /\ holder' = NoConnection
    /\ UNCHANGED <<version, text, nextLease, loads>>

DocumentStutters == UNCHANGED <<version, text, holder, nextLease, loads>>

(* Every step of a connection is one of these, or leaves the document.     *)
LEMMA DocumentSteps ==
    ASSUME TypeOK, NEW c \in Connections, UserStep(c) \/ TaskStep(c) \/ ServerStep(c)
    PROVE  \/ AcceptStep(c) \/ LoadStep \/ GrantStep(c) \/ ReleaseStep(c)
           \/ DocumentStutters
<1>1. CASE UserStep(c)
  BY <1>1 DEF UserStep, Connect, Type, Request, Disconnect, CloseTab, document,
              DocumentStutters
<1>2. CASE TaskStep(c)
  BY <1>2 DEF TaskStep, SendFrame, ReceiveFrame, ApplyEvent, document, DocumentStutters
<1>3. CASE AcceptEdit(c)
  <2>1. Head(toServer[c]).txn \in Nat
    BY <1>3, HeadTypes, MessageFields DEF AcceptEdit, Serving, EditMessage
  <2>2. holder = c
    BY <1>3 DEF AcceptEdit, Verdicts
  <2>3. /\ text' = Append(text, [by |-> c, n |-> Head(toServer[c]).txn])
        /\ version' = version + 1
        /\ UNCHANGED <<holder, nextLease, loads>>
    BY <1>3 DEF AcceptEdit
  <2> QED
    BY <2>1, <2>2, <2>3 DEF AcceptStep
<1>4. CASE RejectEdit(c) \/ ServeResync(c) \/ RefuseRequest(c) \/ AnswerReload(c)
  BY <1>4 DEF RejectEdit, ServeResync, RefuseRequest, AnswerReload, document, DocumentStutters
<1>5. CASE ServeOpen(c)
  BY <1>5 DEF ServeOpen, GrantStep, DocumentStutters
<1>6. CASE CommitReload(c)
  BY <1>6 DEF CommitReload, LoadStep, DocumentStutters
<1>7. CASE ReleaseAccess(c)
  BY <1>7 DEF ReleaseAccess, ReleaseStep, DocumentStutters
<1> QED
  BY <1>1, <1>2, <1>3, <1>4, <1>5, <1>6, <1>7 DEF ServerStep

(* The invariant of the refinement holds initially.                        *)
LEMMA RefineInit == Init => RefineInv
BY TypeInit DEF Init, RefineInv, StoredTokensAreOld

(* Every step keeps the invariant of the refinement.                       *)
LEMMA RefineStep == RefineInv /\ [Next]_vars => RefineInv'
<1> SUFFICES ASSUME RefineInv, [Next]_vars PROVE StoredTokensAreOld'
  BY TypeStep DEF RefineInv
<1> USE DEF RefineInv, StoredTokensAreOld
<1>1. CASE UNCHANGED vars
  BY <1>1 DEF vars, document
<1>2. ASSUME NEW c \in Connections, UserStep(c) \/ TaskStep(c) \/ ServerStep(c)
      PROVE  StoredTokensAreOld'
  <2>1. CASE AcceptStep(c)
    <3>1. PICK n \in Nat : text' = Append(text, [by |-> c, n |-> n])
      BY <2>1 DEF AcceptStep
    <3>2. [by |-> c, n |-> n] \in Token /\ text \in Text /\ loads' = loads
      BY <2>1 DEF Token, TypeOK, AcceptStep
    <3>3. [by |-> c, n |-> n].by # NoConnection
      BY ConnectionsAssumption
    <3> DEFINE t == [by |-> c, n |-> n]
    <3> HIDE DEF t
    <3>4. /\ Len(text') = Len(text) + 1
          /\ \A i \in 1..Len(text) : text'[i] = text[i]
          /\ text'[Len(text) + 1] = t
          /\ Len(text) \in Nat
      BY <3>1, <3>2, AppendToText DEF t, Text
    <3>5. t.by # NoConnection
      BY <3>3 DEF t
    <3>6. \A i \in 1..Len(text') : i \in 1..Len(text) \/ i = Len(text) + 1
      BY <3>4
    <3> QED
      BY <3>2, <3>4, <3>5, <3>6
  <2>2. CASE LoadStep
    BY <2>2 DEF LoadStep, TypeOK
  <2>3. CASE GrantStep(c) \/ ReleaseStep(c) \/ DocumentStutters
    BY <2>3 DEF GrantStep, ReleaseStep, DocumentStutters
  <2> QED
    BY <1>2, <2>1, <2>2, <2>3, DocumentSteps
<1>3. ASSUME NEW c \in Connections, NEW d \in Connections, Reconnect(c, d)
      PROVE  StoredTokensAreOld'
  BY <1>3 DEF Reconnect, document
<1> QED
  BY <1>1, <1>2, <1>3 DEF Next

(* Initial states map to initial states.                                   *)
LEMMA PromiseInit == Init => Promise!Init
BY DEF Init, Promise!Init

(* Every step maps to a step of the abstract document or a stutter.        *)
LEMMA PromiseStep == RefineInv /\ [Next]_vars => [Promise!Next]_(Promise!vars)
<1> SUFFICES ASSUME RefineInv, [Next]_vars PROVE [Promise!Next]_(Promise!vars)
  OBVIOUS
<1>1. CASE UNCHANGED vars
  BY <1>1 DEF vars, document, Promise!vars
<1>2. ASSUME NEW c \in Connections, UserStep(c) \/ TaskStep(c) \/ ServerStep(c)
      PROVE  [Promise!Next]_(Promise!vars)
  <2>1. CASE AcceptStep(c)
    <3>1. PICK n \in Nat : text' = Append(text, [by |-> c, n |-> n])
      BY <2>1 DEF AcceptStep
    <3>2. [by |-> c, n |-> n] \in Token /\ text \in Text
      BY DEF Token, RefineInv, TypeOK
    <3> DEFINE t == [by |-> c, n |-> n]
    <3>3. t.by = c
      OBVIOUS
    <3> HIDE DEF t
    <3>4. /\ Len(text') = Len(text) + 1
          /\ SubSeq(text', 1, Len(text)) = text
          /\ text'[Len(text) + 1] = t
      BY <3>1, <3>2, AppendToText DEF t
    <3>5. Promise!Apply(c)
      BY <2>1, <3>3, <3>4 DEF AcceptStep, Promise!Apply
    <3> QED
      BY <3>5 DEF Promise!Next
  <2>2. CASE LoadStep
    <3>1. text' # text
      <4> SUFFICES ASSUME text' = text PROVE FALSE
        OBVIOUS
      <4>1. text = <<[by |-> NoConnection, n |-> loads + 1]>> /\ loads \in Nat
        BY <2>2 DEF LoadStep, RefineInv, TypeOK
      <4>2. 1 \in 1..Len(text) /\ text[1].by = NoConnection /\ text[1].n = loads + 1
        BY <4>1
      <4> QED
        BY <4>1, <4>2 DEF RefineInv, StoredTokensAreOld
    <3>2. Promise!Load
      BY <2>2, <3>1 DEF LoadStep, Promise!Load
    <3> QED
      BY <3>2 DEF Promise!Next
  <2>3. CASE GrantStep(c)
    BY <2>3 DEF GrantStep, Promise!Grant, Promise!Next
  <2>4. CASE ReleaseStep(c)
    BY <2>4 DEF ReleaseStep, Promise!Release, Promise!Next
  <2>5. CASE DocumentStutters
    BY <2>5 DEF DocumentStutters, Promise!vars
  <2> QED
    BY <1>2, <2>1, <2>2, <2>3, <2>4, <2>5, DocumentSteps DEF RefineInv
<1>3. ASSUME NEW c \in Connections, NEW d \in Connections, Reconnect(c, d)
      PROVE  [Promise!Next]_(Promise!vars)
  BY <1>3 DEF Reconnect, document, Promise!vars
<1> QED
  BY <1>1, <1>2, <1>3 DEF Next

(* The client-server synchronisation of a document, with any number of     *)
(* connections and any delays, implements one versioned document: every    *)
(* change of the text has a new version, is the holder's append or a load  *)
(* from storage, and a lease is granted only when it is free.              *)
THEOREM SyncImplementsDocument == Spec => ImplementsVersionedDocument
<1>1. RefineInv /\ [Next]_vars => [Promise!Next]_(Promise!vars)
  BY PromiseStep
<1> QED
  BY <1>1, RefineInit, RefineStep, PromiseInit, PTL
  DEF Spec, ImplementsVersionedDocument, Promise!Spec

--------------------------------------------------------------------------------
(* The versions a client is told.                                          *)

(* No versioned message of the queue is newer than v.                      *)
UpTo(q, v) == \A i \in 1..Len(q) : Versioned(q[i]) => q[i].version <= v

(* Versions never decrease along a queue, nor from one queue to the next.  *)
Sorted(q) ==
    \A i, j \in 1..Len(q) :
        i <= j /\ Versioned(q[i]) /\ Versioned(q[j]) => q[i].version <= q[j].version
Across(p, q) ==
    \A i \in 1..Len(p), j \in 1..Len(q) :
        Versioned(p[i]) /\ Versioned(q[j]) => p[i].version <= q[j].version

InOrder(c) ==
    /\ view[c].open /\ ~view[c].reopening => sync[c].confirmed <= version
    /\ UpTo(events[c], version) /\ UpTo(toClient[c], version)
    /\ Sorted(events[c]) /\ Sorted(toClient[c])
    /\ Across(events[c], toClient[c])

VersionInv == \A c \in Connections : InOrder(c)

(* A versioned message carries a version.                                  *)
LEMMA VersionedMessages ==
    ASSUME NEW m \in ServerMessage, Versioned(m)
    PROVE  m.version \in Nat /\ (m.kind = "EditAck" \/ IsSnapshot(m))
BY DEF ServerMessage, AckMessage, RejectMessage, SnapshotMessage, ElsewhereMessage, Versioned,
       IsSnapshot

(* Queues, element by element.                                             *)
LEMMA QueueElements ==
    ASSUME NEW q \in Seq(ServerMessage), NEW m \in ServerMessage
    PROVE  /\ Len(q) \in Nat /\ \A i \in 1..Len(q) : q[i] \in ServerMessage
           /\ Len(Append(q, m)) = Len(q) + 1
           /\ \A i \in 1..Len(q) : Append(q, m)[i] = q[i]
           /\ Append(q, m)[Len(q) + 1] = m
           /\ q # <<>> => /\ Len(q) >= 1 /\ Head(q) = q[1] /\ Head(q) \in ServerMessage
                          /\ Len(Tail(q)) = Len(q) - 1
                          /\ \A i \in 1..Len(Tail(q)) : i + 1 \in 1..Len(q) /\ Tail(q)[i] = q[i + 1]
OBVIOUS

(* The message at the end of a queue is the newest.                        *)
LEMMA AppendInOrder ==
    ASSUME NEW p \in Seq(ServerMessage), NEW q \in Seq(ServerMessage),
           NEW m \in ServerMessage, NEW v \in Nat,
           Versioned(m) => m.version <= v /\ UpTo(p, m.version) /\ UpTo(q, m.version),
           UpTo(q, v), Sorted(q), Across(p, q)
    PROVE  UpTo(Append(q, m), v) /\ Sorted(Append(q, m)) /\ Across(p, Append(q, m))
<1>1. /\ Len(q) \in Nat /\ Len(p) \in Nat
      /\ Len(Append(q, m)) = Len(q) + 1
      /\ \A i \in 1..Len(q) : Append(q, m)[i] = q[i]
      /\ Append(q, m)[Len(q) + 1] = m
  BY QueueElements
<1>2. \A i \in 1..Len(Append(q, m)) : i \in 1..Len(q) \/ i = Len(q) + 1
  BY <1>1
<1>3. Versioned(m) => m.version \in Nat
  BY VersionedMessages
<1> DEFINE r == Append(q, m)
<1> HIDE DEF r
<1>4. UpTo(r, v)
  BY <1>1, <1>2 DEF UpTo, r
<1>5. Across(p, r)
  BY <1>1, <1>2 DEF UpTo, Across, r
<1>6. Sorted(r)
  <2> SUFFICES ASSUME NEW i \in 1..Len(r), NEW j \in 1..Len(r), i <= j,
                      Versioned(r[i]), Versioned(r[j])
               PROVE  r[i].version <= r[j].version
    BY DEF Sorted
  <2>1. CASE j \in 1..Len(q)
    <3>1. i \in 1..Len(q)
      BY <1>1, <2>1
    <3> QED
      BY <1>1, <2>1, <3>1 DEF Sorted, r
  <2>2. CASE j = Len(q) + 1
    <3>1. r[j] = m
      BY <1>1, <2>2 DEF r
    <3>2. CASE i \in 1..Len(q)
      BY <1>1, <3>1, <3>2 DEF UpTo, r
    <3>3. CASE i = Len(q) + 1
      BY <1>1, <1>3, <3>1, <3>3 DEF r
    <3> QED
      BY <1>2, <3>2, <3>3 DEF r
  <2> QED
    BY <1>2, <2>1, <2>2 DEF r
<1> QED
  BY <1>4, <1>5, <1>6 DEF r

(* The oldest message leaves a queue.                                      *)
LEMMA TailInOrder ==
    ASSUME NEW p \in Seq(ServerMessage), NEW q \in Seq(ServerMessage), q # <<>>,
           NEW v \in Nat, UpTo(q, v), Sorted(q)
    PROVE  /\ UpTo(Tail(q), v) /\ Sorted(Tail(q))
           /\ Across(p, q) => /\ Across(p, Tail(q))
                              /\ Versioned(Head(q)) => UpTo(p, Head(q).version)
           /\ Across(q, p) => Across(Tail(q), p)
           /\ Versioned(Head(q)) =>
                  /\ Head(q).version <= v
                  /\ \A j \in 1..Len(Tail(q)) :
                         Versioned(Tail(q)[j]) => Head(q).version <= Tail(q)[j].version
<1> DEFINE t == Tail(q)
<1>1. /\ Len(q) \in Nat /\ Len(q) >= 1 /\ Head(q) = q[1] /\ Len(t) = Len(q) - 1
      /\ \A i \in 1..Len(t) : i + 1 \in 1..Len(q) /\ t[i] = q[i + 1]
  <2>1. Head(q) \in ServerMessage
    OBVIOUS
  <2> QED
    BY <2>1, QueueElements
<1>2. 1 \in 1..Len(q) /\ \A i \in 1..Len(t) : 1 <= i + 1
  BY <1>1
<1> HIDE DEF t
<1>3. UpTo(t, v)
  BY <1>1 DEF UpTo
<1>4. Sorted(t)
  <2> SUFFICES ASSUME NEW i \in 1..Len(t), NEW j \in 1..Len(t), i <= j,
                      Versioned(t[i]), Versioned(t[j])
               PROVE  t[i].version <= t[j].version
    BY DEF Sorted
  <2>1. i + 1 \in 1..Len(q) /\ j + 1 \in 1..Len(q) /\ i + 1 <= j + 1
    BY <1>1
  <2> QED
    BY <1>1, <2>1 DEF Sorted
<1>5. Across(p, q) => Across(p, t) /\ (Versioned(Head(q)) => UpTo(p, Head(q).version))
  BY <1>1, <1>2 DEF Across, UpTo
<1>6. Across(q, p) => Across(t, p)
  BY <1>1 DEF Across
<1>7. Versioned(Head(q)) =>
          /\ Head(q).version <= v
          /\ \A j \in 1..Len(t) : Versioned(t[j]) => Head(q).version <= t[j].version
  BY <1>1, <1>2 DEF Sorted, UpTo
<1> QED
  BY <1>3, <1>4, <1>5, <1>6, <1>7 DEF t

(* A later bound bounds as well.                                           *)
LEMMA UpToLater ==
    ASSUME NEW q \in Seq(ServerMessage), NEW v \in Nat, NEW w \in Nat, v <= w, UpTo(q, v)
    PROVE  UpTo(q, w)
<1> SUFFICES ASSUME NEW i \in 1..Len(q), Versioned(q[i])
             PROVE  q[i].version <= w
  BY DEF UpTo
<1>1. q[i] \in ServerMessage
  OBVIOUS
<1>2. q[i].version \in Nat
  BY <1>1, VersionedMessages
<1> QED
  BY <1>2 DEF UpTo

(* The version of the document never falls.                                *)
LEMMA VersionGrows ==
    ASSUME TypeOK, Next
    PROVE  version' \in Nat /\ version <= version'
<1>1. ASSUME NEW c \in Connections, UserStep(c) \/ TaskStep(c) \/ ServerStep(c)
      PROVE  version' = version \/ version' = version + 1
  BY <1>1 DEF UserStep, Connect, Type, Request, Disconnect, CloseTab, TaskStep, SendFrame,
     ReceiveFrame, ApplyEvent, ServerStep, AcceptEdit, RejectEdit, ServeOpen, RefuseRequest,
     ServeResync, CommitReload, AnswerReload, ReleaseAccess, document
<1>2. ASSUME NEW c \in Connections, NEW d \in Connections, Reconnect(c, d)
      PROVE  version' = version
  BY <1>2 DEF Reconnect, document
<1>3. version' = version \/ version' = version + 1
  BY <1>1, <1>2 DEF Next
<1> QED
  BY <1>3 DEF TypeOK

(* Queues that a step leaves alone stay in order.                          *)
LEMMA OrderKept ==
    ASSUME TypeOK, Next, NEW c \in Connections, InOrder(c),
           events'[c] = events[c], toClient'[c] = toClient[c],
           \/ ~view'[c].open \/ view'[c].reopening
           \/ view'[c].open = view[c].open /\ view'[c].reopening = view[c].reopening
              /\ sync'[c].confirmed = sync[c].confirmed
    PROVE  InOrder(c)'
<1>1. /\ version \in Nat /\ version' \in Nat /\ version <= version'
      /\ events[c] \in Seq(ServerMessage) /\ toClient[c] \in Seq(ServerMessage)
      /\ sync[c].confirmed \in Nat
  BY VersionGrows DEF TypeOK, SyncState
<1>2. UpTo(events[c], version') /\ UpTo(toClient[c], version')
  BY <1>1, UpToLater DEF InOrder
<1> QED
  BY <1>1, <1>2 DEF InOrder

(* Typing, sending, and what else leaves both queues alone.                *)
LEMMA SilentInOrder ==
    ASSUME TypeOK, Next, NEW c \in Connections, InOrder(c),
           \/ Connect(c) \/ Type(c) \/ (\E kind \in {"Open", "Reload", "Resync"} : Request(c, kind))
           \/ SendFrame(c) \/ CommitReload(c) \/ ReleaseAccess(c)
    PROVE  InOrder(c)'
<1>0. view[c] \in View /\ sync[c] \in SyncState
  BY DEF TypeOK
<1>1. UNCHANGED <<events, toClient>>
  BY DEF Connect, Type, Request, SendFrame, CommitReload, ReleaseAccess, wires, client
<1>2. CASE Type(c)
  <2>1. view'[c].open = view[c].open /\ view'[c].reopening = view[c].reopening
    BY <1>0, <1>2 DEF Type, TypeOK, View
  <2>2. sync'[c].confirmed = sync[c].confirmed
    <3>1. CASE sync' = sync
      BY <3>1
    <3>2. CASE sync' # sync
      <4>1. sync' = [sync EXCEPT ![c] = reserve_pending(@, nextTxn[c] + 1)]
        BY <1>2, <3>2 DEF Type
      <4>2. sync'[c] = reserve_pending(sync[c], nextTxn[c] + 1)
        BY <4>1 DEF TypeOK
      <4> QED
        BY <1>0, <4>2 DEF reserve_pending, SyncState
    <3> QED
      BY <3>1, <3>2
  <2> QED
    BY <1>1, <2>1, <2>2, OrderKept
<1>3. CASE UNCHANGED <<view, sync>>
  BY <1>1, <1>3, OrderKept
<1> QED
  BY <1>2, <1>3 DEF Connect, Request, SendFrame, CommitReload, ReleaseAccess, client, pane

(* The connection ends: the frames on the wire are lost.                   *)
LEMMA EndsInOrder ==
    ASSUME TypeOK, Next, NEW c \in Connections, InOrder(c), Disconnect(c) \/ CloseTab(c)
    PROVE  InOrder(c)'
<1>1. /\ version \in Nat /\ version' \in Nat /\ version <= version'
      /\ events[c] \in Seq(ServerMessage) /\ sync[c].confirmed \in Nat
  BY VersionGrows DEF TypeOK, SyncState
<1>2. toClient'[c] = <<>> /\ (events'[c] = events[c] \/ events'[c] = <<>>)
  BY DEF Disconnect, CloseTab, TypeOK
<1>3. \/ view'[c].open = FALSE
      \/ view'[c] = view[c] /\ sync'[c] = sync[c]
  BY DEF Disconnect, CloseTab, pane, TypeOK, ClosedView
<1>4. UpTo(events[c], version')
  BY <1>1, UpToLater DEF InOrder
<1>5. UpTo(<<>>, version') /\ Sorted(<<>>) /\ Across(events[c], <<>>) /\ Across(<<>>, <<>>)
  BY DEF UpTo, Sorted, Across
<1> QED
  BY <1>1, <1>2, <1>3, <1>4, <1>5 DEF InOrder

(* A frame moves from the wire to the events, and the sync state follows.  *)
LEMMA ReceivedInOrder ==
    ASSUME TypeOK, Next, NEW c \in Connections, InOrder(c), ReceiveFrame(c)
    PROVE  InOrder(c)'
<1> DEFINE m == Head(toClient[c])
           E == events[c]
           T == toClient[c]
<1>1. /\ version \in Nat /\ version' = version
      /\ E \in Seq(ServerMessage) /\ T \in Seq(ServerMessage) /\ T # <<>>
      /\ sync[c] \in SyncState /\ sync[c].confirmed \in Nat
  BY DEF TypeOK, ReceiveFrame, document, SyncState
<1>2. m \in ServerMessage
  BY <1>1
<1>3. events'[c] = Append(E, m) /\ toClient'[c] = Tail(T) /\ view'[c] = view[c]
  BY DEF ReceiveFrame, pane, TypeOK
<1>4. sync'[c] = CASE m.kind = "EditAck" -> acknowledge(sync[c], m.version, m.txn)
                   [] m.kind = "EditRejected" -> reject(sync[c], m.txn)
                   [] m.kind \in {"ResyncSnapshot", "DocumentReloaded"} ->
                        install(m.version, m.lease)
                   [] OTHER -> sync[c]
  BY DEF ReceiveFrame, TypeOK
<1> HIDE DEF m, E, T
<1>5. /\ UpTo(E, version) /\ UpTo(T, version) /\ Sorted(E) /\ Sorted(T) /\ Across(E, T)
  BY DEF InOrder, E, T
<1>6. /\ UpTo(Tail(T), version) /\ Sorted(Tail(T)) /\ Across(E, Tail(T))
      /\ Versioned(m) =>
             /\ UpTo(E, m.version) /\ m.version <= version
             /\ \A j \in 1..Len(Tail(T)) : Versioned(Tail(T)[j]) => m.version <= Tail(T)[j].version
  <2>1. m = Head(T)
    BY DEF m, T
  <2> QED
    BY <1>1, <1>5, <2>1, TailInOrder
<1>7. UpTo(Append(E, m), version) /\ Sorted(Append(E, m))
  <2>1. Across(<<>>, E) /\ <<>> \in Seq(ServerMessage) /\ (Versioned(m) => UpTo(<<>>, m.version))
    BY DEF Across, UpTo
  <2> QED
    BY <1>1, <1>2, <1>5, <1>6, <2>1, AppendInOrder
<1>8. Across(Append(E, m), Tail(T))
  <2>1. /\ Len(Append(E, m)) = Len(E) + 1 /\ Len(E) \in Nat
        /\ \A i \in 1..Len(E) : Append(E, m)[i] = E[i]
        /\ Append(E, m)[Len(E) + 1] = m
    BY <1>1, <1>2, QueueElements
  <2>2. \A i \in 1..Len(Append(E, m)) : i \in 1..Len(E) \/ i = Len(E) + 1
    BY <2>1
  <2> QED
    BY <1>6, <2>1, <2>2 DEF Across
<1>9. sync'[c].confirmed \in {sync[c].confirmed, m.version}
      /\ (sync'[c].confirmed # sync[c].confirmed => Versioned(m))
  <2>1. CASE m.kind = "EditAck"
    <3>1. sync'[c] = acknowledge(sync[c], m.version, m.txn) /\ Versioned(m)
      BY <1>4, <2>1 DEF Versioned
    <3> QED
      BY <1>1, <3>1 DEF acknowledge, SyncState
  <2>2. CASE m.kind = "EditRejected"
    <3>1. sync'[c] = reject(sync[c], m.txn)
      BY <1>4, <2>2
    <3> QED
      BY <1>1, <3>1 DEF reject, SyncState
  <2>3. CASE m.kind \in {"ResyncSnapshot", "DocumentReloaded"}
    <3>1. sync'[c] = install(m.version, m.lease) /\ Versioned(m)
      BY <1>4, <2>3 DEF Versioned
    <3> QED
      BY <3>1 DEF install
  <2>4. CASE m.kind \notin {"EditAck", "EditRejected", "ResyncSnapshot", "DocumentReloaded"}
    BY <1>4, <2>4
  <2> QED
    BY <2>1, <2>2, <2>3, <2>4
<1>10. view'[c].open /\ ~view'[c].reopening => sync'[c].confirmed <= version'
  BY <1>1, <1>3, <1>6, <1>9 DEF InOrder
<1> QED
  BY <1>1, <1>3, <1>6, <1>7, <1>8, <1>10 DEF InOrder

(* The UI takes the oldest event; a snapshot it loads is not ahead.        *)
LEMMA AppliedInOrder ==
    ASSUME TypeOK, Next, NEW c \in Connections, InOrder(c), ApplyEvent(c)
    PROVE  InOrder(c)'
<1> DEFINE e == Head(events[c])
<1>1. /\ version \in Nat /\ version' = version
      /\ events[c] \in Seq(ServerMessage) /\ toClient[c] \in Seq(ServerMessage)
      /\ events[c] # <<>> /\ view[c] \in View /\ sync[c].confirmed \in Nat
      /\ e \in ServerMessage
  BY HeadTypes DEF TypeOK, ApplyEvent, document, SyncState
<1>2. events'[c] = Tail(events[c]) /\ toClient'[c] = toClient[c]
  BY DEF ApplyEvent, wires, TypeOK
<1>3. /\ UpTo(Tail(events[c]), version) /\ Sorted(Tail(events[c]))
      /\ Across(Tail(events[c]), toClient[c])
      /\ Versioned(e) => e.version <= version
  BY <1>1, TailInOrder DEF InOrder
<1>4. view'[c].open /\ ~view'[c].reopening => sync'[c].confirmed <= version
  <2>1. CASE LoadSnapshot(c, e) /\ IsSnapshot(e)
    <3>1. sync'[c] = install(e.version, e.lease) /\ Versioned(e)
      BY <2>1 DEF LoadSnapshot, TypeOK, IsSnapshot, Versioned
    <3> QED
      BY <1>3, <3>1 DEF install
  <2>2. CASE UNCHANGED <<view, sync>>
    BY <2>2 DEF InOrder
  <2>3. CASE view' = [view EXCEPT ![c] = ClosedView]
    BY <2>3 DEF TypeOK, ClosedView
  <2>4. CASE sync' = sync /\ \E r : view' = [view EXCEPT ![c].recover = r]
    <3>1. view'[c].open = view[c].open /\ view'[c].reopening = view[c].reopening
      BY <1>1, <2>4 DEF TypeOK, View
    <3> QED
      BY <2>4, <3>1 DEF InOrder
  <2> QED
    BY <2>1, <2>2, <2>3, <2>4 DEF ApplyEvent, IsSnapshot
<1> QED
  BY <1>1, <1>2, <1>3, <1>4 DEF InOrder

(* The server answers with the version of the moment.                      *)
LEMMA RepliesInOrder ==
    ASSUME TypeOK, Next, NEW c \in Connections, InOrder(c), NEW m \in ServerMessage, Reply(c, m),
           Versioned(m) => m.version = version', UNCHANGED <<events, view, sync>>
    PROVE  InOrder(c)'
<1>1. /\ version \in Nat /\ version' \in Nat /\ version <= version'
      /\ events[c] \in Seq(ServerMessage) /\ toClient[c] \in Seq(ServerMessage)
      /\ sync[c].confirmed \in Nat
  BY VersionGrows DEF TypeOK, SyncState
<1>2. UpTo(events[c], version') /\ UpTo(toClient[c], version')
  BY <1>1, UpToLater DEF InOrder
<1>3. CASE toClient' = toClient
  BY <1>3, OrderKept
<1>4. CASE toClient' = [toClient EXCEPT ![c] = Append(@, m)]
  <2>1. toClient'[c] = Append(toClient[c], m)
    BY <1>4 DEF TypeOK
  <2>2. Versioned(m) => /\ m.version <= version'
                        /\ UpTo(events[c], m.version) /\ UpTo(toClient[c], m.version)
    BY <1>1, <1>2
  <2>3. Sorted(toClient[c]) /\ Across(events[c], toClient[c]) /\ Sorted(events[c])
    BY DEF InOrder
  <2>4. /\ UpTo(Append(toClient[c], m), version') /\ Sorted(Append(toClient[c], m))
        /\ Across(events[c], Append(toClient[c], m))
    BY <1>1, <1>2, <2>2, <2>3, AppendInOrder
  <2> QED
    BY <1>1, <1>2, <2>1, <2>3, <2>4 DEF InOrder
<1> QED
  BY <1>3, <1>4 DEF Reply

(* Every step of the server's handler.                                     *)
LEMMA ServedInOrder ==
    ASSUME TypeOK, Next, NEW c \in Connections, InOrder(c), ServerStep(c)
    PROVE  InOrder(c)'
<1>0. /\ version \in Nat /\ text \in Text /\ version + 1 \in Nat
      /\ leaseId \in Nat /\ nextLease \in Nat
      /\ toServer[c] \in Seq(ClientMessage)
  BY DEF TypeOK
<1>1. CASE CommitReload(c) \/ ReleaseAccess(c)
  BY <1>1, SilentInOrder
<1>2. CASE AcceptEdit(c)
  <2> DEFINE m == [kind |-> "EditAck", version |-> version + 1, txn |-> Head(toServer[c]).txn]
  <2>1. Head(toServer[c]).txn \in Nat
    BY <1>0, <1>2, HeadTypes, MessageFields DEF AcceptEdit, Serving, EditMessage
  <2>2. m \in ServerMessage
    BY <1>0, <2>1 DEF ServerMessage, AckMessage
  <2>3. Reply(c, m) /\ m.version = version' /\ UNCHANGED <<events, view, sync>>
    BY <1>2 DEF AcceptEdit, client, pane
  <2> HIDE DEF m
  <2> QED
    BY <2>2, <2>3, RepliesInOrder
<1>3. CASE RejectEdit(c)
  <2>1. Head(toServer[c]).txn \in Nat
    BY <1>0, <1>3, HeadTypes, MessageFields DEF RejectEdit, Serving, EditMessage
  <2>2. PICK reason \in Verdicts(c, Head(toServer[c])) \ {"Accepted"} :
           Reply(c, [kind |-> "EditRejected", txn |-> Head(toServer[c]).txn, reason |-> reason])
    BY <1>3 DEF RejectEdit
  <2>3. reason \in Rejection
    BY <2>2 DEF Verdicts, Rejection
  <2> DEFINE m == [kind |-> "EditRejected", txn |-> Head(toServer[c]).txn, reason |-> reason]
  <2>4. m \in ServerMessage /\ ~Versioned(m) /\ Reply(c, m)
    BY <2>1, <2>2, <2>3 DEF ServerMessage, RejectMessage, Versioned
  <2>5. UNCHANGED <<events, view, sync>>
    BY <1>3 DEF RejectEdit, client, pane
  <2> HIDE DEF m
  <2> QED
    BY <2>4, <2>5, RepliesInOrder
<1>4. ASSUME NEW kind \in {"DocumentOpened", "ResyncSnapshot", "DocumentReloaded"},
             NEW t \in Text, NEW l \in Nat,
             Reply(c, [kind |-> kind, version |-> version, text |-> t, lease |-> l]),
             UNCHANGED <<version, events, view, sync>>
      PROVE  InOrder(c)'
  <2> DEFINE m == [kind |-> kind, version |-> version, text |-> t, lease |-> l]
  <2>1. m \in ServerMessage /\ m.version = version' /\ Reply(c, m)
    BY <1>0, <1>4 DEF ServerMessage, SnapshotMessage
  <2> HIDE DEF m
  <2> QED
    BY <1>4, <2>1, RepliesInOrder
<1>5. CASE ServeOpen(c)
  <2> DEFINE l == IF holder' = c THEN leaseId' ELSE NoLease
  <2>1. l \in Nat
    BY <1>0, <1>5 DEF ServeOpen, NoLease
  <2>2. /\ Reply(c, [kind |-> "DocumentOpened", version |-> version, text |-> text, lease |-> l])
        /\ UNCHANGED <<version, events, view, sync>>
    BY <1>5 DEF ServeOpen, client, pane
  <2> HIDE DEF l
  <2> QED
    BY <1>0, <1>4, <2>1, <2>2
<1>6. CASE RefuseRequest(c)
  <2>0. UNCHANGED <<version, events, view, sync>>
    BY <1>6 DEF RefuseRequest, document, client, pane
  <2>1. CASE Reply(c, [kind |-> "OtherOpened"])
    <3> DEFINE m == [kind |-> "OtherOpened"]
    <3>1. m \in ServerMessage /\ ~Versioned(m) /\ Reply(c, m)
      BY <2>1 DEF ServerMessage, ElsewhereMessage, Versioned
    <3> HIDE DEF m
    <3> QED
      BY <2>0, <3>1, RepliesInOrder
  <2>2. CASE UNCHANGED toClient
    BY <2>0, <2>2, OrderKept
  <2> QED
    BY <1>6, <2>1, <2>2 DEF RefuseRequest
<1>7. lease_for_client(c) \in Nat
  BY <1>0 DEF lease_for_client, NoLease
<1>8. CASE ServeResync(c)
  <2>1. /\ Reply(c, [kind |-> "ResyncSnapshot", version |-> version, text |-> text,
                     lease |-> lease_for_client(c)])
        /\ UNCHANGED <<version, events, view, sync>>
    BY <1>8 DEF ServeResync, document, client, pane
  <2> QED
    BY <1>0, <1>4, <1>7, <2>1
<1>9. CASE AnswerReload(c)
  <2>1. Head(reloading[c]) \in Text
    BY <1>9, HeadTypes DEF AnswerReload, TypeOK
  <2>2. /\ Reply(c, [kind |-> "DocumentReloaded", version |-> version,
                     text |-> Head(reloading[c]), lease |-> lease_for_client(c)])
        /\ UNCHANGED <<version, events, view, sync>>
    BY <1>9 DEF AnswerReload, document, client, pane
  <2> QED
    BY <1>4, <1>7, <2>1, <2>2
<1> QED
  BY <1>1, <1>2, <1>3, <1>5, <1>6, <1>8, <1>9 DEF ServerStep

LEMMA VersionInit == Init => VersionInv
<1> SUFFICES ASSUME Init, NEW c \in Connections
             PROVE  InOrder(c)
  BY DEF VersionInv
<1>1. events[c] = <<>> /\ toClient[c] = <<>> /\ ~view[c].open
  BY DEF Init, ClosedView
<1>2. UpTo(<<>>, version) /\ Sorted(<<>>) /\ Across(<<>>, <<>>)
  BY DEF UpTo, Sorted, Across
<1> QED
  BY <1>1, <1>2 DEF InOrder

LEMMA VersionStep == TypeOK /\ VersionInv /\ [Next]_vars => VersionInv'
<1> SUFFICES ASSUME TypeOK, VersionInv, [Next]_vars, NEW d \in Connections
             PROVE  InOrder(d)'
  BY DEF VersionInv
<1>0. InOrder(d)
  BY DEF VersionInv
<1>1. CASE UNCHANGED vars
  BY <1>0, <1>1 DEF vars, document, wires, client, pane, InOrder
<1>2. ASSUME Next, NEW c \in Connections, UserStep(c) \/ TaskStep(c) \/ ServerStep(c)
      PROVE  InOrder(d)'
  <2>1. CASE d = c
    <3>1. CASE UserStep(c)
      BY <1>0, <1>2, <2>1, <3>1, SilentInOrder, EndsInOrder DEF UserStep
    <3>2. CASE TaskStep(c)
      BY <1>0, <1>2, <2>1, <3>2, SilentInOrder, ReceivedInOrder, AppliedInOrder DEF TaskStep
    <3> QED
      BY <1>0, <1>2, <2>1, <3>1, <3>2, ServedInOrder
  <2>2. CASE d # c
    <3>1. /\ view'[d] = view[d] /\ sync'[d] = sync[d]
          /\ events'[d] = events[d] /\ toClient'[d] = toClient[d]
      BY <1>2, <2>2, OthersUnchanged
    <3> QED
      BY <1>0, <1>2, <3>1, OrderKept
  <2> QED
    BY <2>1, <2>2
<1>3. ASSUME Next, NEW a \in Connections, NEW c \in Connections, Reconnect(a, c)
      PROVE  InOrder(d)'
  <2>1. events' = events /\ toClient' = toClient /\ view[a] \in View
    BY <1>3 DEF Reconnect, wires, TypeOK
  <2>2. CASE d = c
    <3>1. view'[c] = Reconnected(view[a])
      BY <1>3 DEF Reconnect, TypeOK
    <3>2. view'[c].reopening
      BY <2>1, <3>1 DEF Reconnected, View
    <3> QED
      BY <1>0, <1>3, <2>1, <2>2, <3>2, OrderKept
  <2>3. CASE d # c /\ d = a
    <3>1. view'[d] = ClosedView
      BY <1>3, <2>3 DEF Reconnect, TypeOK
    <3>2. ~view'[d].open
      BY <3>1 DEF ClosedView
    <3> QED
      BY <1>0, <1>3, <2>1, <3>2, OrderKept
  <2>4. CASE d # c /\ d # a
    <3>1. view'[d] = view[d] /\ sync'[d] = sync[d]
      BY <1>3, <2>4 DEF Reconnect, TypeOK
    <3> QED
      BY <1>0, <1>3, <2>1, <3>1, OrderKept
  <2> QED
    BY <2>2, <2>3, <2>4
<1> QED
  BY <1>1, <1>2, <1>3 DEF Next

(* The two queues one after the other.                                     *)
LEMMA OrderedConcatenation ==
    ASSUME NEW p \in Seq(ServerMessage), NEW q \in Seq(ServerMessage), NEW v \in Nat,
           UpTo(p, v), UpTo(q, v), Sorted(p), Sorted(q), Across(p, q)
    PROVE  UpTo(p \o q, v) /\ Sorted(p \o q) /\ Len(p \o q) \in Nat
<1> DEFINE r == p \o q
<1>1. /\ Len(p) \in Nat /\ Len(q) \in Nat /\ Len(r) = Len(p) + Len(q)
      /\ \A i \in 1..Len(r) :
            r[i] = IF i <= Len(p) THEN p[i] ELSE q[i - Len(p)]
  OBVIOUS
<1> HIDE DEF r
<1>2. \A i \in 1..Len(r) : \/ i \in 1..Len(p) /\ r[i] = p[i]
                           \/ i > Len(p) /\ i - Len(p) \in 1..Len(q) /\ r[i] = q[i - Len(p)]
  BY <1>1
<1>3. UpTo(r, v)
  BY <1>2 DEF UpTo
<1>4. Sorted(r)
  <2> SUFFICES ASSUME NEW i \in 1..Len(r), NEW j \in 1..Len(r), i <= j,
                      Versioned(r[i]), Versioned(r[j])
               PROVE  r[i].version <= r[j].version
    BY DEF Sorted
  <2>1. CASE j \in 1..Len(p) /\ r[j] = p[j]
    <3>1. i \in 1..Len(p) /\ r[i] = p[i]
      BY <1>1, <1>2, <2>1
    <3> QED
      BY <2>1, <3>1 DEF Sorted
  <2>2. CASE j > Len(p) /\ j - Len(p) \in 1..Len(q) /\ r[j] = q[j - Len(p)]
    <3>1. CASE i \in 1..Len(p) /\ r[i] = p[i]
      BY <2>2, <3>1 DEF Across
    <3>2. CASE i > Len(p) /\ i - Len(p) \in 1..Len(q) /\ r[i] = q[i - Len(p)]
      <4>1. i - Len(p) <= j - Len(p)
        BY <1>1
      <4> QED
        BY <2>2, <3>2, <4>1 DEF Sorted
    <3> QED
      BY <1>2, <3>1, <3>2
  <2> QED
    BY <1>2, <2>1, <2>2
<1> QED
  BY <1>1, <1>3, <1>4 DEF r

(* Whatever is accepted, rejected, reloaded, resynchronised, lost and      *)
(* reconnected, no client is told an older version after a newer one, and  *)
(* none believes in a version the server does not have yet                 *)
(* (run_connection_loop, apply_message and update_opened_document_authority*)
(* keep the order of the handler's replies).                               *)
THEOREM VersionsStayInOrder == Spec => []VersionsArriveInOrder
<1>1. TypeOK /\ VersionInv => VersionsArriveInOrder
  <2> SUFFICES ASSUME TypeOK, VersionInv
               PROVE  VersionsArriveInOrder
    OBVIOUS
  <2>1. ASSUME NEW c \in Connections
        PROVE  LET told == events[c] \o toClient[c]
               IN  /\ view[c].open /\ ~view[c].reopening => sync[c].confirmed <= version
                   /\ \A j \in 1..Len(told) : Versioned(told[j]) =>
                        /\ told[j].version <= version
                        /\ \A i \in 1..j : Versioned(told[i]) => told[i].version <= told[j].version
    <3> DEFINE told == events[c] \o toClient[c]
    <3>1. InOrder(c)
      BY DEF VersionInv
    <3>2. /\ events[c] \in Seq(ServerMessage) /\ toClient[c] \in Seq(ServerMessage)
          /\ version \in Nat
      BY DEF TypeOK
    <3>3. UpTo(told, version) /\ Sorted(told) /\ Len(told) \in Nat
      <4>1. /\ UpTo(events[c], version) /\ UpTo(toClient[c], version)
            /\ Sorted(events[c]) /\ Sorted(toClient[c]) /\ Across(events[c], toClient[c])
        BY <3>1 DEF InOrder
      <4> QED
        BY <3>2, <4>1, OrderedConcatenation
    <3> HIDE DEF told
    <3>4. \A j \in 1..Len(told) : \A i \in 1..j : i \in 1..Len(told) /\ i <= j
      BY <3>3
    <3>5. \A j \in 1..Len(told) : Versioned(told[j]) =>
            /\ told[j].version <= version
            /\ \A i \in 1..j : Versioned(told[i]) => told[i].version <= told[j].version
      BY <3>3, <3>4 DEF UpTo, Sorted
    <3> QED
      BY <3>1, <3>5 DEF InOrder, told
  <2> QED
    BY <2>1 DEF VersionsArriveInOrder
<1> QED
  BY TypeInit, TypeStep, VersionInit, VersionStep, <1>1, PTL DEF Spec

================================================================================
