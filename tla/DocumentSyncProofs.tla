--------------------------- MODULE DocumentSyncProofs ---------------------------
(* Theorems about DocumentSync, for every set of connections and every     *)
(* bound.                                                                  *)
EXTENDS DocumentSync, TLAPS

(* Removing a transaction from a pending queue leaves a pending queue.     *)
LEMMA RemoveTxnType ==
    ASSUME NEW p \in Seq(Pending), NEW t \in Nat
    PROVE  RemoveTxn(p, t) \in Seq(Pending)
<1>1. CASE \E i \in 1..Len(p) : p[i].txn = t
  <2> DEFINE k == CHOOSE i \in 1..Len(p) : p[i].txn = t
  <2>1. k \in 1..Len(p)
    BY <1>1
  <2> HIDE DEF k
  <2>2. SubSeq(p, 1, k - 1) \in Seq(Pending) /\ SubSeq(p, k + 1, Len(p)) \in Seq(Pending)
    BY <2>1
  <2>3. SubSeq(p, 1, k - 1) \o SubSeq(p, k + 1, Len(p)) \in Seq(Pending)
    BY <2>2
  <2> QED
    BY <1>1, <2>3 DEF RemoveTxn, k
<1>2. CASE ~ \E i \in 1..Len(p) : p[i].txn = t
  BY <1>2 DEF RemoveTxn
<1> QED
  BY <1>1, <1>2

(* The base of the next edit is a version.                                 *)
LEMMA NextBaseType ==
    ASSUME NEW p \in Seq(Pending), NEW v \in Nat
    PROVE  NextBase(v, p) \in Nat
<1>1. CASE p = <<>>
  BY <1>1 DEF NextBase
<1>2. CASE p # <<>>
  <2>1. p[Len(p)] \in Pending
    BY <1>2
  <2> QED
    BY <1>2, <2>1 DEF NextBase, Pending
<1> QED
  BY <1>1, <1>2

(* The operations of ClientSyncState keep a document's entry well formed.  *)
LEMMA SyncOperationsType ==
    ASSUME NEW s \in SyncState, NEW t \in Nat, NEW v \in Nat, NEW l \in Nat
    PROVE  /\ reserve_pending(s, t) \in SyncState
           /\ acknowledge(s, v, t) \in SyncState
           /\ reject(s, t) \in SyncState
           /\ install(v, l) \in SyncState
<1> s.pending \in Seq(Pending) /\ s.confirmed \in Nat /\ s.optimistic \in Nat /\ s.lease \in Nat
  BY DEF SyncState
<1>1. reserve_pending(s, t) \in SyncState
  <2>1. [base |-> s.optimistic, txn |-> t] \in Pending
    BY DEF Pending
  <2> DEFINE p == Append(s.pending, [base |-> s.optimistic, txn |-> t])
  <2>2. p \in Seq(Pending)
    BY <2>1
  <2> DEFINE n == s.optimistic + 1
  <2>3. n \in Nat
    OBVIOUS
  <2> HIDE DEF p, n
  <2>4. [s EXCEPT !.optimistic = n, !.pending = p] \in SyncState
    BY <2>2, <2>3 DEF SyncState
  <2> QED
    BY <2>4 DEF reserve_pending, p, n
<1>2. RemoveTxn(s.pending, t) \in Seq(Pending)
  BY RemoveTxnType
<1>3. acknowledge(s, v, t) \in SyncState
  BY <1>2 DEF acknowledge, SyncState
<1>4. reject(s, t) \in SyncState
  <2>1. NextBase(s.confirmed, RemoveTxn(s.pending, t)) \in Nat
    BY <1>2, NextBaseType
  <2> QED
    BY <1>2, <2>1 DEF reject, SyncState
<1>5. install(v, l) \in SyncState
  BY DEF install, SyncState
<1> QED
  BY <1>1, <1>3, <1>4, <1>5

--------------------------------------------------------------------------------
(* Facts about the messages at the heads of the queues.                    *)
LEMMA HeadTypes ==
    ASSUME TypeOK, NEW c \in Connections
    PROVE  /\ toServer[c] # <<>> => Head(toServer[c]) \in ClientMessage
           /\ toClient[c] # <<>> => Head(toClient[c]) \in ServerMessage
           /\ outgoing[c] # <<>> => Head(outgoing[c]) \in ClientMessage
           /\ events[c] # <<>> => Head(events[c]) \in ServerMessage
           /\ reloading[c] # <<>> => Head(reloading[c]) \in Text
<1>1. /\ toServer[c] \in Seq(ClientMessage) /\ outgoing[c] \in Seq(ClientMessage)
      /\ toClient[c] \in Seq(ServerMessage) /\ events[c] \in Seq(ServerMessage)
      /\ reloading[c] \in Seq(Text)
  BY DEF TypeOK
<1> QED
  BY <1>1

(* What each kind of message carries.                                      *)
LEMMA MessageFields ==
    /\ \A m \in ClientMessage : m.kind = "Edit" => m \in EditMessage
    /\ \A m \in ServerMessage :
          /\ m.kind = "EditAck" => m.version \in Nat /\ m.txn \in Nat
          /\ m.kind = "EditRejected" => m.txn \in Nat /\ m.reason \in Rejection
          /\ IsSnapshot(m) => m.version \in Nat /\ m.text \in Text /\ m.lease \in Nat
BY DEF ClientMessage, EditMessage, RequestMessage, ServerMessage, AckMessage, RejectMessage,
       SnapshotMessage, ElsewhereMessage, IsSnapshot

(* A reply of the right type keeps the frames well typed.                  *)
LEMMA ReplyType ==
    ASSUME TypeOK, NEW c \in Connections, NEW m \in ServerMessage, Reply(c, m)
    PROVE  toClient' \in [Connections -> Seq(ServerMessage)]
BY DEF TypeOK, Reply

(* Taking the oldest frame keeps the frames well typed.                    *)
LEMMA TakeType ==
    ASSUME TypeOK, NEW c \in Connections, toServer[c] # <<>>, Take(c)
    PROVE  toServer' \in [Connections -> Seq(ClientMessage)]
BY DEF TypeOK, Take

(* A change of one connection's channel that stays within its capacity     *)
(* keeps every channel within its capacity.                                *)
LEMMA ChannelBound ==
    ASSUME TypeOK, NEW c \in Connections, NEW q, Len(q) <= QueueCapacity,
           outgoing' = [outgoing EXCEPT ![c] = q] \/ outgoing' = outgoing
    PROVE  \A d \in Connections : Len(outgoing'[d]) <= QueueCapacity
BY DEF TypeOK

(* Loading a snapshot keeps the pane and the sync state well typed.        *)
LEMMA LoadSnapshotType ==
    ASSUME TypeOK, NEW c \in Connections, NEW e \in ServerMessage, IsSnapshot(e),
           LoadSnapshot(c, e)
    PROVE  view' \in [Connections -> View] /\ sync' \in [Connections -> SyncState]
<1>1. e.version \in Nat /\ e.text \in Text /\ e.lease \in Nat
  BY MessageFields
<1> DEFINE r == view[c].reopening /\ e.kind # "DocumentOpened"
           v == [open |-> TRUE, lease |-> e.lease, text |-> e.text, recover |-> FALSE,
                 reopening |-> r]
<1>2. v \in View
  <2>1. r \in BOOLEAN
    OBVIOUS
  <2> HIDE DEF r
  <2> QED
    BY <1>1, <2>1 DEF View
<1>3. install(e.version, e.lease) \in SyncState
  BY <1>1 DEF install, SyncState
<1>4. view' = [view EXCEPT ![c] = v]
  BY DEF LoadSnapshot, TypeOK
<1> HIDE DEF v
<1>5. view' \in [Connections -> View]
  BY <1>2, <1>4 DEF TypeOK
<1>6. sync' \in [Connections -> SyncState]
  BY <1>3 DEF LoadSnapshot, TypeOK
<1> QED
  BY <1>5, <1>6

(* Typing, sent or not, keeps the state well formed.                       *)
LEMMA TypeType ==
    ASSUME TypeOK, NEW c \in Connections, Type(c)
    PROVE  TypeOK'
<1> DEFINE txn == nextTxn[c] + 1
           lease == LeaseToSend(c)
           edit == [kind |-> "Edit", base |-> sync[c].optimistic, txn |-> txn,
                    lease |-> lease, on |-> view[c].text]
<1>1. sync[c] \in SyncState /\ view[c] \in View /\ nextTxn[c] \in Nat /\ welcome[c] \in Nat
  BY DEF TypeOK
<1>2. txn \in Nat /\ lease \in Nat /\ edit \in ClientMessage
  <2>1. lease \in Nat
    BY <1>1 DEF LeaseToSend, SyncState, View
  <2> HIDE DEF lease
  <2> QED
    BY <1>1, <2>1 DEF SyncState, View, ClientMessage, EditMessage
<1>3. [by |-> c, n |-> txn] \in Token
  BY <1>2 DEF Token
<1>4. view' = [view EXCEPT ![c].text = Append(@, [by |-> c, n |-> txn])]
  BY DEF Type
<1> HIDE DEF txn, lease
<1>5. view' \in [Connections -> View]
  <2> DEFINE x == Append(view[c].text, [by |-> c, n |-> txn])
  <2>1. x \in Text
    BY <1>1, <1>3 DEF View, Text
  <2> HIDE DEF x
  <2>2. [view[c] EXCEPT !.text = x] \in View
    BY <1>1, <2>1 DEF View
  <2>3. view' = [view EXCEPT ![c] = [view[c] EXCEPT !.text = x]]
    BY <1>4 DEF TypeOK, x
  <2> QED
    BY <2>2, <2>3 DEF TypeOK
<1>6. /\ \/ sync' = [sync EXCEPT ![c] = reserve_pending(@, txn)]
         \/ sync' = sync
      /\ \/ outgoing' = [outgoing EXCEPT ![c] = Append(@, edit)]
         \/ outgoing' = outgoing
      /\ nextTxn' = [nextTxn EXCEPT ![c] = txn]
  BY DEF Type, txn, lease
<1> HIDE DEF edit
<1>7. sync' \in [Connections -> SyncState]
  <2>1. reserve_pending(sync[c], txn) \in SyncState
    BY <1>1, <1>2, SyncOperationsType
  <2> QED
    BY <1>6, <2>1 DEF TypeOK
<1>8. outgoing' \in [Connections -> Seq(ClientMessage)] /\ nextTxn' \in [Connections -> Nat]
  <2>1. nextTxn' \in [Connections -> Nat]
    BY <1>2, <1>6 DEF TypeOK
  <2>2. outgoing[c] \in Seq(ClientMessage) /\ Append(outgoing[c], edit) \in Seq(ClientMessage)
    BY <1>2 DEF TypeOK
  <2>3. outgoing' \in [Connections -> Seq(ClientMessage)]
    BY <1>6, <2>2 DEF TypeOK
  <2> QED
    BY <2>1, <2>3
<1>9. disturbed' \in SUBSET Connections
  BY DEF Type, TypeOK
<1>10. \A d \in Connections : Len(outgoing'[d]) <= QueueCapacity
  <2>1. CASE HasRoom(c)
    <3>1. outgoing[c] \in Seq(ClientMessage) /\ edit \in ClientMessage
      BY <1>2 DEF TypeOK
    <3>2. Len(Append(outgoing[c], edit)) <= QueueCapacity
      BY <2>1, <3>1, BoundsAssumption DEF HasRoom
    <3> QED
      BY <1>6, <3>2, ChannelBound
  <2>2. CASE ~HasRoom(c)
    BY <2>2 DEF Type, TypeOK
  <2> QED
    BY <2>1, <2>2
<1> QED
  BY <1>5, <1>7, <1>8, <1>9, <1>10 DEF Type, TypeOK, document, wires

(* So does a request of the user.                                          *)
LEMMA RequestType ==
    ASSUME TypeOK, NEW c \in Connections, NEW kind \in {"Open", "Reload", "Resync"},
           Request(c, kind)
    PROVE  TypeOK'
<1>1. [kind |-> kind] \in ClientMessage
  BY DEF ClientMessage, RequestMessage
<1>2. outgoing[c] \in Seq(ClientMessage) /\ Append(outgoing[c], [kind |-> kind]) \in Seq(ClientMessage)
  BY <1>1 DEF TypeOK
<1>3. outgoing' \in [Connections -> Seq(ClientMessage)]
  BY <1>2 DEF TypeOK, Request
<1>4. requests' \in [Connections -> Nat]
  BY DEF TypeOK, Request
<1>5. \A d \in Connections : Len(outgoing'[d]) <= QueueCapacity
  <2>1. Len(Append(outgoing[c], [kind |-> kind])) <= QueueCapacity
    BY <1>2, BoundsAssumption DEF Request, HasRoom
  <2> QED
    BY <2>1, ChannelBound DEF Request
<1> QED
  BY <1>3, <1>4, <1>5 DEF TypeOK, Request, document, wires

(* So does the pane applying an event.                                     *)
LEMMA ApplyEventType ==
    ASSUME TypeOK, NEW c \in Connections, ApplyEvent(c)
    PROVE  TypeOK'
<1> DEFINE e == Head(events[c])
<1>1. events[c] # <<>> /\ e \in ServerMessage
  BY HeadTypes DEF ApplyEvent
<1>2. events' \in [Connections -> Seq(ServerMessage)]
  BY <1>1 DEF ApplyEvent, TypeOK
<1>3. view' \in [Connections -> View] /\ sync' \in [Connections -> SyncState]
  <2>1. CASE LoadSnapshot(c, e) /\ IsSnapshot(e)
    BY <1>1, <2>1, LoadSnapshotType
  <2>2. CASE view' = view /\ sync' = sync
    BY <2>2 DEF TypeOK
  <2>3. CASE /\ view' = [view EXCEPT ![c].recover =
                           @ \/ e.reason \in {"InvalidRange", "InvalidDocument"}]
             /\ sync' = sync
    <3>1. PICK r : r = (view[c].recover \/ e.reason \in {"InvalidRange", "InvalidDocument"})
      OBVIOUS
    <3>2. view[c] \in View /\ r \in BOOLEAN
      BY <3>1 DEF TypeOK, View
    <3>3. view' = [view EXCEPT ![c].recover = r] /\ sync' = sync
      BY <2>3, <3>1
    <3>4. [view[c] EXCEPT !.recover = r] \in View
      BY <3>2 DEF View
    <3> QED
      BY <3>3, <3>4 DEF TypeOK
  <2>4. CASE view' = [view EXCEPT ![c] = ClosedView] /\ sync' = sync
    <3>1. ClosedView \in View
      BY DEF ClosedView, View, NoLease, Text
    <3> QED
      BY <2>4, <3>1 DEF TypeOK
  <2> QED
    BY <2>1, <2>2, <2>3, <2>4 DEF ApplyEvent, IsSnapshot
<1> QED
  BY <1>2, <1>3 DEF TypeOK, ApplyEvent, document, wires

(* So does the task writing a queued message to the socket.                *)
LEMMA SendFrameType ==
    ASSUME TypeOK, NEW c \in Connections, SendFrame(c)
    PROVE  TypeOK'
<1>1. outgoing[c] # <<>> /\ Head(outgoing[c]) \in ClientMessage
  BY HeadTypes DEF SendFrame
<1>2. /\ Append(toServer[c], Head(outgoing[c])) \in Seq(ClientMessage)
      /\ Tail(outgoing[c]) \in Seq(ClientMessage)
  BY <1>1 DEF TypeOK
<1>3. /\ outgoing' \in [Connections -> Seq(ClientMessage)]
      /\ toServer' \in [Connections -> Seq(ClientMessage)]
  BY <1>2 DEF TypeOK, SendFrame
<1>4. \A d \in Connections : Len(outgoing'[d]) <= QueueCapacity
  <2>1. outgoing[c] \in Seq(ClientMessage) /\ Len(outgoing[c]) <= QueueCapacity
    BY DEF TypeOK
  <2>2. Len(Tail(outgoing[c])) <= QueueCapacity
    BY <1>1, <2>1, BoundsAssumption
  <2> QED
    BY <2>2, ChannelBound DEF SendFrame
<1> QED
  BY <1>3, <1>4 DEF TypeOK, SendFrame, document, pane

(* So does the task handling a frame of the server.                        *)
LEMMA ReceiveFrameType ==
    ASSUME TypeOK, NEW c \in Connections, ReceiveFrame(c)
    PROVE  TypeOK'
<1> DEFINE m == Head(toClient[c])
<1>1. toClient[c] # <<>> /\ m \in ServerMessage
  BY HeadTypes DEF ReceiveFrame
<1>2. /\ Append(events[c], m) \in Seq(ServerMessage)
      /\ Tail(toClient[c]) \in Seq(ServerMessage)
  BY <1>1 DEF TypeOK
<1>3. /\ events' \in [Connections -> Seq(ServerMessage)]
      /\ toClient' \in [Connections -> Seq(ServerMessage)]
  BY <1>2 DEF TypeOK, ReceiveFrame
<1>4. toServer' \in [Connections -> Seq(ClientMessage)]
  <2>1. [kind |-> "Resync"] \in ClientMessage
    BY DEF ClientMessage, RequestMessage
  <2>2. Append(toServer[c], [kind |-> "Resync"]) \in Seq(ClientMessage)
    BY <2>1 DEF TypeOK
  <2> QED
    BY <2>2 DEF TypeOK, ReceiveFrame
<1>5. sync' \in [Connections -> SyncState]
  <2> DEFINE next == CASE m.kind = "EditAck" -> acknowledge(sync[c], m.version, m.txn)
                       [] m.kind = "EditRejected" -> reject(sync[c], m.txn)
                       [] m.kind \in {"ResyncSnapshot", "DocumentReloaded"} ->
                            install(m.version, m.lease)
                       [] OTHER -> sync[c]
  <2>1. sync[c] \in SyncState
    BY DEF TypeOK
  <2>2. m.kind = "EditAck" => acknowledge(sync[c], m.version, m.txn) \in SyncState
    BY <1>1, <2>1, MessageFields, SyncOperationsType
  <2>3. m.kind = "EditRejected" => reject(sync[c], m.txn) \in SyncState
    BY <1>1, <2>1, MessageFields, SyncOperationsType
  <2>4. m.kind \in {"ResyncSnapshot", "DocumentReloaded"} =>
            install(m.version, m.lease) \in SyncState
    BY <1>1, <2>1, MessageFields, SyncOperationsType DEF IsSnapshot
  <2>5. next \in SyncState
    BY <2>1, <2>2, <2>3, <2>4
  <2>6. sync' = [sync EXCEPT ![c] = next]
    BY DEF ReceiveFrame
  <2> HIDE DEF next
  <2> QED
    BY <2>5, <2>6 DEF TypeOK
<1> QED
  BY <1>3, <1>4, <1>5 DEF TypeOK, ReceiveFrame, document, pane

(* So does the server accepting or rejecting an edit.                      *)
LEMMA ServerEditType ==
    ASSUME TypeOK, NEW c \in Connections, AcceptEdit(c) \/ RejectEdit(c)
    PROVE  TypeOK'
<1> DEFINE m == Head(toServer[c])
<1>1. toServer[c] # <<>> /\ m.kind = "Edit" /\ m \in EditMessage
  BY HeadTypes, MessageFields DEF AcceptEdit, RejectEdit, Serving
<1>2. m.txn \in Nat
  BY <1>1 DEF EditMessage
<1>3. toServer' \in [Connections -> Seq(ClientMessage)]
  BY <1>1, TakeType DEF AcceptEdit, RejectEdit
<1>4. CASE AcceptEdit(c)
  <2> DEFINE ack == [kind |-> "EditAck", version |-> version + 1, txn |-> m.txn]
  <2>1. ack \in ServerMessage
    BY <1>2 DEF TypeOK, ServerMessage, AckMessage
  <2>2. toClient' \in [Connections -> Seq(ServerMessage)]
    BY <1>4, <2>1, ReplyType DEF AcceptEdit
  <2>3. [by |-> c, n |-> m.txn] \in Token
    BY <1>2 DEF Token
  <2>4. text' \in Text /\ version' \in Nat \ {0}
    BY <1>4, <2>3 DEF TypeOK, AcceptEdit, Text
  <2>5. disturbed' \in SUBSET Connections
    BY <1>4 DEF TypeOK, AcceptEdit
  <2> QED
    BY <1>3, <1>4, <2>2, <2>4, <2>5 DEF TypeOK, AcceptEdit, client, pane
<1>5. CASE RejectEdit(c)
  <2>1. PICK reason \in Verdicts(c, m) \ {"Accepted"} :
            Reply(c, [kind |-> "EditRejected", txn |-> m.txn, reason |-> reason])
    BY <1>5 DEF RejectEdit
  <2>2. reason \in Rejection
    BY DEF Verdicts, Rejection
  <2>3. [kind |-> "EditRejected", txn |-> m.txn, reason |-> reason] \in ServerMessage
    BY <1>2, <2>2 DEF ServerMessage, RejectMessage
  <2>4. toClient' \in [Connections -> Seq(ServerMessage)]
    BY <2>1, <2>3, ReplyType
  <2> QED
    BY <1>3, <1>5, <2>4 DEF TypeOK, RejectEdit, document, client, pane
<1> QED
  BY <1>4, <1>5

(* So do the handlers that answer with a snapshot.                         *)
LEMMA ServerSnapshotType ==
    ASSUME TypeOK, NEW c \in Connections,
           \/ ServeOpen(c) \/ RefuseRequest(c) \/ ServeResync(c)
           \/ CommitReload(c) \/ AnswerReload(c)
    PROVE  TypeOK'
<1>1. \A kind \in {"DocumentOpened", "ResyncSnapshot", "DocumentReloaded"}, v \in Nat,
         x \in Text, l \in Nat :
         [kind |-> kind, version |-> v, text |-> x, lease |-> l] \in ServerMessage
  BY DEF ServerMessage, SnapshotMessage
<1>2. lease_for_client(c) \in Nat
  BY DEF lease_for_client, NoLease, TypeOK
<1>3. CASE ServeOpen(c)
  <2>1. /\ holder' \in Connections \cup {NoConnection}
        /\ leaseId' \in Nat /\ nextLease' \in Nat \ {0}
    <3>1. /\ holder \in Connections \cup {NoConnection}
          /\ leaseId \in Nat /\ nextLease \in Nat \ {0}
      BY DEF TypeOK
    <3>2. \/ holder' = c /\ leaseId' = nextLease /\ nextLease' = nextLease + 1
          \/ UNCHANGED <<holder, leaseId, nextLease>>
      BY <1>3 DEF ServeOpen
    <3> QED
      BY <3>1, <3>2
  <2> DEFINE l == IF holder' = c THEN leaseId' ELSE NoLease
  <2>2. l \in Nat
    BY <2>1 DEF NoLease
  <2>3. toClient' \in [Connections -> Seq(ServerMessage)]
    <3> HIDE DEF l
    <3>1. [kind |-> "DocumentOpened", version |-> version, text |-> text, lease |-> l]
              \in ServerMessage
      BY <1>1, <2>2 DEF TypeOK
    <3> QED
      BY <1>3, <3>1, ReplyType DEF ServeOpen, l
  <2>4. toServer' \in [Connections -> Seq(ClientMessage)]
    BY <1>3, TakeType DEF ServeOpen, Serving
  <2>5. access' \in SUBSET Connections
    BY <1>3 DEF TypeOK, ServeOpen
  <2> QED
    BY <1>3, <2>1, <2>3, <2>4, <2>5 DEF TypeOK, ServeOpen, client, pane
<1>4. CASE ServeResync(c)
  <2>1. [kind |-> "ResyncSnapshot", version |-> version, text |-> text,
         lease |-> lease_for_client(c)] \in ServerMessage
    BY <1>1, <1>2 DEF TypeOK
  <2>2. toClient' \in [Connections -> Seq(ServerMessage)]
    BY <1>4, <2>1, ReplyType DEF ServeResync
  <2>3. toServer' \in [Connections -> Seq(ClientMessage)]
    BY <1>4, TakeType DEF ServeResync, Serving
  <2> QED
    BY <1>4, <2>2, <2>3 DEF TypeOK, ServeResync, document, client, pane
<1>5. CASE CommitReload(c)
  <2>1. [by |-> NoConnection, n |-> loads + 1] \in Token
    BY DEF Token, TypeOK
  <2>2. text' \in Text /\ version' \in Nat \ {0} /\ loads' \in Nat
    <3>1. text \in Seq(Token) /\ version \in Nat \ {0} /\ loads \in Nat
      BY DEF TypeOK, Text
    <3>2. \/ /\ loads' = loads + 1 /\ version' = version + 1
             /\ text' = <<[by |-> NoConnection, n |-> loads + 1]>>
          \/ UNCHANGED <<loads, text, version>>
      BY <1>5 DEF CommitReload
    <3> DEFINE stored == <<[by |-> NoConnection, n |-> loads + 1]>>
    <3>3. stored \in Text
      BY <2>1 DEF Text
    <3>4. text' = stored \/ text' = text
      BY <3>2
    <3>5. text' \in Text
      <4> HIDE DEF stored
      <4> QED BY <3>1, <3>3, <3>4 DEF Text
    <3>6. \/ loads' = loads + 1 /\ version' = version + 1
          \/ loads' = loads /\ version' = version
      BY <3>2
    <3>7. version' \in Nat \ {0} /\ loads' \in Nat
      BY <3>1, <3>6
    <3> QED
      BY <3>5, <3>7
  <2>3. reloading' \in [Connections -> Seq(Text)]
    BY <1>5, <2>2 DEF CommitReload, TypeOK
  <2>4. toServer' \in [Connections -> Seq(ClientMessage)]
    BY <1>5, TakeType DEF CommitReload, Serving
  <2> QED
    BY <1>5, <2>2, <2>3, <2>4 DEF TypeOK, CommitReload, client, pane
<1>6. CASE AnswerReload(c)
  <2>1. Head(reloading[c]) \in Text
    BY <1>6, HeadTypes DEF AnswerReload
  <2>2. [kind |-> "DocumentReloaded", version |-> version, text |-> Head(reloading[c]),
         lease |-> lease_for_client(c)] \in ServerMessage
    BY <1>1, <1>2, <2>1 DEF TypeOK
  <2>3. toClient' \in [Connections -> Seq(ServerMessage)]
    BY <1>6, <2>2, ReplyType DEF AnswerReload
  <2>4. reloading' \in [Connections -> Seq(Text)] /\ disturbed' \in SUBSET Connections
    BY <1>6 DEF AnswerReload, TypeOK
  <2> QED
    BY <1>6, <2>3, <2>4 DEF TypeOK, AnswerReload, document, client, pane
<1>7. CASE RefuseRequest(c)
  <2>1. [kind |-> "OtherOpened"] \in ServerMessage
    BY DEF ServerMessage, ElsewhereMessage
  <2>2. toClient' \in [Connections -> Seq(ServerMessage)]
    <3>1. Reply(c, [kind |-> "OtherOpened"]) \/ toClient' = toClient
      BY <1>7 DEF RefuseRequest
    <3> QED
      BY <2>1, <3>1, ReplyType DEF TypeOK
  <2>3. toServer' \in [Connections -> Seq(ClientMessage)]
    BY <1>7, TakeType DEF RefuseRequest, Serving
  <2> QED
    BY <1>7, <2>2, <2>3 DEF TypeOK, RefuseRequest, document, client, pane
<1> QED
  BY <1>3, <1>4, <1>5, <1>6, <1>7

(* So do connecting, losing, closing and releasing a connection.           *)
LEMMA ConnectionType ==
    ASSUME TypeOK, NEW c \in Connections,
           Connect(c) \/ Disconnect(c) \/ CloseTab(c) \/ ReleaseAccess(c)
    PROVE  TypeOK'
<1>1. ClosedView \in View /\ EmptySync \in SyncState
  BY DEF ClosedView, View, EmptySync, SyncState, NoLease, Text
<1>2. CASE Connect(c)
  BY <1>2 DEF TypeOK, Connect, document, wires, client, pane
<1>3. CASE Disconnect(c) \/ CloseTab(c)
  <2>1. view' \in [Connections -> View] /\ sync' \in [Connections -> SyncState]
    <3>1. \/ view' = view /\ sync' = sync
          \/ /\ view' = [view EXCEPT ![c] = ClosedView]
             /\ sync' = [sync EXCEPT ![c] = EmptySync]
      BY <1>3 DEF Disconnect, CloseTab, pane
    <3>2. view \in [Connections -> View] /\ sync \in [Connections -> SyncState]
      BY DEF TypeOK
    <3> QED
      BY <1>1, <3>1, <3>2
  <2>2. /\ toClient' \in [Connections -> Seq(ServerMessage)]
        /\ events' \in [Connections -> Seq(ServerMessage)]
        /\ outgoing' \in [Connections -> Seq(ClientMessage)]
    <3>1. /\ toClient' = [toClient EXCEPT ![c] = <<>>]
          /\ outgoing' = [outgoing EXCEPT ![c] = <<>>]
          /\ events' = events \/ events' = [events EXCEPT ![c] = <<>>]
      BY <1>3 DEF Disconnect, CloseTab
    <3>2. <<>> \in Seq(ServerMessage) /\ <<>> \in Seq(ClientMessage)
      OBVIOUS
    <3>3. /\ toClient \in [Connections -> Seq(ServerMessage)]
          /\ events \in [Connections -> Seq(ServerMessage)]
          /\ outgoing \in [Connections -> Seq(ClientMessage)]
      BY DEF TypeOK
    <3> QED
      BY <3>1, <3>2, <3>3
  <2>3. conn' \in [Connections -> {"idle", "up", "closing", "gone"}]
    BY <1>3 DEF TypeOK, Disconnect, CloseTab
  <2>4. \A d \in Connections : Len(outgoing'[d]) <= QueueCapacity
    <3>1. Len(<<>>) <= QueueCapacity
      BY BoundsAssumption
    <3> QED
      BY <1>3, <3>1, ChannelBound DEF Disconnect, CloseTab
  <2> QED
    BY <1>3, <2>1, <2>2, <2>3, <2>4 DEF TypeOK, Disconnect, CloseTab, document, pane
<1>4. CASE ReleaseAccess(c)
  <2>1. /\ toServer' \in [Connections -> Seq(ClientMessage)]
        /\ reloading' \in [Connections -> Seq(Text)]
    BY <1>4 DEF TypeOK, ReleaseAccess
  <2>2. /\ conn' \in [Connections -> {"idle", "up", "closing", "gone"}]
        /\ holder' \in Connections \cup {NoConnection}
        /\ access' \in SUBSET Connections
        /\ closed' \in BOOLEAN
    BY <1>4 DEF TypeOK, ReleaseAccess
  <2> QED
    BY <1>4, <2>1, <2>2 DEF TypeOK, ReleaseAccess, client, pane
<1> QED
  BY <1>2, <1>3, <1>4

(* A new connection that takes over the pane of a lost one.                *)
LEMMA ReconnectType ==
    ASSUME TypeOK, NEW c \in Connections, NEW d \in Connections, Reconnect(c, d)
    PROVE  TypeOK'
<1>1. PICK w \in Welcomes :
          /\ welcome' = [welcome EXCEPT ![d] = w.lease]
          /\ sync' = [sync EXCEPT ![d] = install(w.version, NoLease)]
  BY DEF Reconnect
<1>2. w.version \in Nat /\ w.lease \in Nat
  BY WelcomesAssumption
<1>3. welcome' \in [Connections -> Nat]
  BY <1>1, <1>2 DEF TypeOK
<1>4. sync' \in [Connections -> SyncState]
  <2>1. install(w.version, NoLease) \in SyncState
    BY <1>2 DEF install, SyncState, NoLease
  <2> QED
    BY <1>1, <2>1 DEF TypeOK
<1>5. view' \in [Connections -> View]
  <2>1. ClosedView \in View
    BY DEF ClosedView, View, NoLease, Text
  <2>2. view[c] \in View
    BY DEF TypeOK
  <2>3. Reconnected(view[c]) \in View
    BY <2>2 DEF Reconnected, View
  <2> QED
    BY <2>1, <2>3 DEF Reconnect, TypeOK
<1>6. outgoing' \in [Connections -> Seq(ClientMessage)]
  <2>1. [kind |-> "Open"] \in ClientMessage
    BY DEF ClientMessage, RequestMessage
  <2>2. <<[kind |-> "Open"]>> \in Seq(ClientMessage)
    BY <2>1
  <2> QED
    BY <2>2 DEF Reconnect, TypeOK
<1>7. \A e \in Connections : Len(outgoing'[e]) <= QueueCapacity
  <2> DEFINE q == <<[kind |-> "Open"]>>
  <2>1. Len(q) <= QueueCapacity
    BY BoundsAssumption
  <2>2. outgoing' = [outgoing EXCEPT ![d] = q]
    BY DEF Reconnect
  <2> HIDE DEF q
  <2> QED
    BY <2>1, <2>2, ChannelBound
<1>8. /\ conn' \in [Connections -> {"idle", "up", "closing", "gone"}]
      /\ nextTxn' \in [Connections -> Nat] /\ requests' \in [Connections -> Nat]
  BY DEF Reconnect, TypeOK
<1> QED
  BY <1>3, <1>4, <1>5, <1>6, <1>7, <1>8 DEF TypeOK, Reconnect, document, wires

(* The initial state is well formed.                                       *)
LEMMA TypeInit == Init => TypeOK
<1>1. ClosedView \in View /\ EmptySync \in SyncState
  BY DEF ClosedView, View, EmptySync, SyncState, NoLease, Text
<1>2. Init => \A c \in Connections : Len(outgoing[c]) <= QueueCapacity
  <2>1. Len(<<>>) <= QueueCapacity
    BY BoundsAssumption
  <2>2. Init => \A c \in Connections : outgoing[c] = <<>>
    BY DEF Init
  <2> QED
    BY <2>1, <2>2
<1>3. Init => /\ version \in Nat \ {0} /\ text \in Text /\ leaseId \in Nat
              /\ nextLease \in Nat \ {0}
              /\ loads \in Nat
              /\ holder \in Connections \cup {NoConnection}
              /\ access \in SUBSET Connections /\ disturbed \in SUBSET Connections
  BY DEF Init, NoLease, Text
<1>4. Init => /\ toServer \in [Connections -> Seq(ClientMessage)]
              /\ toClient \in [Connections -> Seq(ServerMessage)]
              /\ reloading \in [Connections -> Seq(Text)]
              /\ outgoing \in [Connections -> Seq(ClientMessage)]
              /\ events \in [Connections -> Seq(ServerMessage)]
  BY DEF Init
<1>5. Init => /\ conn \in [Connections -> {"idle", "up", "closing", "gone"}]
              /\ view \in [Connections -> View] /\ sync \in [Connections -> SyncState]
              /\ welcome \in [Connections -> Nat]
              /\ nextTxn \in [Connections -> Nat] /\ requests \in [Connections -> Nat]
  BY <1>1 DEF Init, NoLease
<1>6. Init => closed \in BOOLEAN
  BY Zenon DEF Init
<1> QED
  BY <1>2, <1>3, <1>4, <1>5, <1>6 DEF TypeOK

(* Every step keeps the state well formed.                                 *)
LEMMA TypeStep == TypeOK /\ [Next]_vars => TypeOK'
<1> SUFFICES ASSUME TypeOK, [Next]_vars PROVE TypeOK'
  OBVIOUS
<1>1. CASE UNCHANGED vars
  BY <1>1 DEF TypeOK, vars, document, wires, client, pane
<1>2. ASSUME NEW c \in Connections, UserStep(c)
      PROVE  TypeOK'
  BY <1>2, TypeType, RequestType, ConnectionType DEF UserStep
<1>3. ASSUME NEW c \in Connections, TaskStep(c)
      PROVE  TypeOK'
  BY <1>3, SendFrameType, ReceiveFrameType, ApplyEventType DEF TaskStep
<1>4. ASSUME NEW c \in Connections, ServerStep(c)
      PROVE  TypeOK'
  BY <1>4, ServerEditType, ServerSnapshotType, ConnectionType DEF ServerStep
<1>5. ASSUME NEW c \in Connections, NEW d \in Connections, Reconnect(c, d)
      PROVE  TypeOK'
  BY <1>5, ReconnectType
<1> QED
  BY <1>1, <1>2, <1>3, <1>4, <1>5 DEF Next

(* Every state of DocumentSync is well formed.                             *)
THEOREM TypeCorrect == Spec => []TypeOK
BY TypeInit, TypeStep, PTL DEF Spec
------------------------------------------------------------------------------
(* The lease discipline of DocumentSync, for every set of connections and  *)
(* every bound: no connection ever carries a lease the server has          *)
(* superseded, at most one pane accepts typing, and the document is not    *)
(* closed under a pane that shows it.                                      *)

(* A connection that was never used carries nothing.                       *)
Unused(c) ==
    /\ view[c] = ClosedView /\ sync[c].lease = NoLease
    /\ outgoing[c] = <<>> /\ toServer[c] = <<>>
    /\ toClient[c] = <<>> /\ events[c] = <<>>

(* The inductive strengthening of HeldLeasesAreActive.                     *)
LeaseInv ==
    /\ TypeOK
    /\ HeldLeasesAreActive
    /\ \A c \in Connections : conn[c] = "idle" => Unused(c)

--------------------------------------------------------------------------------
(* The leases a queue carries, as the queue grows and shrinks.             *)
LEMMA LeasesInAppend ==
    ASSUME NEW S, NEW q \in Seq(S), NEW m \in S
    PROVE  LeasesIn(Append(q, m)) \subseteq
               LeasesIn(q) \cup (IF CarriesLease(m) THEN {m.lease} ELSE {})
<1> SUFFICES ASSUME NEW i \in 1..Len(Append(q, m)), CarriesLease(Append(q, m)[i])
             PROVE  Append(q, m)[i].lease \in
                        LeasesIn(q) \cup (IF CarriesLease(m) THEN {m.lease} ELSE {})
  BY DEF LeasesIn
<1>1. CASE i \in 1..Len(q)
  <2>1. Append(q, m)[i] = q[i]
    BY <1>1
  <2> QED
    BY <1>1, <2>1 DEF LeasesIn
<1>2. CASE i = Len(q) + 1
  <2>1. Append(q, m)[i] = m
    BY <1>2
  <2> QED
    BY <2>1
<1> QED
  BY <1>1, <1>2

(* Removing the head of a queue adds no lease, and the head carried one of *)
(* the queue's.                                                            *)
LEMMA LeasesInTail ==
    ASSUME NEW S, NEW q \in Seq(S), q # <<>>
    PROVE  /\ LeasesIn(Tail(q)) \subseteq LeasesIn(q)
           /\ CarriesLease(Head(q)) => Head(q).lease \in LeasesIn(q)
<1>1. LeasesIn(Tail(q)) \subseteq LeasesIn(q)
  <2> SUFFICES ASSUME NEW i \in 1..Len(Tail(q)), CarriesLease(Tail(q)[i])
               PROVE  Tail(q)[i].lease \in LeasesIn(q)
    BY DEF LeasesIn
  <2>1. i + 1 \in 1..Len(q) /\ Tail(q)[i] = q[i + 1]
    OBVIOUS
  <2> QED
    BY <2>1 DEF LeasesIn
<1>2. CarriesLease(Head(q)) => Head(q).lease \in LeasesIn(q)
  <2>1. 1 \in 1..Len(q) /\ Head(q) = q[1]
    OBVIOUS
  <2> QED
    BY <2>1 DEF LeasesIn
<1> QED
  BY <1>1, <1>2

(* An empty queue carries no lease.                                        *)
LEMMA LeasesInEmpty == LeasesIn(<<>>) = {}
BY DEF LeasesIn

--------------------------------------------------------------------------------
(* A connection none of whose parts changes holds what it held.            *)
LEMMA HeldUnchanged ==
    ASSUME NEW d \in Connections,
           view'[d] = view[d], sync'[d] = sync[d], outgoing'[d] = outgoing[d],
           toServer'[d] = toServer[d], toClient'[d] = toClient[d], events'[d] = events[d]
    PROVE  LeasesTold(d)' = LeasesTold(d) /\ LeasesClaimed(d)' = LeasesClaimed(d)
BY DEF LeasesTold, LeasesClaimed

(* A step of one connection leaves the others alone.                       *)
LEMMA OthersUnchanged ==
    ASSUME TypeOK, NEW c \in Connections, UserStep(c) \/ TaskStep(c) \/ ServerStep(c),
           NEW d \in Connections, d # c
    PROVE  /\ conn'[d] = conn[d]
           /\ view'[d] = view[d] /\ sync'[d] = sync[d] /\ outgoing'[d] = outgoing[d]
           /\ toServer'[d] = toServer[d] /\ toClient'[d] = toClient[d]
           /\ events'[d] = events[d] /\ welcome'[d] = welcome[d]
<1>1. CASE UserStep(c)
  <2>1. CASE Connect(c) \/ Disconnect(c)
    BY <2>1 DEF TypeOK, Connect, Disconnect, wires, client, pane
  <2>2. CASE Type(c)
    BY <2>2 DEF TypeOK, Type, wires
  <2>3. CASE CloseTab(c)
    BY <2>3 DEF TypeOK, CloseTab
  <2>4. ASSUME NEW kind \in {"Open", "Reload", "Resync"}, Request(c, kind)
        PROVE  /\ outgoing'[d] = outgoing[d]
               /\ UNCHANGED <<conn, view, sync, toServer, toClient, events, welcome>>
    BY <2>4 DEF TypeOK, Request, wires
  <2> QED
    BY <1>1, <2>1, <2>2, <2>3, <2>4 DEF UserStep
<1>2. CASE TaskStep(c)
  <2>1. CASE SendFrame(c)
    BY <2>1 DEF TypeOK, SendFrame, pane
  <2>2. CASE ReceiveFrame(c)
    BY <2>2 DEF TypeOK, ReceiveFrame, pane
  <2>3. CASE ApplyEvent(c)
    <3>1. view'[d] = view[d] /\ sync'[d] = sync[d]
      BY <2>3 DEF TypeOK, ApplyEvent, LoadSnapshot
    <3>2. events'[d] = events[d] /\ UNCHANGED <<conn, outgoing, toServer, toClient, welcome>>
      BY <2>3 DEF TypeOK, ApplyEvent, wires
    <3> QED
      BY <3>1, <3>2
  <2> QED
    BY <1>2, <2>1, <2>2, <2>3 DEF TaskStep
<1>3. CASE ServerStep(c)
  <2>1. CASE AcceptEdit(c) \/ RejectEdit(c) \/ ServeResync(c)
    BY <2>1 DEF TypeOK, AcceptEdit, RejectEdit, ServeResync, Take, Reply, client, pane
  <2>2. CASE ServeOpen(c) \/ RefuseRequest(c)
    BY <2>2, SMTT(30) DEF TypeOK, ServeOpen, RefuseRequest, Take, Reply, client, pane
  <2>3. CASE CommitReload(c)
    BY <2>3 DEF TypeOK, CommitReload, Take, client, pane
  <2>4. CASE AnswerReload(c) \/ ReleaseAccess(c)
    BY <2>4 DEF TypeOK, AnswerReload, ReleaseAccess, Reply, client, pane
  <2> QED
    BY <1>3, <2>1, <2>2, <2>3, <2>4 DEF ServerStep
<1> QED
  BY <1>1, <1>2, <1>3

--------------------------------------------------------------------------------
(* Steps of the user and of the client's task pass leases on; they invent  *)
(* none.                                                                   *)
LEMMA ClientLeases ==
    ASSUME TypeOK, NEW c \in Connections, ~Connect(c), UserStep(c) \/ TaskStep(c)
    PROVE  /\ LeasesTold(c)' \subseteq LeasesTold(c) \cup {NoLease}
           /\ LeasesClaimed(c)' \subseteq LeasesClaimed(c) \cup LeasesTold(c) \cup {welcome[c]}
           /\ welcome' = welcome
<1> DEFINE Goal == /\ LeasesTold(c)' \subseteq LeasesTold(c) \cup {NoLease}
                   /\ LeasesClaimed(c)' \subseteq
                          LeasesClaimed(c) \cup LeasesTold(c) \cup {welcome[c]}
                   /\ welcome' = welcome
<1> USE DEF LeasesTold, LeasesClaimed
<1>1. CASE Type(c)
  <2> DEFINE l == LeaseToSend(c)
             m == [kind |-> "Edit", base |-> sync[c].optimistic, txn |-> nextTxn[c] + 1,
                   lease |-> l, on |-> view[c].text]
  <2>1. /\ view'[c].lease = view[c].lease /\ view'[c].reopening = view[c].reopening
        /\ sync'[c].lease = sync[c].lease
    <3>1. view[c] \in View /\ sync[c] \in SyncState
      BY DEF TypeOK
    <3>2. view'[c] = [view[c] EXCEPT !.text = Append(@, [by |-> c, n |-> nextTxn[c] + 1])]
      BY <1>1 DEF Type, TypeOK
    <3>3. view'[c].lease = view[c].lease /\ view'[c].reopening = view[c].reopening
      BY <3>1, <3>2 DEF View
    <3>4. \/ sync'[c] = sync[c]
          \/ sync'[c] = reserve_pending(sync[c], nextTxn[c] + 1)
      BY <1>1 DEF Type, TypeOK
    <3>5. sync'[c].lease = sync[c].lease
      BY <3>1, <3>4 DEF SyncState, reserve_pending
    <3> QED
      BY <3>3, <3>5
  <2>2. outgoing'[c] = outgoing[c] \/ outgoing'[c] = Append(outgoing[c], m)
    BY <1>1 DEF Type, TypeOK
  <2>3. LeasesIn(outgoing'[c]) \subseteq LeasesIn(outgoing[c]) \cup {l}
    <3>1. m \in ClientMessage
      <4>1. /\ sync[c] \in SyncState /\ view[c] \in View
            /\ nextTxn[c] + 1 \in Nat /\ welcome[c] \in Nat
        BY SMTT(30) DEF TypeOK
      <4>2. l \in Nat
        BY <4>1 DEF LeaseToSend, SyncState, View
      <4> HIDE DEF l
      <4> QED
        BY <4>1, <4>2 DEF ClientMessage, EditMessage, SyncState, View
    <3>2. m.lease = l
      OBVIOUS
    <3> HIDE DEF m, l
    <3>3. LeasesIn(Append(outgoing[c], m)) \subseteq LeasesIn(outgoing[c]) \cup {m.lease}
      BY <3>1, LeasesInAppend DEF TypeOK
    <3> QED
      BY <2>2, <3>2, <3>3
  <2>4. UNCHANGED <<toServer, toClient, events, welcome>>
    BY <1>1 DEF Type, wires
  <2>5. l \in LeasesTold(c) \cup {welcome[c]}
    BY DEF LeaseToSend
  <2>6. LeasesTold(c)' = LeasesTold(c)
    BY <2>1, <2>4
  <2> HIDE DEF l
  <2> QED
    BY <2>3, <2>4, <2>5, <2>6
<1>2. ASSUME NEW kind \in {"Open", "Reload", "Resync"}, Request(c, kind)
      PROVE  Goal
  <2>1. [kind |-> kind] \in ClientMessage /\ ~CarriesLease([kind |-> kind])
    BY DEF ClientMessage, RequestMessage, CarriesLease, IsSnapshot
  <2> DEFINE m == [kind |-> kind]
  <2>2. outgoing'[c] = Append(outgoing[c], m)
    BY <1>2 DEF Request, TypeOK
  <2> HIDE DEF m
  <2>3. LeasesIn(outgoing'[c]) \subseteq LeasesIn(outgoing[c])
    BY <2>1, <2>2, LeasesInAppend DEF TypeOK, m
  <2>4. UNCHANGED <<view, sync, toServer, toClient, events, welcome>>
    BY <1>2 DEF Request, wires
  <2> QED
    BY <2>3, <2>4
<1>3. CASE Disconnect(c) \/ CloseTab(c)
  <2>1. /\ outgoing'[c] = <<>> /\ toClient'[c] = <<>>
        /\ events'[c] = events[c] \/ events'[c] = <<>>
        /\ UNCHANGED <<toServer, welcome>>
    BY <1>3 DEF Disconnect, CloseTab, TypeOK, pane
  <2>2. \/ view' = view /\ sync' = sync
        \/ view'[c].lease = NoLease /\ sync'[c].lease = NoLease
    BY <1>3, SMTT(30) DEF Disconnect, CloseTab, TypeOK, ClosedView, EmptySync, pane
  <2> QED
    BY <2>1, <2>2, LeasesInEmpty
<1>4. CASE SendFrame(c)
  <2> DEFINE m == Head(outgoing[c])
  <2>1. /\ outgoing[c] \in Seq(ClientMessage) /\ outgoing[c] # <<>>
        /\ toServer[c] \in Seq(ClientMessage)
    BY <1>4 DEF SendFrame, TypeOK
  <2>2. m \in ClientMessage
    BY <2>1
  <2>3. outgoing'[c] = Tail(outgoing[c]) /\ toServer'[c] = Append(toServer[c], m)
    BY <1>4 DEF SendFrame, TypeOK
  <2>4. /\ LeasesIn(outgoing'[c]) \subseteq LeasesIn(outgoing[c])
        /\ CarriesLease(m) => m.lease \in LeasesIn(outgoing[c])
    BY <2>1, <2>3, LeasesInTail
  <2>5. LeasesIn(toServer'[c]) \subseteq
            LeasesIn(toServer[c]) \cup (IF CarriesLease(m) THEN {m.lease} ELSE {})
    BY <2>1, <2>2, <2>3, LeasesInAppend
  <2>6. UNCHANGED <<view, sync, toClient, events, welcome>>
    BY <1>4 DEF SendFrame, pane
  <2> QED
    BY <2>4, <2>5, <2>6
<1>5. CASE ReceiveFrame(c)
  <2> DEFINE m == Head(toClient[c])
  <2>1. /\ toClient[c] \in Seq(ServerMessage) /\ toClient[c] # <<>>
        /\ events[c] \in Seq(ServerMessage) /\ toServer[c] \in Seq(ClientMessage)
    BY <1>5 DEF ReceiveFrame, TypeOK
  <2>2. m \in ServerMessage
    BY <2>1
  <2>3. toClient'[c] = Tail(toClient[c]) /\ events'[c] = Append(events[c], m)
    BY <1>5 DEF ReceiveFrame, TypeOK
  <2>4. /\ LeasesIn(toClient'[c]) \subseteq LeasesIn(toClient[c])
        /\ CarriesLease(m) => m.lease \in LeasesIn(toClient[c])
    BY <2>1, <2>3, LeasesInTail
  <2>5. LeasesIn(events'[c]) \subseteq
            LeasesIn(events[c]) \cup (IF CarriesLease(m) THEN {m.lease} ELSE {})
    BY <2>1, <2>2, <2>3, LeasesInAppend
  <2>6. LeasesIn(toServer'[c]) \subseteq LeasesIn(toServer[c])
    <3>1. /\ [kind |-> "Resync"] \in ClientMessage
          /\ ~CarriesLease([kind |-> "Resync"])
      BY DEF ClientMessage, RequestMessage, CarriesLease, IsSnapshot
    <3> DEFINE r == [kind |-> "Resync"]
    <3>2. toServer'[c] = Append(toServer[c], r) \/ toServer'[c] = toServer[c]
      BY <1>5 DEF ReceiveFrame, TypeOK
    <3> HIDE DEF r
    <3> QED
      BY <2>1, <3>1, <3>2, LeasesInAppend DEF r
  <2>7. sync'[c].lease = sync[c].lease \/ (CarriesLease(m) /\ sync'[c].lease = m.lease)
    BY <1>5 DEF ReceiveFrame, TypeOK, SyncState, acknowledge, reject, install,
                CarriesLease, IsSnapshot
  <2>8. UNCHANGED <<view, outgoing, welcome>>
    BY <1>5 DEF ReceiveFrame, pane
  <2> QED
    BY <2>4, <2>5, <2>6, <2>7, <2>8
<1>6. CASE ApplyEvent(c)
  <2> DEFINE e == Head(events[c])
  <2>1. events[c] \in Seq(ServerMessage) /\ events[c] # <<>>
    BY <1>6 DEF ApplyEvent, TypeOK
  <2>2. events'[c] = Tail(events[c])
    BY <1>6 DEF ApplyEvent, TypeOK
  <2>3. /\ LeasesIn(events'[c]) \subseteq LeasesIn(events[c])
        /\ CarriesLease(e) => e.lease \in LeasesIn(events[c])
    BY <2>1, <2>2, LeasesInTail
  <2>4. \/ /\ view'[c].lease = view[c].lease /\ view'[c].reopening = view[c].reopening
           /\ sync'[c].lease = sync[c].lease
        \/ CarriesLease(e) /\ view'[c].lease = e.lease /\ sync'[c].lease = e.lease
        \/ view'[c].lease = NoLease /\ sync' = sync
    <3>1. CASE LoadSnapshot(c, e) /\ IsSnapshot(e)
      BY <3>1 DEF LoadSnapshot, TypeOK, install, CarriesLease
    <3>2. CASE view' = view /\ sync' = sync
      BY <3>2
    <3>3. CASE /\ view' = [view EXCEPT ![c].recover =
                             @ \/ e.reason \in {"InvalidRange", "InvalidDocument"}]
               /\ sync' = sync
      BY <3>3 DEF TypeOK, View
    <3>4. CASE view' = [view EXCEPT ![c] = ClosedView] /\ sync' = sync
      BY <3>4 DEF TypeOK, ClosedView
    <3> QED
      BY <1>6, <3>1, <3>2, <3>3, <3>4 DEF ApplyEvent, IsSnapshot
  <2>5. UNCHANGED <<outgoing, toServer, toClient, welcome>>
    BY <1>6 DEF ApplyEvent, wires
  <2> QED
    BY <2>3, <2>4, <2>5
<1> QED
  BY <1>1, <1>2, <1>3, <1>4, <1>5, <1>6 DEF UserStep, TaskStep

(* Handlers of the server pass on what the client sent and what the        *)
(* document holds for that client after the step.                          *)
LEMMA ServerLeases ==
    ASSUME TypeOK, NEW c \in Connections, ServerStep(c)
    PROVE  /\ LeasesTold(c)' \subseteq LeasesTold(c) \cup ActiveLeases(c)'
           /\ LeasesClaimed(c)' \subseteq LeasesClaimed(c)
           /\ welcome' = welcome
<1>1. /\ UNCHANGED <<view, sync, outgoing, events, welcome>>
      /\ \/ toServer'[c] = toServer[c]
         \/ toServer'[c] = <<>>
         \/ toServer[c] # <<>> /\ toServer'[c] = Tail(toServer[c])
  <2>1. CASE \/ AcceptEdit(c) \/ RejectEdit(c) \/ ServeResync(c) \/ ServeOpen(c)
             \/ RefuseRequest(c)
    BY <2>1 DEF AcceptEdit, RejectEdit, ServeResync, ServeOpen, RefuseRequest, Serving, Take,
                TypeOK, client, pane
  <2>2. CASE CommitReload(c)
    BY <2>2 DEF CommitReload, Serving, Take, TypeOK, client, pane
  <2>3. CASE AnswerReload(c) \/ ReleaseAccess(c)
    BY <2>3 DEF AnswerReload, ReleaseAccess, TypeOK, client, pane
  <2> QED
    BY <2>1, <2>2, <2>3 DEF ServerStep
<1>2. LeasesIn(toServer'[c]) \subseteq LeasesIn(toServer[c])
  BY <1>1, LeasesInTail, LeasesInEmpty DEF TypeOK
<1>3. ASSUME NEW m \in ServerMessage, Reply(c, m),
             CarriesLease(m) => m.lease \in ActiveLeases(c)'
      PROVE  LeasesIn(toClient'[c]) \subseteq LeasesIn(toClient[c]) \cup ActiveLeases(c)'
  <2>1. toClient'[c] = toClient[c] \/ toClient'[c] = Append(toClient[c], m)
    BY <1>3 DEF Reply, TypeOK
  <2>2. toClient[c] \in Seq(ServerMessage)
    BY DEF TypeOK
  <2> QED
    BY <1>3, <2>1, <2>2, LeasesInAppend
<1>4. LeasesIn(toClient'[c]) \subseteq LeasesIn(toClient[c]) \cup ActiveLeases(c)'
  <2>1. CASE toClient' = toClient
    BY <2>1
  <2>2. CASE AcceptEdit(c)
    <3> DEFINE m == [kind |-> "EditAck", version |-> version + 1, txn |-> Head(toServer[c]).txn]
    <3>1. Head(toServer[c]).txn \in Nat
      BY <2>2, HeadTypes, MessageFields DEF AcceptEdit, Serving, EditMessage
    <3>2. m \in ServerMessage /\ ~CarriesLease(m)
      <4>1. version + 1 \in Nat
        BY DEF TypeOK
      <4>2. m \in AckMessage
        BY <3>1, <4>1 DEF AckMessage
      <4> QED
        BY <4>2 DEF ServerMessage, CarriesLease, IsSnapshot
    <3>3. Reply(c, m)
      BY <2>2 DEF AcceptEdit
    <3> HIDE DEF m
    <3> QED
      BY <1>3, <3>2, <3>3
  <2>3. CASE RejectEdit(c)
    <3>1. PICK reason \in Verdicts(c, Head(toServer[c])) \ {"Accepted"} :
              Reply(c, [kind |-> "EditRejected", txn |-> Head(toServer[c]).txn,
                        reason |-> reason])
      BY <2>3 DEF RejectEdit
    <3> DEFINE m == [kind |-> "EditRejected", txn |-> Head(toServer[c]).txn, reason |-> reason]
    <3>2. Head(toServer[c]).txn \in Nat
      BY <2>3, HeadTypes, MessageFields DEF RejectEdit, Serving, EditMessage
    <3>3. reason \in Rejection
      BY DEF Verdicts, Rejection
    <3>4. m \in ServerMessage /\ ~CarriesLease(m)
      BY <3>2, <3>3 DEF ServerMessage, RejectMessage, CarriesLease, IsSnapshot
    <3> HIDE DEF m
    <3> QED
      BY <1>3, <3>1, <3>4 DEF m
  <2>4. ASSUME NEW kind \in {"DocumentOpened", "ResyncSnapshot", "DocumentReloaded"},
               NEW x \in Text, NEW l \in ActiveLeases(c)', l \in Nat,
               Reply(c, [kind |-> kind, version |-> version, text |-> x, lease |-> l])
        PROVE  LeasesIn(toClient'[c]) \subseteq LeasesIn(toClient[c]) \cup ActiveLeases(c)'
    <3> DEFINE m == [kind |-> kind, version |-> version, text |-> x, lease |-> l]
    <3>1. m \in ServerMessage /\ m.lease = l
      BY <2>4 DEF ServerMessage, SnapshotMessage, TypeOK
    <3> HIDE DEF m
    <3> QED
      BY <1>3, <2>4, <3>1 DEF m
  <2>5. CASE ServeOpen(c)
    <3> DEFINE l == IF holder' = c THEN leaseId' ELSE NoLease
    <3>1. l \in ActiveLeases(c)'
      BY DEF ActiveLeases
    <3>2. leaseId' \in Nat
      <4>1. leaseId' = nextLease \/ leaseId' = leaseId
        BY <2>5 DEF ServeOpen
      <4> QED
        BY <4>1 DEF TypeOK
    <3>3. l \in Nat
      BY <3>2 DEF NoLease
    <3>4. Reply(c, [kind |-> "DocumentOpened", version |-> version, text |-> text, lease |-> l])
      BY <2>5 DEF ServeOpen
    <3> HIDE DEF l
    <3> QED
      BY <2>4, <3>1, <3>3, <3>4 DEF TypeOK
  <2>6. ASSUME UNCHANGED <<holder, leaseId>>
        PROVE  lease_for_client(c) \in ActiveLeases(c)' /\ lease_for_client(c) \in Nat
    BY <2>6 DEF lease_for_client, ActiveLeases, TypeOK, NoLease
  <2>7. CASE ServeResync(c)
    <3>1. Reply(c, [kind |-> "ResyncSnapshot", version |-> version, text |-> text,
                    lease |-> lease_for_client(c)])
      BY <2>7 DEF ServeResync
    <3>2. UNCHANGED <<holder, leaseId>>
      BY <2>7 DEF ServeResync, document
    <3> QED
      BY <2>4, <2>6, <3>1, <3>2 DEF TypeOK
  <2>8. CASE AnswerReload(c)
    <3>1. Reply(c, [kind |-> "DocumentReloaded", version |-> version,
                    text |-> Head(reloading[c]), lease |-> lease_for_client(c)])
      BY <2>8 DEF AnswerReload
    <3>2. UNCHANGED <<holder, leaseId>>
      BY <2>8 DEF AnswerReload, document
    <3>3. Head(reloading[c]) \in Text
      BY <2>8, HeadTypes DEF AnswerReload
    <3> QED
      BY <2>4, <2>6, <3>1, <3>2, <3>3
  <2>9. CASE RefuseRequest(c)
    <3> DEFINE m == [kind |-> "OtherOpened"]
    <3>1. m \in ServerMessage /\ ~CarriesLease(m)
      BY DEF ServerMessage, ElsewhereMessage, CarriesLease, IsSnapshot
    <3>2. Reply(c, m) \/ toClient' = toClient
      BY <2>9 DEF RefuseRequest
    <3> HIDE DEF m
    <3> QED
      BY <1>3, <2>1, <3>1, <3>2
  <2> QED
    BY <2>1, <2>2, <2>3, <2>5, <2>7, <2>8, <2>9 DEF ServerStep, CommitReload, ReleaseAccess
<1> QED
  BY <1>1, <1>2, <1>4 DEF LeasesTold, LeasesClaimed

(* Only a grant of a free lease and the release by its holder change who   *)
(* holds the lease, so nobody else loses an active one.                    *)
LEMMA ActiveLeasesKept ==
    ASSUME TypeOK, NEW c \in Connections, UserStep(c) \/ TaskStep(c) \/ ServerStep(c),
           NEW d \in Connections, d = c => ~ReleaseAccess(c)
    PROVE  ActiveLeases(d) \subseteq ActiveLeases(d)'
<1>1. CASE UNCHANGED <<holder, leaseId>>
  BY <1>1 DEF ActiveLeases
<1>2. CASE ServeOpen(c)
  <2>1. UNCHANGED <<holder, leaseId>> \/ holder = NoConnection
    BY <1>2 DEF ServeOpen
  <2> QED
    BY <1>1, <2>1, ConnectionsAssumption DEF ActiveLeases
<1>3. CASE ReleaseAccess(c)
  BY <1>3 DEF ReleaseAccess, ActiveLeases
<1>4. UserStep(c) => UNCHANGED <<holder, leaseId>>
  BY DEF UserStep, Connect, Type, Request, Disconnect, CloseTab, document
<1>5. TaskStep(c) => UNCHANGED <<holder, leaseId>>
  BY DEF TaskStep, SendFrame, ReceiveFrame, ApplyEvent, document
<1> QED
  BY <1>1, <1>2, <1>3, <1>4, <1>5
  DEF ServerStep, AcceptEdit, RejectEdit, ServeResync, RefuseRequest, CommitReload,
      AnswerReload, document

--------------------------------------------------------------------------------
(* Nothing is carried in the initial state.                                *)
LEMMA LeaseInit == Init => LeaseInv
<1> SUFFICES ASSUME Init PROVE LeaseInv
  OBVIOUS
<1>1. TypeOK
  BY TypeInit
<1>2. \A c \in Connections : conn[c] = "idle" /\ Unused(c)
  BY DEF Init, Unused, ClosedView, EmptySync
<1>3. HeldLeasesAreActive
  BY <1>2 DEF HeldLeasesAreActive, Live
<1> QED
  BY <1>1, <1>2, <1>3 DEF LeaseInv

(* An unused connection carries no lease.                                  *)
LEMMA UnusedHoldsNothing ==
    ASSUME NEW c \in Connections, Unused(c)
    PROVE  LeasesTold(c) \subseteq {NoLease} /\ LeasesClaimed(c) = {}
BY LeasesInEmpty DEF Unused, LeasesTold, LeasesClaimed, ClosedView

(* Steps of one connection, seen from that connection or from another one. *)
LEMMA LeaseStepOfOne ==
    ASSUME LeaseInv, NEW c \in Connections, UserStep(c) \/ TaskStep(c) \/ ServerStep(c),
           NEW d \in Connections, Live(d)'
    PROVE  /\ LeasesTold(d)' \subseteq ActiveLeases(d)'
           /\ LeasesClaimed(d)' \subseteq ActiveLeases(d)' \cup {welcome'[d]}
<1> USE DEF LeaseInv
<1>1. CASE d # c
  <2>1. /\ LeasesTold(d)' = LeasesTold(d) /\ LeasesClaimed(d)' = LeasesClaimed(d)
        /\ welcome'[d] = welcome[d] /\ Live(d)
    BY <1>1, OthersUnchanged, HeldUnchanged DEF Live
  <2>2. ActiveLeases(d) \subseteq ActiveLeases(d)'
    BY <1>1, ActiveLeasesKept
  <2> QED
    BY <2>1, <2>2 DEF HeldLeasesAreActive
<1>2. CASE d = c /\ Connect(c)
  <2>1. Unused(c) /\ UNCHANGED <<view, sync, outgoing, toServer, toClient, events>>
    BY <1>2 DEF Connect, wires, client, pane
  <2>2. LeasesTold(c)' = LeasesTold(c) /\ LeasesClaimed(c)' = LeasesClaimed(c)
    BY <2>1, HeldUnchanged
  <2> QED
    BY <1>2, <2>1, <2>2, UnusedHoldsNothing DEF ActiveLeases
<1>3. CASE d = c /\ ~Connect(c)
  <2>1. ~ReleaseAccess(c)
    BY <1>3 DEF ReleaseAccess, Live, TypeOK
  <2>2. ActiveLeases(c) \subseteq ActiveLeases(c)' /\ NoLease \in ActiveLeases(c)'
    BY <2>1, ActiveLeasesKept DEF ActiveLeases
  <2>3. CASE Live(c)
    <3>1. /\ LeasesTold(c) \subseteq ActiveLeases(c)
          /\ LeasesClaimed(c) \subseteq ActiveLeases(c) \cup {welcome[c]}
      BY <2>3 DEF HeldLeasesAreActive
    <3>2. CASE ServerStep(c)
      BY <1>3, <2>2, <3>1, <3>2, ServerLeases
    <3>3. CASE UserStep(c) \/ TaskStep(c)
      BY <1>3, <2>2, <3>1, <3>3, ClientLeases
    <3> QED
      BY <3>2, <3>3
  <2>4. CASE ~Live(c)
    <3>1. conn'[c] = conn[c]
      <4>1. CASE UserStep(c)
        BY <1>3, <2>4, <4>1 DEF UserStep, Type, Request, Disconnect, CloseTab, Live, TypeOK
      <4>2. CASE TaskStep(c)
        BY <4>2 DEF TaskStep, SendFrame, ReceiveFrame, ApplyEvent
      <4>3. CASE ServerStep(c)
        BY <2>4, <4>3 DEF ServerStep, AcceptEdit, RejectEdit, ServeOpen, RefuseRequest,
               ServeResync, CommitReload, AnswerReload, ReleaseAccess, Serving, Live
      <4> QED
        BY <4>1, <4>2, <4>3
    <3> QED
      BY <1>3, <2>4, <3>1 DEF Live
  <2> QED
    BY <2>3, <2>4
<1> QED
  BY <1>1, <1>2, <1>3

(* The pane is handed over together with its stale access, which the       *)
(* reopening mark keeps out of the leases the client goes by.              *)
LEMMA LeaseReconnect ==
    ASSUME LeaseInv, NEW a \in Connections, NEW c \in Connections, Reconnect(a, c),
           NEW d \in Connections, Live(d)'
    PROVE  /\ LeasesTold(d)' \subseteq ActiveLeases(d)'
           /\ LeasesClaimed(d)' \subseteq ActiveLeases(d)' \cup {welcome'[d]}
<1> USE DEF LeaseInv
<1>1. ActiveLeases(d)' = ActiveLeases(d) /\ a # c
  BY DEF Reconnect, document, ActiveLeases
<1>2. UNCHANGED <<toServer, toClient, events>>
  BY DEF Reconnect, wires
<1>3. CASE d = c
  <2>1. /\ outgoing'[c] = <<[kind |-> "Open"]>> /\ sync'[c].lease = NoLease
        /\ view'[c].reopening = TRUE
    <3>1. view[a] \in View
      BY DEF TypeOK
    <3>2. view'[c] = Reconnected(view[a])
      BY DEF Reconnect, TypeOK
    <3>3. view'[c].reopening = TRUE
      BY <3>1, <3>2 DEF Reconnected, View
    <3>4. outgoing'[c] = <<[kind |-> "Open"]>> /\ sync'[c].lease = NoLease
      BY DEF Reconnect, TypeOK, install
    <3> QED
      BY <3>3, <3>4
  <2>2. LeasesIn(outgoing'[c]) = {}
    <3>1. ~CarriesLease([kind |-> "Open"])
      BY DEF CarriesLease, IsSnapshot
    <3> QED
      BY <2>1, <3>1 DEF LeasesIn
  <2>3. toServer[c] = <<>> /\ toClient[c] = <<>> /\ events[c] = <<>>
    BY DEF Reconnect, Unused
  <2> QED
    BY <1>1, <1>2, <1>3, <2>1, <2>2, <2>3, LeasesInEmpty
    DEF LeasesTold, LeasesClaimed, ActiveLeases
<1>4. CASE d # c
  <2>1. /\ conn'[d] = conn[d] /\ sync'[d] = sync[d] /\ outgoing'[d] = outgoing[d]
        /\ welcome'[d] = welcome[d]
    BY <1>4 DEF Reconnect, TypeOK
  <2>2. view'[d] = view[d] \/ (view'[d].lease = NoLease /\ view'[d].reopening = FALSE)
    BY <1>4 DEF Reconnect, TypeOK, ClosedView
  <2>3. /\ LeasesTold(d)' \subseteq LeasesTold(d) \cup {NoLease}
        /\ LeasesClaimed(d)' = LeasesClaimed(d)
    BY <1>2, <2>1, <2>2 DEF LeasesTold, LeasesClaimed
  <2>4. Live(d)
    BY <2>1 DEF Live
  <2> QED
    BY <1>1, <2>1, <2>3, <2>4 DEF HeldLeasesAreActive, ActiveLeases
<1> QED
  BY <1>3, <1>4

(* A connection that has not been used stays unused.                       *)
LEMMA UnusedStep ==
    ASSUME LeaseInv, Next, NEW d \in Connections, conn'[d] = "idle"
    PROVE  Unused(d)'
<1> USE DEF LeaseInv
<1>1. ASSUME NEW c \in Connections, UserStep(c) \/ TaskStep(c) \/ ServerStep(c)
      PROVE  Unused(d)'
  <2>1. CASE d # c
    BY <1>1, <2>1, OthersUnchanged DEF Unused
  <2>2. CASE d = c
    <3>1. CASE conn[c] = "idle"
      <4>1. Unused(c) /\ ~view[c].open
        <5>1. Unused(c)
          BY <3>1
        <5>2. view[c].open = FALSE
          BY <5>1 DEF Unused, ClosedView
        <5> QED
          BY <5>1, <5>2
      <4>2. ~UserStep(c)
        BY <2>2, <3>1, <4>1
        DEF UserStep, Connect, Type, Request, Disconnect, CloseTab, TypeOK
      <4>3. ~TaskStep(c)
        BY <3>1, <4>1 DEF TaskStep, SendFrame, ReceiveFrame, ApplyEvent, Unused
      <4>4. ~ServerStep(c)
        BY <3>1 DEF ServerStep, AcceptEdit, RejectEdit, ServeOpen, RefuseRequest, ServeResync,
                    CommitReload, AnswerReload, ReleaseAccess, Serving
      <4> QED
        BY <1>1, <4>2, <4>3, <4>4
    <3>2. CASE conn[c] # "idle"
      <4>1. UserStep(c) => conn'[c] # "idle"
        BY <3>2, SMTT(30) DEF UserStep, Connect, Type, Request, Disconnect, CloseTab, TypeOK
      <4>2. TaskStep(c) => conn'[c] # "idle"
        BY <3>2 DEF TaskStep, SendFrame, ReceiveFrame, ApplyEvent
      <4>3. ServerStep(c) => conn'[c] # "idle"
        BY <3>2 DEF ServerStep, AcceptEdit, RejectEdit, ServeOpen, RefuseRequest, ServeResync,
                    CommitReload, AnswerReload, ReleaseAccess, TypeOK
      <4> QED
        BY <1>1, <2>2, <4>1, <4>2, <4>3
    <3> QED
      BY <3>1, <3>2
  <2> QED
    BY <2>1, <2>2
<1>2. ASSUME NEW a \in Connections, NEW c \in Connections, Reconnect(a, c)
      PROVE  Unused(d)'
  <2>1. d # c
    BY <1>2 DEF Reconnect, TypeOK
  <2>2. conn'[d] = conn[d] /\ sync'[d] = sync[d] /\ outgoing'[d] = outgoing[d]
    BY <1>2, <2>1 DEF Reconnect, TypeOK
  <2>3. d # a
    BY <1>2, <2>2 DEF Reconnect
  <2>4. view'[d] = view[d]
    BY <1>2, <2>1, <2>3 DEF Reconnect, TypeOK
  <2>5. UNCHANGED <<toServer, toClient, events>>
    BY <1>2 DEF Reconnect, wires
  <2> QED
    BY <2>2, <2>4, <2>5 DEF Unused
<1> QED
  BY <1>1, <1>2 DEF Next

(* Every step keeps the lease invariant.                                   *)
LEMMA LeaseStep == LeaseInv /\ [Next]_vars => LeaseInv'
<1> SUFFICES ASSUME LeaseInv, [Next]_vars PROVE LeaseInv'
  OBVIOUS
<1>1. TypeOK'
  BY TypeStep DEF LeaseInv
<1>2. CASE Next
  <2>1. HeldLeasesAreActive'
    <3> SUFFICES ASSUME NEW d \in Connections, Live(d)'
                 PROVE  /\ LeasesTold(d)' \subseteq ActiveLeases(d)'
                        /\ LeasesClaimed(d)' \subseteq ActiveLeases(d)' \cup {welcome'[d]}
      BY DEF HeldLeasesAreActive
    <3>1. ASSUME NEW c \in Connections, UserStep(c) \/ TaskStep(c) \/ ServerStep(c)
          PROVE  /\ LeasesTold(d)' \subseteq ActiveLeases(d)'
                 /\ LeasesClaimed(d)' \subseteq ActiveLeases(d)' \cup {welcome'[d]}
      BY <3>1, LeaseStepOfOne
    <3>2. ASSUME NEW a \in Connections, NEW c \in Connections, Reconnect(a, c)
          PROVE  /\ LeasesTold(d)' \subseteq ActiveLeases(d)'
                 /\ LeasesClaimed(d)' \subseteq ActiveLeases(d)' \cup {welcome'[d]}
      BY <3>2, LeaseReconnect
    <3> QED
      BY <1>2, <3>1, <3>2 DEF Next
  <2>2. \A d \in Connections : conn'[d] = "idle" => Unused(d)'
    BY <1>2, UnusedStep
  <2> QED
    BY <1>1, <2>1, <2>2 DEF LeaseInv
<1>3. CASE UNCHANGED vars
  <2>1. HeldLeasesAreActive'
    BY <1>3 DEF vars, document, wires, client, pane, LeaseInv, HeldLeasesAreActive, Live,
                LeasesTold, LeasesClaimed, ActiveLeases
  <2>2. \A d \in Connections : conn'[d] = "idle" => Unused(d)'
    BY <1>3 DEF vars, document, wires, client, pane, LeaseInv, Unused
  <2> QED
    BY <1>1, <2>1, <2>2 DEF LeaseInv
<1> QED
  BY <1>2, <1>3

(* Two attached panes with a lease would both hold the document's lease.   *)
LEMMA OneEditorHolds == LeaseInv => OneEditor
<1> SUFFICES ASSUME LeaseInv,
                    NEW c \in Connections, NEW d \in Connections,
                    Attached(c), Attached(d), view[c].lease # NoLease, view[d].lease # NoLease
             PROVE  c = d
  BY DEF OneEditor
<1>1. view[c].lease \in ActiveLeases(c) /\ view[d].lease \in ActiveLeases(d)
  BY DEF LeaseInv, HeldLeasesAreActive, Live, Attached, LeasesTold
<1> QED
  BY <1>1 DEF ActiveLeases

--------------------------------------------------------------------------------
(* The lease ids a live connection goes by - in its pane, its sync state   *)
(* and every message to or from it - are the server's active lease of that *)
(* connection (validate_lease, acquire_access, release_access), except for *)
(* a pane still being reopened and what it sends under the welcome lease.  *)
THEOREM LeasesStayActive == Spec => []HeldLeasesAreActive
<1>1. LeaseInv => HeldLeasesAreActive
  BY DEF LeaseInv
<1> QED
  BY LeaseInit, LeaseStep, <1>1, PTL DEF Spec

(* At most one connected pane accepts typing at any time, for any number   *)
(* of connections, crashes and handovers (is_editable, acquire_access).    *)
THEOREM SingleEditor == Spec => []OneEditor
  BY LeaseInit, LeaseStep, OneEditorHolds, PTL DEF Spec

--------------------------------------------------------------------------------
(* Access: a document is not closed under a pane that shows it.            *)

HasSnapshot(q) == \E i \in 1..Len(q) : IsSnapshot(q[i])

(* The pane shows the document, or is going to.                            *)
Seen(c) ==
    \/ Attached(c)
    \/ reloading[c] # <<>>
    \/ HasSnapshot(toClient[c])
    \/ HasSnapshot(events[c])

(* The connection has had no answer yet, and the first thing it asks for,  *)
(* if it asks for anything, is to open the document.                       *)
Asking(c) ==
    /\ toClient[c] = <<>> /\ events[c] = <<>> /\ reloading[c] = <<>>
    /\ \/ toServer[c] # <<>> /\ Head(toServer[c]).kind = "Open"
       \/ toServer[c] = <<>> /\ outgoing[c] # <<>> /\ Head(outgoing[c]).kind = "Open"
       \/ toServer[c] = <<>> /\ outgoing[c] = <<>> /\ ~view[c].open /\ ~view[c].recover

Admitted(c) ==
    /\ c \in access => ~closed
    /\ Seen(c) => c \in access
    /\ c \in access \/ closed \/ Asking(c)

AccessInv ==
    \A c \in Connections :
        /\ conn[c] = "up" => Admitted(c)
        /\ conn[c] = "idle" => reloading[c] = <<>> /\ c \notin access

(* Queues that grow and shrink.                                            *)
LEMMA SnapshotsInQueues ==
    ASSUME NEW S, NEW q \in Seq(S), NEW m \in S
    PROVE  /\ HasSnapshot(Append(q, m)) <=> HasSnapshot(q) \/ IsSnapshot(m)
           /\ q # <<>> => (HasSnapshot(q) <=> IsSnapshot(Head(q)) \/ HasSnapshot(Tail(q)))
           /\ Append(q, m) # <<>>
           /\ Head(Append(q, m)) = IF q = <<>> THEN m ELSE Head(q)
<1>1. /\ Len(Append(q, m)) = Len(q) + 1
      /\ \A i \in 1..Len(q) : Append(q, m)[i] = q[i]
      /\ Append(q, m)[Len(q) + 1] = m
  OBVIOUS
<1>2. HasSnapshot(Append(q, m)) <=> HasSnapshot(q) \/ IsSnapshot(m)
  BY <1>1 DEF HasSnapshot
<1>3. ASSUME q # <<>>
      PROVE  HasSnapshot(q) <=> IsSnapshot(Head(q)) \/ HasSnapshot(Tail(q))
  <2>1. /\ Len(Tail(q)) = Len(q) - 1 /\ Head(q) = q[1] /\ Len(q) >= 1
        /\ \A i \in 1..Len(Tail(q)) : Tail(q)[i] = q[i + 1]
    BY <1>3
  <2>2. ASSUME HasSnapshot(q)
        PROVE  IsSnapshot(Head(q)) \/ HasSnapshot(Tail(q))
    <3>1. PICK i \in 1..Len(q) : IsSnapshot(q[i])
      BY <2>2 DEF HasSnapshot
    <3>2. CASE i # 1
      <4>1. i - 1 \in 1..Len(Tail(q)) /\ Tail(q)[i - 1] = q[i]
        BY <2>1, <3>2
      <4> QED
        BY <3>1, <4>1 DEF HasSnapshot
    <3> QED
      BY <2>1, <3>1, <3>2
  <2>3. ASSUME HasSnapshot(Tail(q))
        PROVE  HasSnapshot(q)
    <3>1. PICK i \in 1..Len(Tail(q)) : IsSnapshot(Tail(q)[i])
      BY <2>3 DEF HasSnapshot
    <3>2. i + 1 \in 1..Len(q) /\ IsSnapshot(q[i + 1])
      BY <2>1, <3>1
    <3> QED
      BY <3>2 DEF HasSnapshot
  <2> QED
    BY <2>1, <2>2, <2>3 DEF HasSnapshot
<1>4. Append(q, m) # <<>> /\ Head(Append(q, m)) = IF q = <<>> THEN m ELSE Head(q)
  <2> DEFINE r == Append(q, m)
  <2>1. r \in Seq(S) /\ Len(r) = Len(q) + 1 /\ Len(q) \in Nat
    OBVIOUS
  <2>2. r # <<>>
    BY <2>1
  <2>3. Head(r) = r[1]
    BY <2>1, <2>2
  <2>4. CASE q = <<>>
    <3>1. Len(q) = 0
      BY <2>4
    <3> QED
      BY <1>1, <2>2, <2>3, <2>4, <3>1
  <2>5. CASE q # <<>>
    <3>1. 1 \in 1..Len(q) /\ Head(q) = q[1]
      BY <2>5
    <3> QED
      BY <1>1, <2>2, <2>3, <2>5, <3>1
  <2> QED
    BY <2>4, <2>5
<1> QED
  BY <1>2, <1>3, <1>4

(* A connection whose parts do not change stays admitted while others come *)
(* and go.                                                                 *)
LEMMA OthersStayAdmitted ==
    ASSUME TypeOK, NEW d \in Connections, Admitted(d),
           conn'[d] = conn[d], view'[d] = view[d], outgoing'[d] = outgoing[d],
           toServer'[d] = toServer[d], toClient'[d] = toClient[d], events'[d] = events[d],
           reloading'[d] = reloading[d],
           d \in access <=> d \in access',
           closed => closed', d \in access => closed' = closed
    PROVE  Admitted(d)'
<1>1. Seen(d)' = Seen(d)
  BY DEF Seen, Attached
<1>2. Asking(d) => Asking(d)'
  BY DEF Asking
<1> QED
  BY <1>1, <1>2 DEF Admitted

LEMMA AccessOfOthers ==
    ASSUME LeaseInv, AccessInv,
           NEW c \in Connections, UserStep(c) \/ TaskStep(c) \/ ServerStep(c),
           NEW d \in Connections, d # c, conn[d] = "up"
    PROVE  Admitted(d)'
<1>0. TypeOK /\ Admitted(d)
  BY DEF LeaseInv, AccessInv
<1>1. /\ conn'[d] = conn[d] /\ view'[d] = view[d] /\ outgoing'[d] = outgoing[d]
      /\ toServer'[d] = toServer[d] /\ toClient'[d] = toClient[d] /\ events'[d] = events[d]
  BY <1>0, OthersUnchanged
<1>2. reloading'[d] = reloading[d]
  BY <1>0 DEF UserStep, Connect, Type, Request, Disconnect, CloseTab, TaskStep, SendFrame,
     ReceiveFrame, ApplyEvent, ServerStep, AcceptEdit, RejectEdit, ServeOpen, RefuseRequest,
     ServeResync, CommitReload, AnswerReload, ReleaseAccess, wires, TypeOK
<1>3. CASE ServeOpen(c)
  BY <1>0, <1>1, <1>2, <1>3, OthersStayAdmitted DEF ServeOpen
<1>4. CASE ReleaseAccess(c)
  <2>1. (d \in access <=> d \in access') /\ (closed => closed')
        /\ (d \in access => closed' = closed)
    BY <1>0, <1>4 DEF ReleaseAccess, Abandoned, TypeOK
  <2> QED
    BY <1>0, <1>1, <1>2, <2>1, OthersStayAdmitted
<1>5. CASE UNCHANGED <<access, closed>>
  BY <1>0, <1>1, <1>2, <1>5, OthersStayAdmitted
<1> QED
  BY <1>3, <1>4, <1>5 DEF UserStep, Connect, Type, Request, Disconnect, CloseTab, TaskStep,
     SendFrame, ReceiveFrame, ApplyEvent, ServerStep, AcceptEdit, RejectEdit, RefuseRequest,
     ServeResync, CommitReload, AnswerReload, document

(* What the connection itself does on the client's side.                   *)
LEMMA ClientStaysAdmitted ==
    ASSUME TypeOK, NEW c \in Connections, Admitted(c), conn[c] = "up", conn'[c] = "up",
           UserStep(c) \/ TaskStep(c)
    PROVE  Admitted(c)'
<1>0. /\ toServer[c] \in Seq(ClientMessage) /\ outgoing[c] \in Seq(ClientMessage)
      /\ toClient[c] \in Seq(ServerMessage) /\ events[c] \in Seq(ServerMessage)
      /\ view[c] \in View
  BY DEF TypeOK
<1>1. CASE Type(c)
  <2>1. /\ UNCHANGED <<conn, access, closed, reloading, toServer, toClient, events>>
        /\ view[c].open
    BY <1>1 DEF Type, document, wires
  <2>2. view'[c].open = view[c].open /\ view'[c].reopening = view[c].reopening
    BY <1>0, <1>1 DEF Type, TypeOK, View
  <2>3. outgoing'[c] = outgoing[c] \/ \E m \in ClientMessage : outgoing'[c] = Append(outgoing[c], m)
    <3>1. CASE outgoing' = outgoing
      BY <3>1
    <3>2. CASE outgoing' # outgoing
      <4> DEFINE edit == [kind |-> "Edit", base |-> sync[c].optimistic, txn |-> nextTxn[c] + 1,
                          lease |-> LeaseToSend(c), on |-> view[c].text]
      <4>1. outgoing' = [outgoing EXCEPT ![c] = Append(@, edit)]
        BY <1>1, <3>2 DEF Type
      <4>2. edit \in ClientMessage
        <5>1. sync[c] \in SyncState /\ nextTxn[c] \in Nat /\ welcome[c] \in Nat
          BY DEF TypeOK
        <5>2. LeaseToSend(c) \in Nat /\ sync[c].optimistic \in Nat /\ view[c].text \in Text
          BY <1>0, <5>1 DEF LeaseToSend, SyncState, View
        <5> QED
          BY <5>1, <5>2 DEF ClientMessage, EditMessage
      <4> HIDE DEF edit
      <4>3. outgoing'[c] = Append(outgoing[c], edit)
        BY <4>1 DEF TypeOK
      <4> QED
        BY <4>2, <4>3
    <3> QED
      BY <3>1, <3>2
  <2>4. Seen(c)' = Seen(c)
    BY <2>1, <2>2 DEF Seen, Attached
  <2>5. Asking(c) => Asking(c)'
    BY <1>0, <2>1, <2>3, SnapshotsInQueues, SMTT(30) DEF Asking
  <2> QED
    BY <2>1, <2>4, <2>5 DEF Admitted
<1>2. ASSUME NEW kind \in {"Open", "Reload", "Resync"}, Request(c, kind)
      PROVE  Admitted(c)'
  <2>1. /\ UNCHANGED <<conn, access, closed, reloading, toServer, toClient, events, view>>
        /\ kind = "Reload" => view[c].open
        /\ kind = "Resync" => view[c].recover
        /\ outgoing'[c] = Append(outgoing[c], [kind |-> kind])
    BY <1>2 DEF Request, document, wires, TypeOK
  <2>2. [kind |-> kind] \in ClientMessage
    BY DEF ClientMessage, RequestMessage
  <2>3. Seen(c)' = Seen(c)
    BY <2>1 DEF Seen, Attached
  <2>4. /\ outgoing'[c] # <<>>
        /\ Head(outgoing'[c]) = IF outgoing[c] = <<>> THEN [kind |-> kind] ELSE Head(outgoing[c])
    BY <1>0, <2>1, <2>2, SnapshotsInQueues
  <2>5. Asking(c) => Asking(c)'
    BY <2>1, <2>4 DEF Asking
  <2> QED
    BY <2>1, <2>3, <2>5 DEF Admitted
<1>3. CASE SendFrame(c)
  <2>1. /\ UNCHANGED <<conn, access, closed, reloading, toClient, events, view>>
        /\ outgoing[c] # <<>>
        /\ toServer'[c] = Append(toServer[c], Head(outgoing[c]))
    BY <1>3 DEF SendFrame, document, pane, TypeOK
  <2>2. Head(outgoing[c]) \in ClientMessage
    BY <2>1, HeadTypes
  <2>3. Seen(c)' = Seen(c)
    BY <2>1 DEF Seen, Attached
  <2>4. /\ toServer'[c] # <<>>
        /\ Head(toServer'[c]) = IF toServer[c] = <<>> THEN Head(outgoing[c]) ELSE Head(toServer[c])
    BY <1>0, <2>1, <2>2, SnapshotsInQueues
  <2>5. Asking(c) => Asking(c)'
    BY <2>1, <2>4 DEF Asking
  <2> QED
    BY <2>1, <2>3, <2>5 DEF Admitted
<1>4. CASE ReceiveFrame(c)
  <2>1. /\ UNCHANGED <<conn, access, closed, reloading, view>>
        /\ toClient[c] # <<>>
        /\ toClient'[c] = Tail(toClient[c])
        /\ events'[c] = Append(events[c], Head(toClient[c]))
    BY <1>4 DEF ReceiveFrame, document, pane, TypeOK
  <2>2. Head(toClient[c]) \in ServerMessage
    BY <2>1, HeadTypes
  <2>3. HasSnapshot(toClient'[c]) \/ HasSnapshot(events'[c])
            <=> HasSnapshot(toClient[c]) \/ HasSnapshot(events[c])
    BY <1>0, <2>1, <2>2, SnapshotsInQueues
  <2>4. Seen(c)' => Seen(c)
    BY <2>1, <2>3 DEF Seen, Attached
  <2> QED
    BY <2>1, <2>4 DEF Admitted, Asking
<1>5. CASE ApplyEvent(c)
  <2>1. /\ UNCHANGED <<conn, access, closed, reloading, toClient>>
        /\ events[c] # <<>>
        /\ events'[c] = Tail(events[c])
    BY <1>5 DEF ApplyEvent, document, wires, TypeOK
  <2>2. Head(events[c]) \in ServerMessage
    BY <2>1, HeadTypes
  <2>3. HasSnapshot(events[c]) <=> IsSnapshot(Head(events[c])) \/ HasSnapshot(events'[c])
    BY <1>0, <2>1, <2>2, SnapshotsInQueues
  <2>4. Attached(c)' => Attached(c) \/ IsSnapshot(Head(events[c]))
    <3> SUFFICES ASSUME ~IsSnapshot(Head(events[c]))
                 PROVE  Attached(c)' => Attached(c)
      OBVIOUS
    <3>1. \/ view' = view
          \/ view' = [view EXCEPT ![c] = ClosedView]
          \/ \E r : view' = [view EXCEPT ![c].recover = r]
      BY <1>5 DEF ApplyEvent, IsSnapshot
    <3>2. CASE view' = [view EXCEPT ![c] = ClosedView]
      BY <3>2 DEF Attached, ClosedView, TypeOK
    <3>3. CASE \E r : view' = [view EXCEPT ![c].recover = r]
      BY <1>0, <2>1, <3>3 DEF Attached, TypeOK, View
    <3> QED
      BY <2>1, <3>1, <3>2, <3>3 DEF Attached
  <2>5. Seen(c)' => Seen(c)
    BY <2>1, <2>3, <2>4 DEF Seen
  <2> QED
    BY <2>1, <2>5 DEF Admitted, Asking
<1> QED
  BY <1>1, <1>2, <1>3, <1>4, <1>5 DEF UserStep, TaskStep, Connect, Disconnect, CloseTab, TypeOK

(* What the server does for the connection.                                *)
LEMMA ServedStaysAdmitted ==
    ASSUME TypeOK, NEW c \in Connections, Admitted(c), conn[c] = "up", conn'[c] = "up",
           ServerStep(c)
    PROVE  Admitted(c)'
<1>0. /\ toServer[c] \in Seq(ClientMessage) /\ toClient[c] \in Seq(ServerMessage)
      /\ ~ReleaseAccess(c)
  BY DEF TypeOK, ReleaseAccess
<1>1. UNCHANGED <<conn, outgoing, events, view>>
  BY <1>0 DEF ServerStep, AcceptEdit, RejectEdit, ServeOpen, RefuseRequest, ServeResync,
         CommitReload, AnswerReload, client, pane
<1>2. ASSUME NEW m \in ServerMessage, Reply(c, m)
      PROVE  HasSnapshot(toClient'[c]) <=> HasSnapshot(toClient[c]) \/ IsSnapshot(m)
  <2>1. toClient'[c] = Append(toClient[c], m)
    BY <1>2 DEF Reply, TypeOK
  <2> QED
    BY <1>0, <2>1, SnapshotsInQueues
<1>3. CASE ServeOpen(c)
  BY <1>3 DEF ServeOpen, Admitted
<1>4. CASE AcceptEdit(c) \/ RejectEdit(c)
  <2>1. /\ toServer[c] # <<>> /\ Head(toServer[c]).kind = "Edit"
        /\ UNCHANGED <<access, closed, reloading>>
    BY <1>4 DEF AcceptEdit, RejectEdit, Serving, document
  <2>2. Head(toServer[c]).txn \in Nat
    BY <2>1, HeadTypes, MessageFields DEF EditMessage
  <2>3. PICK m \in ServerMessage : Reply(c, m) /\ ~IsSnapshot(m)
    <3>1. CASE AcceptEdit(c)
      <4> DEFINE m == [kind |-> "EditAck", version |-> version + 1, txn |-> Head(toServer[c]).txn]
      <4>0. version + 1 \in Nat
        BY DEF TypeOK
      <4>1. m \in ServerMessage /\ ~IsSnapshot(m)
        BY <2>2, <4>0 DEF ServerMessage, AckMessage, IsSnapshot
      <4>2. Reply(c, m)
        BY <3>1 DEF AcceptEdit
      <4> QED
        BY <4>1, <4>2
    <3>2. CASE RejectEdit(c)
      <4>1. PICK reason \in Verdicts(c, Head(toServer[c])) \ {"Accepted"} :
               Reply(c, [kind |-> "EditRejected", txn |-> Head(toServer[c]).txn,
                         reason |-> reason])
        BY <3>2 DEF RejectEdit
      <4>2. reason \in Rejection
        BY <4>1 DEF Verdicts, Rejection
      <4>3. [kind |-> "EditRejected", txn |-> Head(toServer[c]).txn, reason |-> reason]
                \in ServerMessage
        BY <2>2, <4>2 DEF ServerMessage, RejectMessage
      <4> QED
        BY <4>1, <4>3 DEF IsSnapshot
    <3> QED
      BY <1>4, <3>1, <3>2
  <2>4. Seen(c)' = Seen(c)
    BY <1>1, <1>2, <2>1, <2>3 DEF Seen, Attached
  <2> QED
    BY <2>1, <2>4 DEF Admitted, Asking
<1>5. CASE RefuseRequest(c)
  <2>1. /\ toServer[c] # <<>> /\ (Head(toServer[c]).kind = "Reload" \/ closed)
        /\ UNCHANGED <<access, closed, reloading>>
    BY <1>5 DEF RefuseRequest, Serving, document
  <2>2. HasSnapshot(toClient'[c]) <=> HasSnapshot(toClient[c])
    <3>1. CASE Reply(c, [kind |-> "OtherOpened"])
      <4>1. [kind |-> "OtherOpened"] \in ServerMessage /\ ~IsSnapshot([kind |-> "OtherOpened"])
        BY DEF ServerMessage, ElsewhereMessage, IsSnapshot
      <4> QED
        BY <1>2, <3>1, <4>1
    <3> QED
      BY <1>5, <3>1 DEF RefuseRequest
  <2>3. Seen(c)' = Seen(c)
    BY <1>1, <2>1, <2>2 DEF Seen, Attached
  <2> QED
    BY <2>1, <2>3 DEF Admitted, Asking
<1>6. CASE ServeResync(c) \/ CommitReload(c)
  <2>1. /\ toServer[c] # <<>> /\ Head(toServer[c]).kind # "Open" /\ ~closed
        /\ UNCHANGED <<access, closed>>
    BY <1>6 DEF ServeResync, CommitReload, Serving, document
  <2> QED
    BY <2>1 DEF Admitted, Asking
<1>7. CASE AnswerReload(c)
  BY <1>7 DEF AnswerReload, document, Admitted, Seen
<1> QED
  BY <1>0, <1>3, <1>4, <1>5, <1>6, <1>7 DEF ServerStep

LEMMA AccessInit == Init => AccessInv
BY DEF Init, AccessInv

LEMMA AccessStep == LeaseInv /\ AccessInv /\ [Next]_vars => AccessInv'
<1> SUFFICES ASSUME LeaseInv, AccessInv, [Next]_vars,
                    NEW d \in Connections
             PROVE  /\ conn'[d] = "up" => Admitted(d)'
                    /\ conn'[d] = "idle" => reloading'[d] = <<>> /\ d \notin access'
  BY DEF AccessInv
<1>0. /\ TypeOK
      /\ conn[d] = "up" => Admitted(d)
      /\ conn[d] = "idle" => Unused(d) /\ reloading[d] = <<>> /\ d \notin access
  BY DEF LeaseInv, AccessInv
<1>1. CASE UNCHANGED vars
  BY <1>0, <1>1 DEF vars, document, wires, client, pane, Admitted, Seen, Asking, Attached
<1>2. ASSUME NEW c \in Connections, UserStep(c) \/ TaskStep(c) \/ ServerStep(c)
      PROVE  /\ conn'[d] = "up" => Admitted(d)'
             /\ conn'[d] = "idle" => reloading'[d] = <<>> /\ d \notin access'
  <2>1. CASE d # c
    <3>1. conn'[d] = conn[d]
      BY <1>0, <1>2, <2>1, OthersUnchanged
    <3>2. reloading'[d] = reloading[d]
      BY <1>0, <1>2, <2>1 DEF UserStep, Connect, Type, Request, Disconnect, CloseTab, TaskStep,
         SendFrame, ReceiveFrame, ApplyEvent, ServerStep, AcceptEdit, RejectEdit, ServeOpen,
         RefuseRequest, ServeResync, CommitReload, AnswerReload, ReleaseAccess, wires, TypeOK
    <3>3. d \notin access => d \notin access'
      BY <1>2, <2>1 DEF UserStep, Connect, Type, Request, Disconnect, CloseTab, TaskStep,
         SendFrame, ReceiveFrame, ApplyEvent, ServerStep, AcceptEdit, RejectEdit, ServeOpen,
         RefuseRequest, ServeResync, CommitReload, AnswerReload, ReleaseAccess, document
    <3> QED
      BY <1>0, <1>2, <2>1, <3>1, <3>2, <3>3, AccessOfOthers
  <2>2. CASE d = c /\ Connect(c)
    <3>1. conn[c] = "idle" /\ UNCHANGED <<view, outgoing, toServer, toClient, events, reloading>>
      BY <2>2 DEF Connect, wires, client, pane
    <3>2. conn'[c] = "up"
      BY <1>0, <2>2 DEF Connect, TypeOK
    <3>3. Asking(c)' /\ ~view'[c].open
      BY <1>0, <2>2, <3>1 DEF Asking, Unused, ClosedView
    <3>4. ~Seen(c)'
      BY <3>3 DEF Seen, Asking, Attached, HasSnapshot
    <3>5. c \notin access'
      BY <1>0, <2>2, <3>1 DEF Connect, document
    <3> QED
      BY <2>2, <3>2, <3>3, <3>4, <3>5 DEF Admitted
  <2>3. CASE d = c /\ ~Connect(c)
    <3>1. CASE conn'[c] = "up"
      <4>1. conn[c] = "up"
        BY <1>0, <1>2, <2>3, <3>1
           DEF UserStep, Type, Request, Disconnect, CloseTab, TaskStep, SendFrame, ReceiveFrame,
               ApplyEvent, ServerStep, AcceptEdit, RejectEdit, ServeOpen, RefuseRequest,
               ServeResync, CommitReload, AnswerReload, ReleaseAccess, Serving, TypeOK
      <4> QED
        BY <1>0, <1>2, <2>3, <3>1, <4>1, ClientStaysAdmitted, ServedStaysAdmitted
    <3>2. CASE conn'[c] = "idle"
      <4>1. conn[c] = "idle"
        BY <1>0, <1>2, <2>3, <3>2
           DEF UserStep, Type, Request, Disconnect, CloseTab, TaskStep, SendFrame, ReceiveFrame,
               ApplyEvent, ServerStep, AcceptEdit, RejectEdit, ServeOpen, RefuseRequest,
               ServeResync, CommitReload, AnswerReload, ReleaseAccess, Serving, TypeOK
      <4>2. ~ServerStep(c)
        BY <4>1 DEF ServerStep, AcceptEdit, RejectEdit, ServeOpen, RefuseRequest, ServeResync,
                    CommitReload, AnswerReload, ReleaseAccess, Serving
      <4>3. UNCHANGED <<reloading, access>>
        BY <1>2, <4>2 DEF UserStep, Connect, Type, Request, Disconnect, CloseTab, TaskStep,
                          SendFrame, ReceiveFrame, ApplyEvent, wires, document
      <4> QED
        BY <1>0, <2>3, <3>2, <4>1, <4>3
    <3> QED
      BY <2>3, <3>1, <3>2
  <2> QED
    BY <2>1, <2>2, <2>3
<1>3. ASSUME NEW a \in Connections, NEW c \in Connections, Reconnect(a, c)
      PROVE  /\ conn'[d] = "up" => Admitted(d)'
             /\ conn'[d] = "idle" => reloading'[d] = <<>> /\ d \notin access'
  <2>1. /\ UNCHANGED <<access, closed, toServer, toClient, reloading, events>> /\ a # c
        /\ conn[c] = "idle" /\ conn[a] # "up" /\ conn[a] # "idle"
    BY <1>3 DEF Reconnect, document, wires
  <2>2. CASE d = c
    <3>1. outgoing'[c] = <<[kind |-> "Open"]>> /\ conn'[c] = "up"
      BY <1>0, <1>3 DEF Reconnect, TypeOK
    <3>2. view'[c].reopening
      <4>1. view[a] \in View /\ view'[c] = Reconnected(view[a])
        BY <1>0, <1>3 DEF Reconnect, TypeOK
      <4> QED
        BY <4>1 DEF Reconnected, View
    <3>3. Asking(c)'
      BY <1>0, <2>1, <2>2, <3>1 DEF Asking, Unused
    <3>4. ~Seen(c)'
      BY <3>2, <3>3 DEF Seen, Asking, Attached, HasSnapshot
    <3> QED
      BY <1>0, <2>1, <2>2, <3>1, <3>3, <3>4 DEF Admitted
  <2>3. CASE d # c
    <3>1. conn'[d] = conn[d] /\ outgoing'[d] = outgoing[d]
      BY <1>0, <1>3, <2>3 DEF Reconnect, TypeOK
    <3>2. conn[d] = "up" => view'[d] = view[d]
      BY <1>0, <1>3, <2>1, <2>3 DEF Reconnect, TypeOK
    <3> QED
      BY <1>0, <2>1, <3>1, <3>2, OthersStayAdmitted
  <2> QED
    BY <2>2, <2>3
<1> QED
  BY <1>1, <1>2, <1>3 DEF Next

(* The document is never closed under a connected pane that shows it, or   *)
(* whose DocumentOpened is on its way, whoever else connects, opens, loses *)
(* its connection or leaves (release_client_access, access_holder_count).  *)
THEOREM ShownDocumentsAreOpen == Spec => []ShownDocumentsStayOpen
<1>1. AccessInv => ShownDocumentsStayOpen
  <2> SUFFICES ASSUME AccessInv, NEW c \in Connections, conn[c] = "up",
                      \/ Attached(c)
                      \/ \E q \in {toClient[c], events[c]} :
                             \E i \in 1..Len(q) : q[i].kind = "DocumentOpened"
               PROVE  ~closed /\ c \in access
    BY DEF ShownDocumentsStayOpen
  <2>1. Admitted(c)
    BY DEF AccessInv
  <2>2. Seen(c)
    BY DEF Seen, HasSnapshot, IsSnapshot
  <2> QED
    BY <2>1, <2>2 DEF Admitted
<1> QED
  BY LeaseInit, LeaseStep, AccessInit, AccessStep, <1>1, PTL DEF Spec

================================================================================
