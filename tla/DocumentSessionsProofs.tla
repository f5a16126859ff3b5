---------------------- MODULE DocumentSessionsProofs ----------------------
(***************************************************************************)
(* The session store of a pane is consistent, and no document's tracking   *)
(* state runs ahead of the server, for any number of files, sessions,      *)
(* edits and lost connections and any capacity of the channels.            *)
(***************************************************************************)
EXTENDS DocumentSessions, FiniteSetTheorems, TLAPS

-----------------------------------------------------------------------------
(* The inductive invariant.                                                *)

Known(q) == {q[i] : i \in DOMAIN q}
Shared(d) == FileOf(d) \in SharedFiles

(* The server's side, and the numbers of the edits typed so far.           *)
ServerInv ==
    /\ link \in {"up", "lost"}
    /\ losses \in 0..MaxLosses
    /\ made \in [Files -> 0..MaxEpoch]
    /\ registered \subseteq Ids
    /\ held \subseteq registered
    /\ unsaved \subseteq registered
    /\ text \in [Ids -> SUBSET Txns]
    /\ txn \in 0..MaxEdits
    /\ \A d \in Ids : \A t \in text[d] : t <= txn

(* The registered document of a file is the last one that was made of it,  *)
(* and no document stays that this client alone had open.                  *)
HeldInv ==
    /\ \A d \in registered : d[2] = made[FileOf(d)]
    /\ \A d \in registered : Shared(d) \/ d \in held
    /\ link = "lost" => held = {} /\ channel = <<>> /\ wire = <<>>

(* Every edit on its way is a new one, and no base is beyond what the      *)
(* edits before it make.                                                   *)
Unique(q) ==
    \A i, j \in DOMAIN q : i # j /\ q[i].kind = "edit" /\ q[j].kind = "edit"
                               => q[i].txn # q[j].txn
GoodEdit(m, n, edits) ==
    m.kind = "edit" => m.txn <= n /\ m.base <= m.txn /\ m.txn \notin edits[m.doc]
ChannelInv ==
    /\ channel \in Seq(Message) /\ Len(channel) <= Capacity + 1
    /\ Unique(channel)
    /\ \A m \in Known(channel) : GoodEdit(m, txn, text)

(* A version that was announced has been reached, and an opened document   *)
(* has been made.                                                          *)
Given(d, epochs) == d[2] <= epochs[FileOf(d)]
GoodEvent(m, v, epochs) ==
    /\ m.kind # "rejected" => m.version <= v
    /\ m.kind = "opened" => Given(m.doc, epochs)
EventsInv ==
    /\ wire \in Seq(Event) /\ Len(wire) <= Capacity
    /\ events \in Seq(Event) /\ Len(events) <= Capacity
    /\ \A m \in Known(wire) \union Known(events) : GoodEvent(m, Version(m.doc), made)

(* The copies of the tracking state: what is confirmed has been reached,   *)
(* and a document that another client edits has no pending edits here.     *)
GoodPending(d, q, n) ==
    /\ \A p \in Known(q) : p.txn <= n /\ p.base <= p.txn
    /\ Shared(d) => q = <<>>
GoodSync(d, s, v, n) ==
    /\ s \in Sync /\ GoodPending(d, s.pending, n)
    /\ s.confirmed <= v /\ s.optimistic <= n + 1
    /\ Shared(d) => s.optimistic <= v
SyncInv ==
    /\ sync \in [Ids -> Sync]
    /\ \A d \in Ids : GoodSync(d, sync[d], Version(d), txn)

GoodSession(d, s, v, n) ==
    /\ s \in Session /\ GoodPending(d, s.pending, n)
    /\ s.confirmed <= v
PaneInv ==
    /\ pane \in Pane
    /\ pane.phase = "open" => pane.shown \in Ids /\ Given(pane.shown, made)
    /\ pane.phase # "open" => pane.shown = NoDocument /\ lru = <<>>
StoreInv ==
    /\ sessions \in [Ids -> Session \cup {NoSession}]
    /\ lru \in Seq(Ids)
    /\ StoreIsConsistent
    /\ \A d \in Retained : GoodSession(d, sessions[d], Version(d), txn) /\ Given(d, made)

(* Something on its way will replace the tracking state of d.              *)
Repairing(d) ==
    \/ \E m \in Known(channel) : m.kind = "resync" /\ m.doc = d
    \/ \E m \in Known(wire) : m.kind = "rejected" /\ m.repair /\ m.doc = d
    \/ \E m \in Known(wire) \union Known(events) : m.kind = "snapshot" /\ m.doc = d

(* The server has version n, or gets it with an edit on its way.           *)
Covered(d, n) ==
    \/ n <= Version(d)
    \/ \E m \in Known(channel) : m.kind = "edit" /\ m.doc = d /\ n <= m.base + 1

Behind(d) ==
    /\ d = pane.shown =>
           /\ Covered(d, sync[d].optimistic)
           /\ \A p \in Known(sync[d].pending) : Covered(d, p.base + 1)
    /\ d \in Retained => \A p \in Known(sessions[d].pending) : Covered(d, p.base + 1)

TrackInv == \A d \in held : ~Shared(d) => Repairing(d) \/ Behind(d)

SessionsInv ==
    /\ ServerInv /\ HeldInv /\ ChannelInv /\ EventsInv
    /\ SyncInv /\ PaneInv /\ StoreInv /\ TrackInv

-----------------------------------------------------------------------------
(* Sequences.                                                              *)

LEMMA Joined ==
    ASSUME NEW T, NEW u \in Seq(T), NEW v \in Seq(T)
    PROVE  /\ u \o v \in Seq(T) /\ Len(u \o v) = Len(u) + Len(v)
           /\ \A j \in 1..Len(u) : (u \o v)[j] = u[j]
           /\ \A j \in 1..Len(v) : (u \o v)[Len(u) + j] = v[j]
OBVIOUS

LEMMA JoinedKnown ==
    ASSUME NEW T, NEW u \in Seq(T), NEW v \in Seq(T)
    PROVE  Known(u \o v) = Known(u) \union Known(v)
<1>1. /\ u \o v \in Seq(T) /\ Len(u \o v) = Len(u) + Len(v)
      /\ \A j \in 1..Len(u) : (u \o v)[j] = u[j]
      /\ \A j \in 1..Len(v) : (u \o v)[Len(u) + j] = v[j]
  BY Joined
<1> DEFINE w == u \o v
<1> HIDE DEF w
<1>2. /\ DOMAIN w = 1..(Len(u) + Len(v)) /\ DOMAIN u = 1..Len(u) /\ DOMAIN v = 1..Len(v)
      /\ Len(u) \in Nat /\ Len(v) \in Nat
  BY <1>1 DEF w
<1>3. ASSUME NEW i \in DOMAIN w PROVE w[i] \in Known(u) \union Known(v)
  <2>1. CASE i <= Len(u)
    <3>1. i \in 1..Len(u)
      BY <1>2, <2>1
    <3> QED
      BY <1>1, <1>2, <3>1 DEF w, Known
  <2>2. CASE i > Len(u)
    <3> DEFINE k == i - Len(u)
    <3>1. k \in 1..Len(v) /\ i = Len(u) + k
      BY <1>2, <2>2
    <3> HIDE DEF k
    <3> QED
      BY <1>1, <1>2, <3>1 DEF w, Known
  <2> QED
    BY <1>2, <2>1, <2>2
<1>4. ASSUME NEW i \in DOMAIN u PROVE u[i] \in Known(w)
  <2>1. i \in DOMAIN w /\ w[i] = u[i]
    BY <1>1, <1>2 DEF w
  <2> QED
    BY <2>1 DEF Known
<1>5. ASSUME NEW i \in DOMAIN v PROVE v[i] \in Known(w)
  <2>1. Len(u) + i \in DOMAIN w /\ w[Len(u) + i] = v[i]
    BY <1>1, <1>2 DEF w
  <2> QED
    BY <2>1 DEF Known
<1> QED
  BY <1>3, <1>4, <1>5 DEF w, Known

LEMMA OneKnown ==
    ASSUME NEW T, NEW x \in T
    PROVE  /\ <<x>> \in Seq(T) /\ Len(<<x>>) = 1 /\ Known(<<x>>) = {x} /\ Unique(<<x>>)
BY DEF Known, Unique

LEMMA EmptyKnown ==
    Known(<<>>) = {} /\ Unique(<<>>) /\ Len(<<>>) = 0
BY DEF Known, Unique

LEMMA AppendIsJoin ==
    ASSUME NEW T, NEW q \in Seq(T), NEW x \in T
    PROVE  Append(q, x) = q \o <<x>>
OBVIOUS

LEMMA AppendKnown ==
    ASSUME NEW T, NEW q \in Seq(T), NEW x \in T
    PROVE  /\ Append(q, x) \in Seq(T) /\ Len(Append(q, x)) = Len(q) + 1
           /\ Known(Append(q, x)) = Known(q) \union {x}
           /\ Last(Append(q, x)) = x /\ Append(q, x) # <<>>
<1>1. Append(q, x) = q \o <<x>>
  BY AppendIsJoin
<1> DEFINE one == <<x>>
<1>2. one \in Seq(T) /\ Known(one) = {x}
  BY OneKnown
<1>3. Append(q, x) = q \o one
  BY <1>1
<1> HIDE DEF one
<1>4. Known(q \o one) = Known(q) \union Known(one)
  BY <1>2, JoinedKnown
<1>5. Append(q, x) \in Seq(T) /\ Len(Append(q, x)) = Len(q) + 1 /\ Append(q, x)[Len(q) + 1] = x
  OBVIOUS
<1>6. Len(q) \in Nat
  OBVIOUS
<1> QED
  BY <1>2, <1>3, <1>4, <1>5, <1>6 DEF Last

LEMMA TailKnown ==
    ASSUME NEW T, NEW q \in Seq(T), q # <<>>
    PROVE  /\ Head(q) \in T /\ Tail(q) \in Seq(T) /\ Len(Tail(q)) = Len(q) - 1
           /\ Known(q) = Known(Tail(q)) \union {Head(q)}
           /\ Unique(q) => Unique(Tail(q))
           /\ Unique(q) /\ Head(q).kind = "edit" =>
                  \A m \in Known(Tail(q)) : m.kind = "edit" => m.txn # Head(q).txn
<1>1. /\ Head(q) = q[1] /\ Tail(q) \in Seq(T) /\ Len(Tail(q)) = Len(q) - 1
      /\ \A i \in 1..(Len(q) - 1) : Tail(q)[i] = q[i + 1]
      /\ Len(q) \in Nat \ {0} /\ DOMAIN q = 1..Len(q) /\ DOMAIN Tail(q) = 1..(Len(q) - 1)
  OBVIOUS
<1> DEFINE r == Tail(q)
<1> HIDE DEF r
<1>2. ASSUME NEW i \in DOMAIN r PROVE i + 1 \in DOMAIN q /\ i + 1 # 1 /\ r[i] = q[i + 1]
  BY <1>1 DEF r
<1>3. ASSUME NEW i \in DOMAIN q, i # 1 PROVE q[i] \in Known(r)
  <2>1. i - 1 \in DOMAIN r /\ r[i - 1] = q[i]
    BY <1>1, <1>3 DEF r
  <2> QED
    BY <2>1 DEF Known
<1>4. Known(q) = Known(r) \union {q[1]}
  BY <1>1, <1>2, <1>3 DEF Known
<1>5. ASSUME Unique(q) PROVE Unique(r)
  <2> SUFFICES ASSUME NEW i \in DOMAIN r, NEW j \in DOMAIN r, i # j,
                      r[i].kind = "edit", r[j].kind = "edit"
               PROVE  r[i].txn # r[j].txn
    BY DEF Unique
  <2>1. i + 1 # j + 1
    BY <1>1 DEF r
  <2> QED
    BY <1>2, <1>5, <2>1 DEF Unique
<1>6. ASSUME Unique(q), q[1].kind = "edit", NEW m \in Known(r), m.kind = "edit"
      PROVE  m.txn # q[1].txn
  <2>1. PICK i \in DOMAIN r : m = r[i]
    BY DEF Known
  <2>2. 1 \in DOMAIN q
    BY <1>1
  <2> QED
    BY <1>2, <1>6, <2>1, <2>2 DEF Unique
<1> QED
  BY <1>1, <1>4, <1>5, <1>6 DEF r

LEMMA JoinedUnique ==
    ASSUME NEW T, NEW u \in Seq(T), NEW v \in Seq(T), Unique(u), Unique(v),
           \A m \in Known(u), n \in Known(v) :
               m.kind = "edit" /\ n.kind = "edit" => m.txn # n.txn
    PROVE  Unique(u \o v)
<1>1. /\ u \o v \in Seq(T) /\ Len(u \o v) = Len(u) + Len(v)
      /\ \A j \in 1..Len(u) : (u \o v)[j] = u[j]
      /\ \A j \in 1..Len(v) : (u \o v)[Len(u) + j] = v[j]
  BY Joined
<1> DEFINE w == u \o v
<1> HIDE DEF w
<1>2. /\ DOMAIN w = 1..(Len(u) + Len(v)) /\ DOMAIN u = 1..Len(u) /\ DOMAIN v = 1..Len(v)
      /\ Len(u) \in Nat /\ Len(v) \in Nat
  BY <1>1 DEF w
<1> DEFINE InU(i) == i \in DOMAIN u /\ w[i] = u[i]
           InV(i) == i - Len(u) \in DOMAIN v /\ w[i] = v[i - Len(u)]
<1>3. ASSUME NEW i \in DOMAIN w PROVE InU(i) \/ InV(i)
  <2>1. CASE i <= Len(u)
    BY <1>1, <1>2, <2>1 DEF w
  <2>2. CASE i > Len(u)
    <3> DEFINE k == i - Len(u)
    <3>1. k \in 1..Len(v) /\ i = Len(u) + k
      BY <1>2, <2>2
    <3>2. w[Len(u) + k] = v[k]
      BY <1>1, <3>1 DEF w
    <3> QED
      BY <1>2, <3>1, <3>2
  <2> QED
    BY <1>2, <2>1, <2>2
<1>4. ASSUME NEW i \in DOMAIN w, NEW j \in DOMAIN w, i # j,
             w[i].kind = "edit", w[j].kind = "edit"
      PROVE  w[i].txn # w[j].txn
  <2>1. CASE InU(i) /\ InU(j)
    BY <1>4, <2>1 DEF Unique
  <2>2. CASE InU(i) /\ InV(j)
    BY <1>4, <2>2 DEF Known
  <2>3. CASE InV(i) /\ InU(j)
    BY <1>4, <2>3 DEF Known
  <2>4. CASE InV(i) /\ InV(j)
    <3>1. i - Len(u) # j - Len(u)
      BY <1>2, <1>4
    <3> QED
      BY <1>4, <2>4, <3>1 DEF Unique
  <2> HIDE DEF InU, InV
  <2> QED
    BY <1>3, <2>1, <2>2, <2>3, <2>4
<1> QED
  BY <1>4 DEF w, Unique

(* A nonempty set of natural numbers has a least element.                  *)
LEMMA LeastNatural ==
    ASSUME NEW S \in SUBSET Nat, S # {}
    PROVE  Min(S) \in S /\ \A y \in S : Min(S) <= y
<1>1. \E x \in S : \A y \in S : ~(<<y, x>> \in OpToRel(<, Nat))
  BY NatLessThanWellFounded, WFMin
<1>2. PICK x \in S : \A y \in S : ~(<<y, x>> \in OpToRel(<, Nat))
  BY <1>1
<1>3. \A y \in S : ~(y < x)
  BY <1>2 DEF OpToRel
<1>4. \A y \in S : x <= y
  BY <1>3
<1> QED
  BY <1>4 DEF Min

(* What acknowledge and reject leave of the pending edits.                 *)
LEMMA WithoutTxnKnown ==
    ASSUME NEW q \in Seq(Pending), NEW t
    PROVE  WithoutTxn(q, t) \in Seq(Pending) /\ Known(WithoutTxn(q, t)) \subseteq Known(q)
<1> DEFINE I == {i \in 1..Len(q) : q[i].txn = t}
           at == IF I # {} THEN Min(I) ELSE 0
<1>1. I \in SUBSET Nat /\ 0 \notin I
  OBVIOUS
<1>2. WithoutTxn(q, t) = IF at = 0 THEN q ELSE RemoveAt(q, at)
  BY DEF WithoutTxn, SelectInSeq
<1>3. CASE I = {}
  BY <1>2, <1>3
<1>4. CASE I # {}
  <2>1. at \in I
    BY <1>1, <1>4, LeastNatural
  <2> HIDE DEF at
  <2>2. at \in 1..Len(q) /\ at # 0 /\ Len(q) \in Nat
    BY <2>1
  <2> HIDE DEF I
  <2> DEFINE head == SubSeq(q, 1, at - 1)
             tail == SubSeq(q, at + 1, Len(q))
  <2>3. head \in Seq(Pending) /\ Len(head) = at - 1 /\ \A j \in 1..(at - 1) : head[j] = q[j]
    BY <2>2
  <2>4. /\ tail \in Seq(Pending) /\ Len(tail) = Len(q) - at
        /\ \A j \in 1..(Len(q) - at) : tail[j] = q[at + j]
    BY <2>2
  <2>5. WithoutTxn(q, t) = head \o tail
    BY <1>2, <2>2 DEF RemoveAt
  <2> HIDE DEF head, tail
  <2>6. head \o tail \in Seq(Pending) /\ Known(head \o tail) = Known(head) \union Known(tail)
    BY <2>3, <2>4, Joined, JoinedKnown
  <2>7. Known(head) \subseteq Known(q)
    <3>1. DOMAIN head = 1..(at - 1) /\ \A j \in 1..(at - 1) : j \in DOMAIN q
      BY <2>2, <2>3
    <3> QED
      BY <2>3, <3>1 DEF Known
  <2>8. Known(tail) \subseteq Known(q)
    <3>1. DOMAIN tail = 1..(Len(q) - at) /\ \A j \in 1..(Len(q) - at) : at + j \in DOMAIN q
      BY <2>2, <2>4
    <3> QED
      BY <2>4, <3>1 DEF Known
  <2> QED
    BY <2>5, <2>6, <2>7, <2>8
<1> QED
  BY <1>3, <1>4

(* Vec::retain keeps the other documents, each of them once.               *)
LEMMA WithoutKeeps ==
    ASSUME NEW q \in Seq(Ids), IsInjective(q), NEW d
    PROVE  /\ Without(q, d) \in Seq(Ids) /\ IsInjective(Without(q, d))
           /\ Range(Without(q, d)) = Range(q) \ {d}
<1> DEFINE kept == {i \in DOMAIN q : q[i] # d}
           Below(i) == {j \in kept : j <= i}
           size == Cardinality(kept)
           rank == [i \in kept |-> Cardinality(Below(i))]
           at(n) == CHOOSE i \in kept : Cardinality(Below(i)) = n
<1>1. Len(q) \in Nat /\ DOMAIN q = 1..Len(q)
  OBVIOUS
<1>2. IsFiniteSet(kept) /\ size \in Nat /\ kept \in SUBSET Nat
  <2>1. IsFiniteSet(1..Len(q)) /\ kept \in SUBSET (1..Len(q))
    BY <1>1, FS_Interval
  <2>2. IsFiniteSet(kept)
    BY <2>1, FS_Subset
  <2> QED
    BY <2>1, <2>2, FS_CardinalityType
<1>3. ASSUME NEW i \in kept
      PROVE  IsFiniteSet(Below(i)) /\ Cardinality(Below(i)) \in 1..size
  <2>1. Below(i) \in SUBSET kept /\ i \in Below(i)
    BY <1>2
  <2>2. IsFiniteSet(Below(i)) /\ Cardinality(Below(i)) \in Nat /\ Cardinality(Below(i)) <= size
    BY <1>2, <2>1, FS_Subset, FS_CardinalityType
  <2>3. Cardinality(Below(i)) # 0
    BY <2>1, <2>2, FS_EmptySet
  <2> QED
    BY <2>2, <2>3
<1>4. ASSUME NEW i \in kept, NEW j \in kept, i < j
      PROVE  Cardinality(Below(i)) # Cardinality(Below(j))
  <2>1. Below(i) \in SUBSET Below(j) /\ j \in Below(j) /\ j \notin Below(i)
    BY <1>2, <1>4
  <2> QED
    BY <1>3, <2>1, FS_Subset
<1>5. ASSUME NEW i \in kept, NEW j \in kept, i # j
      PROVE  Cardinality(Below(i)) # Cardinality(Below(j))
  <2>1. i < j \/ j < i
    BY <1>2, <1>5
  <2> HIDE DEF Below
  <2> QED
    BY <1>4, <2>1
<1>6. ASSUME NEW n \in 1..size PROVE at(n) \in kept /\ Cardinality(Below(at(n))) = n
  <2>1. rank \in Injection(kept, 1..size)
    <3>1. rank \in [kept -> 1..size]
      BY <1>3
    <3>2. \A i, j \in kept : rank[i] = rank[j] => i = j
      BY <1>5
    <3> QED
      BY <3>1, <3>2 DEF Injection, IsInjective
  <2>2. IsFiniteSet(1..size) /\ Cardinality(1..size) = size
    BY <1>2, FS_Interval
  <2>3. rank \in Surjection(kept, 1..size)
    <3> HIDE DEF rank
    <3> QED
      BY <2>1, <2>2, FS_Injection
  <2>4. \E i \in kept : Cardinality(Below(i)) = n
    BY <2>3 DEF Surjection
  <2> QED
    BY <2>4
<1>7. Without(q, d) = [n \in 1..size |-> q[at(n)]]
  BY DEF Without
<1> DEFINE new == [n \in 1..size |-> q[at(n)]]
<1> HIDE DEF kept, size, Below, rank, at
<1>8. new \in Seq(Ids)
  <2>1. \A n \in 1..size : q[at(n)] \in Ids
    BY <1>1, <1>6 DEF kept
  <2> QED
    BY <1>2, <2>1
<1>9. IsInjective(new)
  <2> SUFFICES ASSUME NEW i \in 1..size, NEW j \in 1..size, q[at(i)] = q[at(j)]
               PROVE  i = j
    BY DEF IsInjective
  <2>1. at(i) \in DOMAIN q /\ at(j) \in DOMAIN q
    BY <1>6 DEF kept
  <2>2. at(i) = at(j)
    BY <2>1 DEF IsInjective
  <2> QED
    BY <1>6, <2>2
<1>10. Range(new) = Range(q) \ {d}
  <2>1. ASSUME NEW n \in 1..size PROVE new[n] \in Range(q) \ {d}
    BY <1>6 DEF Range, kept
  <2>2. ASSUME NEW i \in DOMAIN q, q[i] # d
        PROVE  \E n \in 1..size : new[n] = q[i]
    <3>1. i \in kept
      BY <2>2 DEF kept
    <3> DEFINE n == Cardinality(Below(i))
    <3>2. n \in 1..size
      BY <1>3, <3>1
    <3>3. at(n) = i
      BY <1>5, <1>6, <3>1, <3>2
    <3> QED
      BY <3>2, <3>3
  <2> QED
    BY <2>1, <2>2 DEF Range
<1> QED
  BY <1>7, <1>8, <1>9, <1>10

-----------------------------------------------------------------------------
(* What the state holds.                                                   *)

LEMMA MessageFields ==
    ASSUME NEW m \in Message
    PROVE  /\ m.kind \in {"open", "edit", "close", "resync"}
           /\ m.kind = "open" => m.file \in Files
           /\ m.kind = "edit" => /\ m.doc \in Ids /\ m.base \in Versions \cup {Default}
                                 /\ m.txn \in Txns
           /\ m.kind \in {"close", "resync"} => m.doc \in Ids
BY DEF Message

LEMMA EventFields ==
    ASSUME NEW m \in Event
    PROVE  /\ m.kind \in {"opened", "snapshot", "ack", "rejected"}
           /\ m.doc \in Ids
           /\ m.kind # "rejected" => m.version \in Versions
           /\ m.kind \in {"ack", "rejected"} => m.txn \in Txns
           /\ m.kind \in {"opened", "snapshot"} => m.text \in SUBSET Txns /\ m.dirty \in BOOLEAN
BY DEF Event

LEMMA IdFields ==
    ASSUME NEW d \in Ids
    PROVE  /\ FileOf(d) \in Files /\ d[2] \in 1..MaxEpoch /\ d # NoDocument
           /\ d = <<FileOf(d), d[2]>>
BY SessionConstants DEF Ids, FileOf, NoDocument

LEMMA SyncFields ==
    ASSUME NEW s \in Sync
    PROVE  /\ s.confirmed \in Int /\ s.optimistic \in Int /\ s.pending \in Seq(Pending)
           /\ s.confirmed \in Versions \cup {Default} /\ s.optimistic \in Versions \cup {Default}
BY SessionConstants DEF Sync, Versions, Default

LEMMA PendingFields ==
    ASSUME NEW q \in Seq(Pending)
    PROVE  /\ \A p \in Known(q) : p \in Pending /\ p.txn \in Txns /\ p.txn \in Int /\ p.base \in Nat
           /\ q # <<>> => Last(q) \in Known(q)
<1>1. \A p \in Known(q) : p \in Pending
  BY DEF Known
<1>2. ASSUME NEW p \in Pending PROVE p.txn \in Txns /\ p.txn \in Int /\ p.base \in Nat
  BY SessionConstants DEF Pending, Txns, Versions, Default
<1>3. ASSUME q # <<>> PROVE Last(q) \in Known(q)
  <2>1. Len(q) \in DOMAIN q
    BY <1>3
  <2> QED
    BY <2>1 DEF Last, Known
<1> QED
  BY <1>1, <1>2, <1>3

LEMMA KnownTyped ==
    ASSUME NEW T, NEW q \in Seq(T)
    PROVE  \A m \in Known(q) : m \in T
BY DEF Known

(* A version counts edits.                                                 *)
LEMMA EditsCounted ==
    ASSUME NEW S \in SUBSET Txns, NEW n \in 0..MaxEdits, \A t \in S : t <= n
    PROVE  /\ IsFiniteSet(S) /\ Cardinality(S) \in Nat
           /\ Cardinality(S) + 1 \in Versions /\ Cardinality(S) + 1 <= n + 1
<1>1. n \in Nat /\ n <= MaxEdits /\ MaxEdits \in Nat
  BY SessionConstants
<1>2. S \subseteq 1..n
  BY <1>1 DEF Txns
<1>3. IsFiniteSet(1..n) /\ Cardinality(1..n) = n
  BY <1>1, FS_Interval
<1>4. IsFiniteSet(S) /\ Cardinality(S) <= n
  BY <1>2, <1>3, FS_Subset
<1>5. Cardinality(S) \in Nat
  BY <1>4, FS_CardinalityType
<1> QED
  BY <1>1, <1>4, <1>5 DEF Versions

LEMMA VersionIs ==
    ASSUME ServerInv, NEW d \in Ids
    PROVE  /\ Version(d) \in Versions /\ Version(d) \in Nat
           /\ Version(d) <= txn + 1 /\ IsFiniteSet(text[d])
<1>1. text[d] \in SUBSET Txns /\ \A t \in text[d] : t <= txn
  BY DEF ServerInv
<1>2. txn \in 0..MaxEdits
  BY DEF ServerInv
<1>3. /\ IsFiniteSet(text[d]) /\ Cardinality(text[d]) \in Nat
      /\ Cardinality(text[d]) + 1 \in Versions /\ Cardinality(text[d]) + 1 <= txn + 1
  BY <1>1, <1>2, EditsCounted
<1> QED
  BY <1>3 DEF Version

LEMMA VersionIsNext ==
    ASSUME ServerInv', NEW d \in Ids
    PROVE  /\ Version(d)' \in Versions /\ Version(d)' \in Nat
           /\ Version(d)' <= txn' + 1
<1>1. text'[d] \in SUBSET Txns /\ \A t \in text'[d] : t <= txn'
  BY DEF ServerInv
<1>2. txn' \in 0..MaxEdits
  BY DEF ServerInv
<1>3. /\ Cardinality(text'[d]) \in Nat
      /\ Cardinality(text'[d]) + 1 \in Versions /\ Cardinality(text'[d]) + 1 <= txn' + 1
  BY <1>1, <1>2, EditsCounted
<1> QED
  BY <1>3 DEF Version

(* Texts, files and edits only become more.                                *)
Grows ==
    /\ txn <= txn'
    /\ \A d \in Ids : Version(d) <= Version(d)'
    /\ \A f \in Files : made[f] <= made'[f]

LEMMA StillServer ==
    ASSUME ServerInv, UNCHANGED <<link, losses, server, txn>>
    PROVE  /\ ServerInv' /\ Grows
           /\ \A d \in Ids : Version(d)' = Version(d)
<1>1. ServerInv'
  BY DEF ServerInv, server
<1>2. \A d \in Ids : Version(d)' = Version(d)
  BY DEF Version, server
<1>3. \A d \in Ids : Version(d) \in Nat
  BY VersionIs
<1>4. txn \in Nat /\ \A f \in Files : made[f] \in Nat
  BY SessionConstants DEF ServerInv
<1> QED
  BY <1>1, <1>2, <1>3, <1>4 DEF Grows, server

LEMMA GivenKept ==
    ASSUME ServerInv, ServerInv', Grows, NEW d \in Ids, Given(d, made)
    PROVE  Given(d, made')
<1>1. FileOf(d) \in Files /\ d[2] \in Nat
  BY IdFields, SessionConstants
<1>2. made[FileOf(d)] \in Nat /\ made'[FileOf(d)] \in Nat
  BY <1>1, SessionConstants DEF ServerInv
<1> QED
  BY <1>1, <1>2 DEF Grows, Given

LEMMA EventKept ==
    ASSUME ServerInv, ServerInv', Grows, NEW m \in Event, GoodEvent(m, Version(m.doc), made)
    PROVE  GoodEvent(m, Version(m.doc)', made')
<1>1. m.doc \in Ids /\ (m.kind # "rejected" => m.version \in Nat)
  BY EventFields, SessionConstants DEF Versions
<1>2. Version(m.doc) \in Nat /\ Version(m.doc)' \in Nat /\ Version(m.doc) <= Version(m.doc)'
  BY <1>1, VersionIs, VersionIsNext DEF Grows
<1>3. m.kind = "opened" => Given(m.doc, made')
  BY <1>1, GivenKept DEF GoodEvent
<1> QED
  BY <1>1, <1>2, <1>3 DEF GoodEvent

LEMMA PendingKept ==
    ASSUME NEW d, NEW q \in Seq(Pending), NEW n \in Nat, NEW k \in Nat, n <= k,
           GoodPending(d, q, n)
    PROVE  GoodPending(d, q, k)
<1>1. \A p \in Known(q) : p.txn \in Int
  BY PendingFields
<1>2. \A p \in Known(q) : p.txn <= k /\ p.base <= p.txn
  BY <1>1 DEF GoodPending
<1> QED
  BY <1>2 DEF GoodPending

LEMMA SyncKept ==
    ASSUME NEW d, NEW s, NEW v \in Nat, NEW w \in Nat, NEW n \in Nat, NEW k \in Nat,
           v <= w, n <= k, GoodSync(d, s, v, n)
    PROVE  GoodSync(d, s, w, k)
<1>1. s \in Sync /\ s.confirmed \in Int /\ s.optimistic \in Int /\ s.pending \in Seq(Pending)
  BY SyncFields DEF GoodSync
<1>2. GoodPending(d, s.pending, k)
  BY <1>1, PendingKept DEF GoodSync
<1>3. /\ s.confirmed <= w /\ s.optimistic <= k + 1
      /\ Shared(d) => s.optimistic <= w
  BY <1>1 DEF GoodSync
<1> QED
  BY <1>1, <1>2, <1>3 DEF GoodSync

LEMMA SessionFields ==
    ASSUME NEW s \in Session
    PROVE  /\ s.kept /\ s.confirmed \in Versions \cup {Default} /\ s.confirmed \in Int
           /\ s.pending \in Seq(Pending) /\ s.text \in SUBSET Txns /\ s.dirty \in BOOLEAN
           /\ s.path \in Files \cup {NoFile}
<1>1. s.kept \in {TRUE}
  BY DEF Session
<1>2. s.kept
  BY <1>1
<1>3. /\ s.confirmed \in Versions \cup {Default} /\ s.pending \in Seq(Pending)
      /\ s.text \in SUBSET Txns /\ s.path \in Files \cup {NoFile}
  BY DEF Session
<1>4. s.dirty \in BOOLEAN
  BY DEF Session
<1>5. s.confirmed \in Int
  BY <1>3, SessionConstants DEF Versions, Default
<1> QED
  BY <1>2, <1>3, <1>4, <1>5

LEMMA SessionKept ==
    ASSUME NEW d, NEW s, NEW v \in Nat, NEW w \in Nat, NEW n \in Nat, NEW k \in Nat,
           v <= w, n <= k, GoodSession(d, s, v, n)
    PROVE  GoodSession(d, s, w, k)
<1>1. s \in Session /\ s.confirmed \in Int /\ s.pending \in Seq(Pending)
  BY SessionFields DEF GoodSession
<1>2. GoodPending(d, s.pending, k)
  BY <1>1, PendingKept DEF GoodSession
<1>3. s.confirmed <= w
  BY <1>1 DEF GoodSession
<1> QED
  BY <1>1, <1>2, <1>3 DEF GoodSession

-----------------------------------------------------------------------------
(* Steps that leave a part of the state as it is.                          *)

LEMMA Numbers ==
    ASSUME ServerInv, ServerInv', Grows
    PROVE  /\ txn \in Nat /\ txn' \in Nat /\ txn <= txn'
           /\ \A d \in Ids : /\ Version(d) \in Nat /\ Version(d)' \in Nat
                            /\ Version(d) <= Version(d)'
<1>1. txn \in Nat /\ txn' \in Nat /\ txn <= txn'
  BY SessionConstants DEF ServerInv, Grows
<1> QED
  BY <1>1, VersionIs, VersionIsNext DEF Grows

LEMMA SyncStays ==
    ASSUME ServerInv, ServerInv', Grows, SyncInv, sync' = sync
    PROVE  SyncInv'
<1> SUFFICES ASSUME NEW d \in Ids PROVE GoodSync(d, sync'[d], Version(d)', txn')
  BY DEF SyncInv
<1>1. GoodSync(d, sync[d], Version(d), txn)
  BY DEF SyncInv
<1> QED
  BY <1>1, Numbers, SyncKept

LEMMA EventsStay ==
    ASSUME ServerInv, ServerInv', Grows, EventsInv
    PROVE  \A m \in Known(wire) \union Known(events) : m \in Event /\ GoodEvent(m, Version(m.doc)', made')
<1>1. \A m \in Known(wire) \union Known(events) : m \in Event
  BY KnownTyped DEF EventsInv
<1> QED
  BY <1>1, EventKept DEF EventsInv

LEMMA PaneStays ==
    ASSUME ServerInv, ServerInv', Grows, PaneInv, UNCHANGED <<pane, lru>>
    PROVE  PaneInv'
BY GivenKept DEF PaneInv

LEMMA StoreStays ==
    ASSUME ServerInv, ServerInv', Grows, StoreInv, UNCHANGED <<pane, store>>
    PROVE  StoreInv'
<1>1. Retained' = Retained /\ sessions' = sessions /\ lru' = lru /\ StoreIsConsistent'
  BY DEF Retained, store, StoreInv, StoreIsConsistent
<1>2. ASSUME NEW d \in Retained
      PROVE  GoodSession(d, sessions[d], Version(d)', txn') /\ Given(d, made')
  <2>1. d \in Ids /\ GoodSession(d, sessions[d], Version(d), txn) /\ Given(d, made)
    BY DEF StoreInv, Retained
  <2>2. Given(d, made')
    BY <2>1, GivenKept
  <2> QED
    BY <2>1, <2>2, Numbers, SessionKept
<1> QED
  BY <1>1, <1>2 DEF StoreInv

(* Messages that repair or cover a document stay on their way.             *)
KeepsNews ==
    /\ \A m \in Known(channel) : m.kind \in {"edit", "resync"} => m \in Known(channel')
    /\ \A m \in Known(wire) : m.kind \in {"rejected", "snapshot"} => m \in Known(wire')
    /\ \A m \in Known(events) : m.kind = "snapshot" => m \in Known(events')

LEMMA NewsKept ==
    ASSUME ServerInv, ServerInv', Grows, KeepsNews, ChannelInv, NEW d \in Ids
    PROVE  /\ Repairing(d) => Repairing(d)'
           /\ \A n \in Int : Covered(d, n) => Covered(d, n)'
<1>1. Repairing(d) => Repairing(d)'
  BY DEF Repairing, KeepsNews
<1>2. ASSUME NEW n \in Int, Covered(d, n) PROVE Covered(d, n)'
  <2>1. CASE n <= Version(d)
    BY <2>1, Numbers DEF Covered
  <2>2. CASE \E m \in Known(channel) : m.kind = "edit" /\ m.doc = d /\ n <= m.base + 1
    BY <2>2 DEF Covered, KeepsNews
  <2> QED
    BY <1>2, <2>1, <2>2 DEF Covered
<1> QED
  BY <1>1, <1>2

LEMMA BehindStays ==
    ASSUME SyncInv, StoreInv, UNCHANGED <<pane, sync, store>>, NEW d \in Ids, Behind(d),
           \A n \in Int : Covered(d, n) => Covered(d, n)'
    PROVE  Behind(d)'
<1>1. Retained' = Retained /\ sessions' = sessions /\ pane' = pane /\ sync' = sync
  BY DEF Retained, store
<1>2. /\ sync[d].optimistic \in Int
      /\ \A p \in Known(sync[d].pending) : p.base + 1 \in Int
  <2>1. sync[d] \in Sync
    BY DEF SyncInv, GoodSync
  <2> QED
    BY <2>1, SyncFields, PendingFields
<1>3. d \in Retained => \A p \in Known(sessions[d].pending) : p.base + 1 \in Int
  BY SessionFields, PendingFields DEF StoreInv, GoodSession
<1>4. d = pane.shown => Covered(d, sync[d].optimistic)'
  BY <1>1, <1>2 DEF Behind
<1>5. d = pane.shown => \A p \in Known(sync[d].pending) : Covered(d, p.base + 1)'
  BY <1>1, <1>2 DEF Behind
<1>6. d \in Retained => \A p \in Known(sessions[d].pending) : Covered(d, p.base + 1)'
  BY <1>3 DEF Behind
<1> QED
  BY <1>1, <1>4, <1>5, <1>6 DEF Behind

LEMMA TrackStays ==
    ASSUME ServerInv, ServerInv', Grows, KeepsNews, ChannelInv, SyncInv, StoreInv, TrackInv,
           UNCHANGED <<pane, sync, store>>,
           \A d \in held' : Shared(d) \/ d \in held \/ Behind(d)'
    PROVE  TrackInv'
<1> SUFFICES ASSUME NEW d \in held', ~Shared(d), d \in held PROVE Repairing(d)' \/ Behind(d)'
  BY DEF TrackInv
<1>1. d \in Ids
  BY DEF ServerInv
<1> QED
  BY <1>1, NewsKept, BehindStays DEF TrackInv

(* Messages other than edits join the channel.                             *)
LEMMA ChannelJoined ==
    ASSUME ChannelInv, UNCHANGED <<text, txn>>, NEW ms \in Seq(Message),
           channel' = channel \o ms \/ channel' = ms \o channel,
           \A m \in Known(ms) : m.kind # "edit",
           Len(channel) + Len(ms) <= Capacity + 1
    PROVE  ChannelInv' /\ Known(channel') = Known(channel) \union Known(ms)
<1>1. channel \in Seq(Message) /\ Len(channel) \in Nat /\ Len(ms) \in Nat /\ Unique(channel)
  BY DEF ChannelInv
<1>2. Unique(ms)
  BY DEF Unique, Known
<1>3. /\ channel' \in Seq(Message) /\ Len(channel') = Len(channel) + Len(ms)
      /\ Known(channel') = Known(channel) \union Known(ms) /\ Unique(channel')
  <2>1. CASE channel' = channel \o ms
    BY <1>1, <1>2, <2>1, Joined, JoinedKnown, JoinedUnique
  <2>2. CASE channel' = ms \o channel
    BY <1>1, <1>2, <2>2, Joined, JoinedKnown, JoinedUnique
  <2> QED
    BY <2>1, <2>2
<1>4. \A m \in Known(channel') : GoodEdit(m, txn', text')
  BY <1>3 DEF ChannelInv, GoodEdit
<1> QED
  BY <1>3, <1>4 DEF ChannelInv

LEMMA ChannelAppended ==
    ASSUME ChannelInv, UNCHANGED <<text, txn>>, NEW m \in Message, m.kind # "edit",
           channel' = Append(channel, m), Len(channel) < Capacity
    PROVE  ChannelInv' /\ Known(channel') = Known(channel) \union {m}
<1> DEFINE ms == <<m>>
<1>1. ms \in Seq(Message) /\ Len(ms) = 1 /\ Known(ms) = {m}
  BY OneKnown
<1>2. channel' = channel \o ms
  BY AppendIsJoin DEF ChannelInv
<1>3. Len(channel) \in Nat
  BY DEF ChannelInv
<1>4. Len(channel) + Len(ms) <= Capacity + 1
  BY <1>1, <1>3, SessionConstants
<1> HIDE DEF ms
<1> QED
  BY <1>1, <1>2, <1>4, ChannelJoined

(* The server takes the first message.                                     *)
LEMMA ChannelServed ==
    ASSUME ChannelInv, channel # <<>>, channel' = Tail(channel)
    PROVE  /\ Head(channel) \in Message
           /\ Known(channel) = Known(channel') \union {Head(channel)}
           /\ channel' \in Seq(Message) /\ Len(channel') <= Capacity + 1 /\ Unique(channel')
           /\ Head(channel) \in Known(channel) /\ GoodEdit(Head(channel), txn, text)
           /\ \A m \in Known(channel') : m \in Known(channel)
           /\ Head(channel).kind = "edit" =>
                  \A m \in Known(channel') : m.kind = "edit" => m.txn # Head(channel).txn
           /\ UNCHANGED <<text, txn>> => ChannelInv'
<1> DEFINE q == channel
           r == Tail(channel)
<1>1. q \in Seq(Message) /\ Len(q) \in Nat /\ Unique(q) /\ q # <<>>
  BY DEF ChannelInv
<1> HIDE DEF q
<1>2. /\ Head(q) \in Message /\ Tail(q) \in Seq(Message) /\ Len(Tail(q)) = Len(q) - 1
      /\ Known(q) = Known(Tail(q)) \union {Head(q)}
      /\ Unique(Tail(q))
      /\ Head(q).kind = "edit" => \A m \in Known(Tail(q)) : m.kind = "edit" => m.txn # Head(q).txn
  BY <1>1, TailKnown
<1>3. Len(Tail(q)) <= Capacity + 1
  BY <1>1, <1>2, SessionConstants DEF q, ChannelInv
<1>4. GoodEdit(Head(q), txn, text)
  BY <1>2 DEF q, ChannelInv
<1>5. ASSUME UNCHANGED <<text, txn>> PROVE ChannelInv'
  <2>1. \A m \in Known(channel') : GoodEdit(m, txn', text')
    BY <1>2, <1>5 DEF q, ChannelInv
  <2> QED
    BY <1>2, <1>3, <2>1 DEF q, ChannelInv
<1> QED
  BY <1>2, <1>3, <1>4, <1>5 DEF q

LEMMA WireAppended ==
    ASSUME ServerInv, ServerInv', Grows, EventsInv, Len(wire) < Capacity, events' = events,
           NEW m \in Event, wire' = Append(wire, m), GoodEvent(m, Version(m.doc)', made')
    PROVE  EventsInv' /\ Known(wire') = Known(wire) \union {m}
<1>1. wire \in Seq(Event) /\ Len(wire) \in Nat
  BY DEF EventsInv
<1>2. wire' \in Seq(Event) /\ Len(wire') = Len(wire) + 1 /\ Known(wire') = Known(wire) \union {m}
  BY <1>1, AppendKnown
<1>3. Len(wire') <= Capacity
  BY <1>1, <1>2, SessionConstants
<1>4. \A x \in Known(wire') \union Known(events') : GoodEvent(x, Version(x.doc)', made')
  BY <1>2, EventsStay
<1> QED
  BY <1>2, <1>3, <1>4 DEF EventsInv

LEMMA EventsUnchanged ==
    ASSUME ServerInv, ServerInv', Grows, EventsInv, UNCHANGED <<wire, events>>
    PROVE  EventsInv'
BY EventsStay DEF EventsInv

(* A served message that is neither an edit nor a resync.                  *)
LEMMA ServedKeepsNews ==
    ASSUME ChannelInv, channel # <<>>, channel' = Tail(channel),
           Head(channel).kind \notin {"edit", "resync"},
           Known(wire) \subseteq Known(wire'), events' = events
    PROVE  KeepsNews
BY ChannelServed DEF KeepsNews

-----------------------------------------------------------------------------
(* The server's steps.                                                     *)

LEMMA RequestOpenKeeps ==
    ASSUME SessionsInv, NEW f \in Files, RequestOpen(f)
    PROVE  SessionsInv'
<1> USE DEF SessionsInv
<1>1. /\ UNCHANGED <<link, losses, server, txn>> /\ UNCHANGED <<wire, events, sync, pane, store>>
      /\ link = "up" /\ held' = held /\ registered' = registered /\ text' = text /\ made' = made
  BY DEF RequestOpen, server
<1>2. ServerInv' /\ Grows
  BY <1>1, StillServer
<1> DEFINE m == [kind |-> "open", file |-> f]
<1>3. m \in Message /\ m.kind # "edit" /\ channel' = Append(channel, m) /\ Len(channel) < Capacity
  BY DEF RequestOpen, HasRoom, Message
<1> HIDE DEF m
<1>4. ChannelInv' /\ Known(channel') = Known(channel) \union {m}
  BY <1>1, <1>3, ChannelAppended
<1>5. KeepsNews
  BY <1>1, <1>4 DEF KeepsNews
<1>6. HeldInv'
  BY <1>1 DEF HeldInv
<1>7. lru' = lru
  BY <1>1 DEF store
<1> QED
  BY <1>1, <1>2, <1>4, <1>5, <1>6, <1>7, TrackStays, SyncStays, PaneStays, StoreStays, EventsUnchanged

LEMMA RefuseOpenKeeps ==
    ASSUME SessionsInv, RefuseOpen
    PROVE  SessionsInv'
<1> USE DEF SessionsInv
<1>1. /\ UNCHANGED <<link, losses, server, txn>> /\ UNCHANGED <<wire, events, sync, pane, store>>
      /\ link = "up" /\ held' = held /\ registered' = registered /\ text' = text /\ made' = made
      /\ channel # <<>> /\ channel' = Tail(channel) /\ Head(channel).kind = "open"
  BY DEF RefuseOpen, Serving, server
<1>2. ServerInv' /\ Grows
  BY <1>1, StillServer
<1>3. ChannelInv'
  BY <1>1, ChannelServed
<1>4. KeepsNews
  BY <1>1, ServedKeepsNews
<1>5. HeldInv'
  BY <1>1 DEF HeldInv
<1>6. lru' = lru
  BY <1>1 DEF store
<1> QED
  BY <1>1, <1>2, <1>3, <1>4, <1>5, <1>6, TrackStays, SyncStays, PaneStays, StoreStays, EventsUnchanged

(* The state of a document, as the server sends it.                        *)
LEMMA StateIs ==
    ASSUME ServerInv, NEW d \in Ids, NEW kind \in {"opened", "snapshot"}
    PROVE  /\ State(kind, d) \in Event
           /\ State(kind, d).kind = kind /\ State(kind, d).doc = d
           /\ State(kind, d).version = Version(d)
<1>1. Version(d) \in Versions /\ text[d] \in SUBSET Txns
  BY VersionIs DEF ServerInv
<1>2. (d \in unsaved) \in BOOLEAN
  OBVIOUS
<1> QED
  BY <1>1, <1>2 DEF State, Event

(* The document that an open request is answered with.                     *)
LEMMA DocumentForIs ==
    ASSUME ServerInv, HeldInv, NEW f \in Files, DocumentFor(f)[2] <= MaxEpoch
    PROVE  /\ DocumentFor(f) \in Ids /\ FileOf(DocumentFor(f)) = f
           /\ \/ DocumentFor(f) \in registered
              \/ DocumentFor(f)[2] = made[f] + 1 /\ \A d \in registered : FileOf(d) # f
<1>1. CASE \E d \in registered : FileOf(d) = f
  BY <1>1 DEF DocumentFor, ServerInv
<1>2. CASE ~\E d \in registered : FileOf(d) = f
  <2>1. DocumentFor(f) = <<f, made[f] + 1>>
    BY <1>2 DEF DocumentFor
  <2>2. made[f] \in Nat /\ made[f] + 1 <= MaxEpoch /\ MaxEpoch \in Nat
    BY <2>1, SessionConstants DEF ServerInv
  <2> QED
    BY <1>2, <2>1, <2>2 DEF Ids, FileOf
<1> QED
  BY <1>1, <1>2

LEMMA ServeOpenKeeps ==
    ASSUME SessionsInv, ServeOpen
    PROVE  SessionsInv'
<1> USE DEF SessionsInv
<1>1. /\ UNCHANGED <<link, losses, txn, text, unsaved>> /\ UNCHANGED <<events, sync, pane, store>>
      /\ link = "up" /\ channel # <<>> /\ channel' = Tail(channel) /\ Head(channel).kind = "open"
      /\ Len(wire) < Capacity
  BY DEF ServeOpen, Serving
<1>2. PICK f \in Files : f = Head(channel).file
  BY <1>1, ChannelServed, MessageFields
<1>3. DocumentFor(f)[2] <= MaxEpoch
  BY <1>2 DEF ServeOpen
<1>4. PICK d \in Ids :
         /\ d = DocumentFor(f) /\ FileOf(d) = f
         /\ d \in registered \/ (d[2] = made[f] + 1 /\ \A e \in registered : FileOf(e) # f)
  BY <1>3, <1>2, DocumentForIs
<1>5. /\ d[2] <= MaxEpoch /\ made' = [made EXCEPT ![FileOf(d)] = d[2]]
      /\ registered' = registered \cup {d} /\ held' = held \cup {d}
      /\ wire' = Append(wire, State("opened", d))
  BY <1>2, <1>4 DEF ServeOpen
<1>6. d[2] \in Nat /\ made[f] \in Nat /\ made[f] <= d[2] /\ (d \in registered => d[2] = made[f])
  <2>1. d[2] \in Nat /\ made[f] \in Nat
    BY <1>2, <1>4, IdFields, SessionConstants DEF ServerInv
  <2>2. d \in registered => d[2] = made[f]
    BY <1>4 DEF HeldInv
  <2> QED
    BY <1>4, <2>1, <2>2
<1>7. ServerInv'
  <2>1. made' \in [Files -> 0..MaxEpoch]
    BY <1>5, <1>2, <1>4, <1>6, SessionConstants DEF ServerInv
  <2>2. registered' \subseteq Ids /\ held' \subseteq registered' /\ unsaved' \subseteq registered'
    BY <1>1, <1>5, <1>4 DEF ServerInv
  <2> QED
    BY <1>1, <2>1, <2>2 DEF ServerInv
<1>8. \A e \in Ids : Version(e)' = Version(e)
  BY <1>1 DEF Version
<1>9. Grows
  <2>1. \A e \in Ids : Version(e) <= Version(e)'
    BY <1>8, VersionIs
  <2>2. \A g \in Files : made[g] <= made'[g]
    <3>1. \A g \in Files : made[g] \in Nat
      BY SessionConstants DEF ServerInv
    <3> QED
      BY <1>5, <1>4, <1>6, <3>1 DEF ServerInv
  <2>3. txn <= txn'
    BY <1>1, SessionConstants DEF ServerInv
  <2> QED
    BY <2>1, <2>2, <2>3 DEF Grows
<1>10. HeldInv'
  <2>1. ASSUME NEW e \in registered' PROVE e[2] = made'[FileOf(e)]
    <3>1. made'[f] = d[2] /\ \A g \in Files \ {f} : made'[g] = made[g]
      BY <1>5, <1>2, <1>4 DEF ServerInv
    <3>2. CASE e = d
      BY <1>4, <3>1, <3>2
    <3>3. CASE e # d
      <4>1. e \in registered /\ e \in Ids /\ e[2] = made[FileOf(e)] /\ FileOf(e) \in Files
        BY <1>5, <3>3, IdFields DEF ServerInv, HeldInv
      <4> QED
        BY <1>4, <1>6, <3>1, <4>1
    <3> QED
      BY <3>2, <3>3
  <2>2. \A e \in registered' : Shared(e) \/ e \in held'
    BY <1>5 DEF HeldInv
  <2> QED
    BY <1>1, <2>1, <2>2 DEF HeldInv
<1>11. ChannelInv'
  BY <1>1, ChannelServed
<1>12. PICK m \in Event : /\ m = State("opened", d)
                         /\ m.kind = "opened" /\ m.doc = d /\ m.version = Version(d)
  BY StateIs
<1>13. GoodEvent(m, Version(m.doc)', made')
  <2>1. Given(d, made')
    <3>1. made'[f] = d[2]
      BY <1>5, <1>2, <1>4 DEF ServerInv
    <3> QED
      BY <1>4, <1>6, <3>1 DEF Given
  <2>2. Version(d) <= Version(d)'
    BY <1>4, <1>9 DEF Grows
  <2> QED
    BY <1>12, <2>1, <2>2 DEF GoodEvent
<1>14. EventsInv' /\ Known(wire') = Known(wire) \union {m}
  BY <1>1, <1>5, <1>7, <1>9, <1>13, <1>12, WireAppended
<1>15. KeepsNews
  BY <1>1, <1>14, ServedKeepsNews
<1>16. ASSUME d \notin registered PROVE Behind(d)'
  <2>1. ~Given(d, made)
    BY <1>4, <1>6, <1>16 DEF Given
  <2>2. d # pane.shown
    <3>1. CASE pane.phase = "open"
      BY <2>1, <3>1 DEF PaneInv
    <3>2. CASE pane.phase # "open"
      BY <1>4, <3>2, IdFields DEF PaneInv
    <3> QED
      BY <3>1, <3>2
  <2>3. d \notin Retained
    BY <2>1 DEF StoreInv
  <2>4. Retained' = Retained /\ pane' = pane
    BY <1>1 DEF Retained, store
  <2> QED
    BY <2>2, <2>3, <2>4 DEF Behind
<1>17. \A e \in held' : Shared(e) \/ e \in held \/ Behind(e)'
  BY <1>5, <1>16 DEF HeldInv
<1>18. TrackInv'
  BY <1>1, <1>7, <1>9, <1>15, <1>17, TrackStays
<1>19. lru' = lru
  BY <1>1 DEF store
<1> QED
  BY <1>1, <1>7, <1>9, <1>10, <1>11, <1>14, <1>18, <1>19, SyncStays, PaneStays, StoreStays

LEMMA ServeCloseKeeps ==
    ASSUME SessionsInv, ServeClose
    PROVE  SessionsInv'
<1> USE DEF SessionsInv
<1> DEFINE d == Head(channel).doc
<1>1. /\ UNCHANGED <<link, losses, txn, text, made, wire>> /\ UNCHANGED <<events, sync, pane, store>>
      /\ link = "up" /\ channel # <<>> /\ channel' = Tail(channel) /\ Head(channel).kind = "close"
  BY DEF ServeClose, Serving
<1>2. d \in Ids
  BY <1>1, ChannelServed, MessageFields
<1>3. /\ held' \subseteq held /\ registered' \subseteq registered
      /\ held' \subseteq registered' /\ unsaved' \subseteq registered'
      /\ \A e \in registered' : Shared(e) \/ e \in held'
  <2> DEFINE m == Head(channel)
             gone == IF FileOf(d) \in SharedFiles THEN {} ELSE {d}
             closes == d \in held /\ (m.force \/ d \notin unsaved)
  <2>1. CASE closes
    <3>1. held' = held \ {d} /\ registered' = registered \ gone /\ unsaved' = unsaved \ gone
      BY <2>1 DEF ServeClose
    <3> QED
      BY <3>1 DEF ServerInv, HeldInv, Shared
  <2>2. CASE ~closes
    <3>1. held' = held /\ registered' = registered /\ unsaved' = unsaved
      BY <2>2 DEF ServeClose
    <3> QED
      BY <3>1 DEF ServerInv, HeldInv
  <2> QED
    BY <2>1, <2>2
<1>4. ServerInv'
  BY <1>1, <1>3 DEF ServerInv
<1>5. \A e \in Ids : Version(e)' = Version(e)
  BY <1>1 DEF Version
<1>6. Grows
  <2>1. \A e \in Ids : Version(e) <= Version(e)'
    BY <1>5, VersionIs
  <2>2. txn <= txn' /\ \A g \in Files : made[g] <= made'[g]
    BY <1>1, SessionConstants DEF ServerInv
  <2> QED
    BY <2>1, <2>2 DEF Grows
<1>7. HeldInv'
  BY <1>1, <1>3 DEF HeldInv
<1>8. ChannelInv'
  BY <1>1, ChannelServed
<1>9. KeepsNews
  BY <1>1, ServedKeepsNews
<1>10. TrackInv'
  BY <1>1, <1>3, <1>4, <1>6, <1>9, TrackStays
<1>11. lru' = lru
  BY <1>1 DEF store
<1> QED
  BY <1>1, <1>4, <1>6, <1>7, <1>8, <1>10, <1>11, SyncStays, PaneStays, StoreStays, EventsUnchanged

LEMMA ServeResyncKeeps ==
    ASSUME SessionsInv, ServeResync
    PROVE  SessionsInv'
<1> USE DEF SessionsInv
<1>1. /\ UNCHANGED <<link, losses, server, txn>> /\ UNCHANGED <<events, sync, pane, store>>
      /\ link = "up" /\ held' = held /\ registered' = registered /\ text' = text /\ made' = made
      /\ channel # <<>> /\ channel' = Tail(channel) /\ Head(channel).kind = "resync"
      /\ Len(wire) < Capacity
  BY DEF ServeResync, Serving, server
<1>2. ServerInv' /\ Grows /\ \A e \in Ids : Version(e)' = Version(e)
  BY <1>1, StillServer
<1>3. ChannelInv' /\ Known(channel) = Known(channel') \union {Head(channel)}
  BY <1>1, ChannelServed
<1>4. PICK d \in Ids : d = Head(channel).doc
  BY <1>1, ChannelServed, MessageFields
<1>5. PICK m \in Event : /\ m = State("snapshot", d)
                        /\ m.kind = "snapshot" /\ m.doc = d /\ m.version = Version(d)
  BY StateIs
<1>6. wire' = IF d \in held THEN Append(wire, m) ELSE wire
  BY <1>5, <1>4 DEF ServeResync
<1>7. HeldInv'
  BY <1>1 DEF HeldInv
<1>8. EventsInv' /\ Known(wire) \subseteq Known(wire') /\ (d \in held => m \in Known(wire'))
  <2>1. CASE d \in held
    <3>1. GoodEvent(m, Version(m.doc)', made')
      <4>1. Version(d) <= Version(d)'
        BY <1>2, <1>3 DEF Grows
      <4> QED
        BY <1>5, <4>1 DEF GoodEvent
    <3> QED
      BY <1>1, <1>2, <1>5, <1>6, <2>1, <3>1, WireAppended
  <2>2. CASE d \notin held
    BY <1>1, <1>2, <1>6, <2>2, EventsUnchanged
  <2> QED
    BY <2>1, <2>2
<1>9. TrackInv'
  <2> SUFFICES ASSUME NEW e \in held, ~Shared(e) PROVE Repairing(e)' \/ Behind(e)'
    BY <1>1 DEF TrackInv
  <2>1. CASE e = d
    BY <1>5, <1>8, <2>1 DEF Repairing
  <2>2. CASE e # d
    <3>1. e \in Ids
      BY DEF ServerInv
    <3>2. Repairing(e) => Repairing(e)'
      BY <1>1, <1>3, <1>8, <1>4, <2>2 DEF Repairing
    <3>3. ASSUME NEW n \in Int, Covered(e, n) PROVE Covered(e, n)'
      BY <1>1, <1>2, <1>3, <3>1, <3>3 DEF Covered
    <3> QED
      BY <1>1, <3>1, <3>2, <3>3, BehindStays DEF TrackInv
  <2> QED
    BY <2>1, <2>2
<1>10. lru' = lru
  BY <1>1 DEF store
<1> QED
  BY <1>1, <1>2, <1>3, <1>7, <1>8, <1>9, <1>10, SyncStays, PaneStays, StoreStays

LEMMA ServeEditKeeps ==
    ASSUME SessionsInv, ServeEdit
    PROVE  SessionsInv'
<1> USE DEF SessionsInv
<1>1. /\ UNCHANGED <<link, losses, made, registered, held, txn>>
      /\ UNCHANGED <<events, sync, pane, store>>
      /\ link = "up" /\ channel # <<>> /\ channel' = Tail(channel) /\ Head(channel).kind = "edit"
      /\ Len(wire) < Capacity
  BY DEF ServeEdit, Serving
<1>2. PICK m \in Message : m = Head(channel)
  BY <1>1, ChannelServed
<1>3. PICK d \in Ids : d = m.doc
  BY <1>1, <1>2, MessageFields
<1>4. /\ m.kind = "edit" /\ m.txn \in Txns /\ m.base \in Int /\ m.txn <= txn /\ m.txn \notin text[d]
  <2>1. m.kind = "edit" /\ m.txn \in Txns /\ m.base \in Versions \cup {Default}
    BY <1>1, <1>2, MessageFields
  <2>2. m.base \in Int
    BY <2>1, SessionConstants DEF Versions, Default
  <2> QED
    BY <1>1, <1>2, <1>3, <2>1, <2>2, ChannelServed DEF GoodEdit
<1>5. /\ Known(channel) = Known(channel') \union {m} /\ Unique(channel')
      /\ channel' \in Seq(Message) /\ Len(channel') <= Capacity + 1
      /\ \A x \in Known(channel') : x \in Known(channel) /\ (x.kind = "edit" => x.txn # m.txn)
  BY <1>1, <1>2, ChannelServed
<1> DEFINE accepts == d \in held /\ m.leased /\ m.base = Version(d)
<1>6. HeldInv'
  BY <1>1 DEF HeldInv
<1>7. lru' = lru
  BY <1>1 DEF store
<1>8. CASE accepts
  <2>1. /\ text' = [text EXCEPT ![d] = @ \cup {m.txn}] /\ unsaved' = unsaved \cup {d}
        /\ wire' = Append(wire, [kind |-> "ack", doc |-> d, version |-> Version(d) + 1,
                                 txn |-> m.txn])
    BY <1>2, <1>3, <1>8 DEF ServeEdit
  <2>2. text'[d] = text[d] \cup {m.txn} /\ \A e \in Ids \ {d} : text'[e] = text[e]
    BY <2>1 DEF ServerInv
  <2>3. ServerInv'
    <3>1. text' \in [Ids -> SUBSET Txns]
      BY <1>4, <2>1 DEF ServerInv
    <3>2. \A e \in Ids : \A t \in text'[e] : t <= txn
      BY <1>4, <2>2 DEF ServerInv
    <3>3. unsaved' \subseteq registered
      BY <1>8, <2>1 DEF ServerInv
    <3> QED
      BY <1>1, <3>1, <3>2, <3>3 DEF ServerInv
  <2>4. Version(d)' = Version(d) + 1 /\ \A e \in Ids \ {d} : Version(e)' = Version(e)
    <3>1. IsFiniteSet(text[d])
      BY VersionIs
    <3>2. Cardinality(text[d] \cup {m.txn}) = Cardinality(text[d]) + 1
      BY <1>4, <3>1, FS_AddElement
    <3> QED
      BY <2>2, <3>2 DEF Version
  <2>5. Grows
    <3>1. \A e \in Ids : Version(e) <= Version(e)'
      BY <2>4, VersionIs
    <3>2. txn <= txn' /\ \A g \in Files : made[g] <= made'[g]
      BY <1>1, SessionConstants DEF ServerInv
    <3> QED
      BY <3>1, <3>2 DEF Grows
  <2>6. ChannelInv'
    <3>1. ASSUME NEW x \in Known(channel') PROVE GoodEdit(x, txn', text')
      <4>1. GoodEdit(x, txn, text) /\ x \in Message
        BY <1>5, KnownTyped DEF ChannelInv
      <4>2. x.kind = "edit" => x.doc \in Ids /\ x.txn # m.txn
        BY <1>5, <4>1, MessageFields
      <4> QED
        BY <1>1, <2>2, <4>1, <4>2 DEF GoodEdit
    <3> QED
      BY <1>5, <3>1 DEF ChannelInv
  <2>7. PICK a \in Event : /\ a = [kind |-> "ack", doc |-> d, version |-> Version(d) + 1, txn |-> m.txn]
                           /\ a.kind = "ack" /\ a.doc = d /\ a.version = Version(d) + 1
    <3>1. Version(d)' \in Versions
      BY <2>3, VersionIsNext
    <3>2. PICK v \in Versions : v = Version(d) + 1
      BY <2>4, <3>1
    <3> DEFINE a == [kind |-> "ack", doc |-> d, version |-> v, txn |-> m.txn]
    <3>3. a \in Event
      BY <1>4 DEF Event
    <3>4. a.kind = "ack" /\ a.doc = d /\ a.version = v
      OBVIOUS
    <3> QED
      BY <3>2, <3>3, <3>4
  <2>8. GoodEvent(a, Version(a.doc)', made')
    <3>1. a.version <= Version(d)'
      BY <2>4, <2>7, VersionIs
    <3> QED
      BY <2>7, <3>1 DEF GoodEvent
  <2>9. EventsInv' /\ Known(wire') = Known(wire) \union {a}
    BY <1>1, <2>1, <2>3, <2>5, <2>7, <2>8, WireAppended
  <2>10. TrackInv'
    <3> SUFFICES ASSUME NEW e \in held, ~Shared(e) PROVE Repairing(e)' \/ Behind(e)'
      BY <1>1 DEF TrackInv
    <3>1. e \in Ids
      BY DEF ServerInv
    <3>2. Repairing(e) => Repairing(e)'
      BY <1>1, <1>4, <1>5, <2>9 DEF Repairing
    <3>3. ASSUME NEW n \in Int, Covered(e, n) PROVE Covered(e, n)'
      <4>1. Version(e) \in Nat /\ Version(e)' \in Nat /\ Version(e) <= Version(e)'
        BY <2>3, <2>5, <3>1, Numbers
      <4>2. CASE n <= Version(e)
        BY <4>1, <4>2 DEF Covered
      <4>3. CASE \E x \in Known(channel) : x.kind = "edit" /\ x.doc = e /\ n <= x.base + 1
        <5>1. PICK x \in Known(channel) : x.kind = "edit" /\ x.doc = e /\ n <= x.base + 1
          BY <4>3
        <5>2. CASE x = m
          <6>1. e = d /\ n <= Version(e)'
            BY <1>3, <1>8, <2>4, <5>1, <5>2
          <6> QED
            BY <6>1 DEF Covered
        <5>3. CASE x # m
          BY <1>5, <5>1, <5>3 DEF Covered
        <5> QED
          BY <5>2, <5>3
      <4> QED
        BY <3>3, <4>2, <4>3 DEF Covered
    <3> QED
      BY <1>1, <3>1, <3>2, <3>3, BehindStays DEF TrackInv
  <2> QED
    BY <1>1, <1>6, <1>7, <2>3, <2>5, <2>6, <2>9, <2>10, SyncStays, PaneStays, StoreStays
<1>9. CASE ~accepts
  <2>1. /\ text' = text /\ unsaved' = unsaved
        /\ wire' = Append(wire, [kind |-> "rejected", doc |-> d, txn |-> m.txn,
                                 repair |-> d \in held])
    BY <1>2, <1>3, <1>9 DEF ServeEdit
  <2>2. UNCHANGED <<link, losses, server, txn>>
    BY <1>1, <2>1 DEF server
  <2>3. ServerInv' /\ Grows /\ \A e \in Ids : Version(e)' = Version(e)
    BY <2>2, StillServer
  <2>4. ChannelInv'
    BY <1>1, <2>1, ChannelServed
  <2>5. PICK a \in Event :
           /\ a = [kind |-> "rejected", doc |-> d, txn |-> m.txn, repair |-> d \in held]
           /\ a.kind = "rejected" /\ a.doc = d /\ (d \in held => a.repair)
    <3>1. (d \in held) \in BOOLEAN
      OBVIOUS
    <3> DEFINE a == [kind |-> "rejected", doc |-> d, txn |-> m.txn, repair |-> d \in held]
    <3>2. a \in Event
      BY <1>4, <3>1 DEF Event
    <3>3. a.kind = "rejected" /\ a.doc = d /\ (d \in held => a.repair)
      OBVIOUS
    <3> QED
      BY <3>2, <3>3
  <2>6. EventsInv' /\ Known(wire') = Known(wire) \union {a}
    <3>1. GoodEvent(a, Version(a.doc)', made')
      BY <2>5 DEF GoodEvent
    <3> QED
      BY <1>1, <2>1, <2>3, <2>5, <3>1, WireAppended
  <2>7. TrackInv'
    <3> SUFFICES ASSUME NEW e \in held, ~Shared(e) PROVE Repairing(e)' \/ Behind(e)'
      BY <1>1 DEF TrackInv
    <3>1. e \in Ids
      BY DEF ServerInv
    <3>2. CASE e = d
      <4>1. a \in Known(wire') /\ a.repair /\ a.doc = e /\ a.kind = "rejected"
        BY <2>5, <2>6, <3>2
      <4> QED
        BY <4>1 DEF Repairing
    <3>3. CASE e # d
      <4>1. Repairing(e) => Repairing(e)'
        BY <1>1, <1>4, <1>5, <2>6 DEF Repairing
      <4>2. ASSUME NEW n \in Int, Covered(e, n) PROVE Covered(e, n)'
        BY <1>3, <1>5, <2>3, <3>1, <3>3, <4>2 DEF Covered
      <4> QED
        BY <1>1, <3>1, <4>1, <4>2, BehindStays DEF TrackInv
    <3> QED
      BY <3>2, <3>3
  <2> QED
    BY <1>1, <1>6, <1>7, <2>3, <2>4, <2>6, <2>7, SyncStays, PaneStays, StoreStays
<1> QED
  BY <1>8, <1>9

LEMMA DisconnectKeeps ==
    ASSUME SessionsInv, Disconnect
    PROVE  SessionsInv'
<1> USE DEF SessionsInv
<1>1. /\ UNCHANGED <<made, text, txn>> /\ UNCHANGED <<events, sync, pane, store>>
      /\ link' = "lost" /\ losses' = losses + 1 /\ losses < MaxLosses
      /\ held' = {} /\ channel' = <<>> /\ wire' = <<>>
      /\ registered' = {d \in registered : Shared(d)}
      /\ unsaved' = {d \in unsaved : Shared(d)}
  BY DEF Disconnect, Shared
<1>2. ServerInv'
  <2>1. losses' \in 0..MaxLosses
    BY <1>1, SessionConstants DEF ServerInv
  <2> QED
    BY <1>1, <2>1 DEF ServerInv
<1>3. Grows
  <2>1. \A e \in Ids : Version(e)' = Version(e)
    BY <1>1 DEF Version
  <2>2. \A e \in Ids : Version(e) <= Version(e)'
    BY <2>1, VersionIs
  <2>3. txn <= txn' /\ \A g \in Files : made[g] <= made'[g]
    BY <1>1, SessionConstants DEF ServerInv
  <2> QED
    BY <2>2, <2>3 DEF Grows
<1>4. HeldInv'
  BY <1>1 DEF HeldInv
<1>5. ChannelInv'
  BY <1>1, EmptyKnown, SessionConstants DEF ChannelInv
<1>6. EventsInv'
  <2>1. wire' \in Seq(Event) /\ Len(wire') <= Capacity
    BY <1>1, SessionConstants
  <2>2. \A m \in Known(wire') \union Known(events') : GoodEvent(m, Version(m.doc)', made')
    BY <1>1, <1>2, <1>3, EmptyKnown, EventsStay
  <2> QED
    BY <1>1, <2>1, <2>2 DEF EventsInv
<1>7. TrackInv'
  BY <1>1 DEF TrackInv
<1>8. lru' = lru
  BY <1>1 DEF store
<1> QED
  BY <1>1, <1>2, <1>3, <1>4, <1>5, <1>6, <1>7, <1>8, SyncStays, PaneStays, StoreStays

(* The order in which the paths are opened again is a sequence of files.   *)
LEMMA ReopenOrders ==
    ASSUME PaneInv, StoreInv, NEW order \in SetToSeqs(ReopenPaths)
    PROVE  order \in Seq(Files)
<1>1. IsFiniteSet(Retained)
  <2>1. Retained = Range(lru) /\ lru \in Seq(Ids) /\ IsInjective(lru)
    BY DEF StoreInv, StoreIsConsistent
  <2>2. IsFiniteSet(DOMAIN lru)
    BY <2>1, FS_Interval
  <2>3. lru \in Surjection(DOMAIN lru, Range(lru))
    BY <2>1 DEF Surjection, Range
  <2> QED
    BY <2>1, <2>2, <2>3, FS_Surjection
<1> DEFINE paths == {sessions[d].path : d \in Retained}
           open == [d \in Retained |-> sessions[d].path]
<1>2. IsFiniteSet(paths)
  <2>1. open \in Surjection(Retained, paths)
    BY DEF Surjection
  <2> HIDE DEF open, paths
  <2> QED
    BY <1>1, <2>1, FS_Surjection
<1>3. IsFiniteSet({pane.path} \cup paths)
  <2> HIDE DEF paths
  <2> QED
    BY <1>2, FS_AddElement
<1>4. IsFiniteSet(ReopenPaths)
  BY <1>3, FS_Subset DEF ReopenPaths
<1>5. ReopenPaths \subseteq Files
  <2>1. pane.path \in Files \cup {NoFile}
    BY DEF PaneInv, Pane
  <2>2. \A d \in Retained : sessions[d].path \in Files \cup {NoFile}
    BY SessionFields DEF StoreInv, GoodSession
  <2> QED
    BY <2>1, <2>2 DEF ReopenPaths
<1>6. Cardinality(ReopenPaths) \in Nat
  BY <1>4, FS_CardinalityType
<1>7. order \in [1..Cardinality(ReopenPaths) -> ReopenPaths]
  BY DEF SetToSeqs
<1> QED
  BY <1>5, <1>6, <1>7

LEMMA ReconnectKeeps ==
    ASSUME SessionsInv, Reconnect
    PROVE  SessionsInv'
<1> USE DEF SessionsInv
<1>1. /\ UNCHANGED <<losses, made, registered, held, text, unsaved, txn>>
      /\ UNCHANGED <<wire, events, sessions, lru>>
      /\ link = "lost" /\ link' = "up" /\ sync' = [d \in Ids |-> Unknown]
      /\ pane' = [pane EXCEPT !.resync = TRUE]
  BY DEF Reconnect, server, store
<1>2. PICK order \in SetToSeqs(ReopenPaths) :
         channel' = [i \in 1..(IF Len(order) < Capacity THEN Len(order) ELSE Capacity) |->
                        [kind |-> "open", file |-> order[i]]]
  BY DEF Reconnect
<1>3. ServerInv'
  BY <1>1 DEF ServerInv
<1>4. Grows
  <2>1. \A e \in Ids : Version(e)' = Version(e)
    BY <1>1 DEF Version
  <2>2. \A e \in Ids : Version(e) <= Version(e)'
    BY <2>1, VersionIs
  <2>3. txn <= txn' /\ \A g \in Files : made[g] <= made'[g]
    BY <1>1, SessionConstants DEF ServerInv
  <2> QED
    BY <2>2, <2>3 DEF Grows
<1>5. HeldInv'
  BY <1>1 DEF HeldInv
<1>6. ChannelInv'
  <2>1. order \in Seq(Files)
    BY ReopenOrders
  <2> DEFINE n == IF Len(order) < Capacity THEN Len(order) ELSE Capacity
  <2>2. n \in Nat /\ n <= Len(order) /\ n <= Capacity
    BY <2>1, SessionConstants
  <2>3. \A i \in 1..n : order[i] \in Files
    BY <2>1, <2>2
  <2> HIDE DEF n
  <2>4. channel' = [i \in 1..n |-> [kind |-> "open", file |-> order[i]]]
    BY <1>2 DEF n
  <2>5. \A i \in 1..n : channel'[i] \in Message /\ channel'[i].kind = "open"
    BY <2>3, <2>4 DEF Message
  <2>6. DOMAIN channel' = 1..n
    BY <2>4
  <2>7. channel' \in Seq(Message) /\ Len(channel') = n
    BY <2>2, <2>4, <2>5
  <2>8. Unique(channel')
    BY <2>5, <2>6 DEF Unique
  <2>9. \A m \in Known(channel') : GoodEdit(m, txn', text')
    BY <2>5, <2>6 DEF Known, GoodEdit
  <2>10. Len(channel') <= Capacity + 1
    BY <2>2, <2>7, SessionConstants
  <2> QED
    BY <2>7, <2>8, <2>9, <2>10 DEF ChannelInv
<1>7. SyncInv'
  <2>1. Unknown \in Sync /\ Unknown.pending = <<>> /\ Unknown.confirmed = 0 /\ Unknown.optimistic = 0
    BY SessionConstants DEF Unknown, Sync, Default
  <2>2. ASSUME NEW d \in Ids PROVE GoodSync(d, Unknown, Version(d)', txn')
    <3>1. Version(d)' \in Nat /\ txn' \in Nat
      BY <1>3, <1>4, Numbers
    <3> DEFINE v == Version(d)'
               n == txn'
    <3> HIDE DEF v, n
    <3>2. GoodPending(d, <<>>, txn')
      BY EmptyKnown DEF GoodPending
    <3>3. v \in Nat /\ n \in Nat
      BY <3>1 DEF v, n
    <3>4. 0 <= v /\ 0 <= n + 1
      BY <3>3
    <3> QED
      BY <2>1, <3>2, <3>4 DEF GoodSync, v, n
  <2>3. sync' \in [Ids -> Sync]
    BY <1>1, <2>1
  <2> QED
    BY <1>1, <2>2, <2>3 DEF SyncInv
<1>8. /\ pane' \in Pane /\ pane'.phase = pane.phase /\ pane'.shown = pane.shown
  BY <1>1 DEF PaneInv, Pane
<1>9. PaneInv'
  BY <1>1, <1>8 DEF PaneInv
<1>10. StoreInv'
  <2>1. Retained' = Retained
    BY <1>1 DEF Retained
  <2>2. StoreIsConsistent'
    BY <1>1, <1>8, <2>1 DEF StoreIsConsistent, StoreInv
  <2>3. \A d \in Ids : Version(d)' = Version(d)
    BY <1>1 DEF Version
  <2>4. \A d \in Retained : GoodSession(d, sessions[d], Version(d)', txn') /\ Given(d, made')
    BY <1>1, <2>3 DEF StoreInv, Retained
  <2> QED
    BY <1>1, <2>1, <2>2, <2>4 DEF StoreInv
<1>11. TrackInv'
  BY <1>1 DEF HeldInv, TrackInv
<1>12. EventsInv'
  BY <1>1, <1>3, <1>4, EventsUnchanged
<1> QED
  BY <1>3, <1>5, <1>6, <1>7, <1>9, <1>10, <1>11, <1>12

-----------------------------------------------------------------------------
(* The operations on a tracking state.                                     *)

LEMMA NothingKnown ==
    ASSUME NEW q \in Seq(Pending), Known(q) = {}
    PROVE  q = <<>>
<1>1. DOMAIN q = 1..Len(q) /\ Len(q) \in Nat
  OBVIOUS
<1>2. 1 \notin DOMAIN q
  BY DEF Known
<1> QED
  BY <1>1, <1>2

LEMMA FewerPending ==
    ASSUME NEW d, NEW q \in Seq(Pending), NEW r \in Seq(Pending), NEW n,
           Known(r) \subseteq Known(q), GoodPending(d, q, n)
    PROVE  GoodPending(d, r, n)
<1>1. \A p \in Known(r) : p.txn <= n /\ p.base <= p.txn
  BY DEF GoodPending
<1>2. Shared(d) => r = <<>>
  BY EmptyKnown, NothingKnown DEF GoodPending
<1> QED
  BY <1>1, <1>2 DEF GoodPending

LEMMA InstallIs ==
    ASSUME NEW d, NEW c \in Versions \cup {Default}, NEW q \in Seq(Pending),
           NEW v \in Nat, NEW n \in 0..MaxEdits, c <= v, v <= n + 1, GoodPending(d, q, n)
    PROVE  /\ GoodSync(d, install(c, q), v, n)
           /\ install(c, q).pending = q
           /\ \/ install(c, q).optimistic = c
              \/ \E p \in Known(q) : install(c, q).optimistic = p.base + 1
<1>1. c \in Int /\ n \in Nat /\ n <= MaxEdits /\ MaxEdits \in Nat
  BY SessionConstants DEF Versions, Default
<1>2. PICK o : o = NextBase(c, q)
  OBVIOUS
<1>3. /\ o = c \/ (q # <<>> /\ \E p \in Known(q) : o = p.base + 1)
  BY <1>2, PendingFields DEF NextBase
<1>4. o \in Versions \cup {Default} /\ o \in Int /\ o <= n + 1
  <2>1. CASE o = c
    BY <1>1, <2>1
  <2>2. CASE \E p \in Known(q) : o = p.base + 1
    <3>1. PICK p \in Known(q) : o = p.base + 1
      BY <2>2
    <3>2. p.base \in Nat /\ p.txn \in Int /\ p.txn <= n /\ p.base <= p.txn
      BY PendingFields DEF GoodPending
    <3> QED
      BY <1>1, <3>1, <3>2 DEF Versions
  <2> QED
    BY <1>3, <2>1, <2>2
<1>5. Shared(d) => o <= v
  <2>1. Shared(d) => o = c
    BY <1>2 DEF GoodPending, NextBase
  <2> QED
    BY <2>1
<1> DEFINE s == [known |-> TRUE, confirmed |-> c, optimistic |-> o, pending |-> q]
<1>6. install(c, q) = s
  BY <1>2 DEF install
<1>7. s \in Sync /\ s.pending = q /\ s.confirmed = c /\ s.optimistic = o
  BY <1>4 DEF Sync
<1> HIDE DEF s
<1> QED
  BY <1>3, <1>4, <1>5, <1>6, <1>7 DEF GoodSync

(* A state that was loaded: nothing is pending.                            *)
LEMMA LoadedIs ==
    ASSUME NEW d, NEW c \in Versions, NEW v \in Nat, NEW n \in 0..MaxEdits, c <= v, v <= n + 1
    PROVE  /\ GoodSync(d, install(c, <<>>), v, n)
           /\ install(c, <<>>).pending = <<>> /\ install(c, <<>>).optimistic = c
<1>1. <<>> \in Seq(Pending)
  OBVIOUS
<1>2. PICK q \in Seq(Pending) : q = <<>>
  BY <1>1
<1>3. GoodPending(d, q, n) /\ Known(q) = {}
  BY <1>2, EmptyKnown DEF GoodPending
<1>4. /\ GoodSync(d, install(c, q), v, n) /\ install(c, q).pending = q
      /\ \/ install(c, q).optimistic = c
         \/ \E p \in Known(q) : install(c, q).optimistic = p.base + 1
  BY <1>3, InstallIs
<1> QED
  BY <1>2, <1>3, <1>4

LEMMA AcknowledgeIs ==
    ASSUME NEW d, NEW s, NEW v \in Nat, NEW n \in 0..MaxEdits, NEW w \in Versions, NEW t,
           w <= v, v <= n + 1, GoodSync(d, s, v, n)
    PROVE  /\ GoodSync(d, acknowledge(s, w, t), v, n)
           /\ Known(acknowledge(s, w, t).pending) \subseteq Known(s.pending)
           /\ acknowledge(s, w, t).optimistic \in {s.optimistic, w}
<1>1. /\ s \in Sync /\ s.optimistic \in Int /\ s.pending \in Seq(Pending)
      /\ s.optimistic \in Versions \cup {Default}
  BY SyncFields DEF GoodSync
<1>2. w \in Int /\ n \in Nat
  BY SessionConstants DEF Versions
<1>3. CASE ~s.known
  BY <1>3 DEF acknowledge
<1>4. CASE s.known
  <2>1. PICK q \in Seq(Pending) : q = WithoutTxn(s.pending, t) /\ Known(q) \subseteq Known(s.pending)
    BY <1>1, WithoutTxnKnown
  <2>2. PICK o \in {s.optimistic, w} : o = IF s.optimistic < w THEN w ELSE s.optimistic
    OBVIOUS
  <2> DEFINE r == [s EXCEPT !.confirmed = w, !.pending = q, !.optimistic = o]
  <2>3. acknowledge(s, w, t) = r
    BY <1>4, <2>1, <2>2 DEF acknowledge
  <2>4. o \in Versions \cup {Default} /\ o \in Int /\ o <= n + 1 /\ (Shared(d) => o <= v)
    BY <1>1, <1>2, <2>2 DEF GoodSync
  <2>5. r \in Sync /\ r.confirmed = w /\ r.pending = q /\ r.optimistic = o
    BY <1>1, <2>4 DEF Sync
  <2>6. GoodPending(d, q, n)
    BY <1>1, <2>1, FewerPending DEF GoodSync
  <2> HIDE DEF r
  <2> QED
    BY <2>1, <2>2, <2>3, <2>4, <2>5, <2>6 DEF GoodSync
<1> QED
  BY <1>3, <1>4

(* Where a tracking state was behind, one that took its place is.          *)
Follows(s, r, v) ==
    /\ Known(r.pending) \subseteq Known(s.pending)
    /\ \/ r.optimistic = s.optimistic
       \/ r.optimistic <= v
       \/ \E p \in Known(s.pending) : r.optimistic = p.base + 1

LEMMA RejectIs ==
    ASSUME NEW d, NEW s, NEW v \in Nat, NEW n \in 0..MaxEdits, NEW t,
           v <= n + 1, GoodSync(d, s, v, n)
    PROVE  GoodSync(d, reject(s, t), v, n) /\ Follows(s, reject(s, t), v)
<1>1. /\ s \in Sync /\ s.pending \in Seq(Pending) /\ s.confirmed \in Versions \cup {Default}
      /\ s.confirmed <= v
  BY SyncFields DEF GoodSync
<1>2. CASE ~s.known
  BY <1>2 DEF reject, Follows
<1>3. CASE s.known
  <2>1. PICK q \in Seq(Pending) : q = WithoutTxn(s.pending, t) /\ Known(q) \subseteq Known(s.pending)
    BY <1>1, WithoutTxnKnown
  <2>2. PICK c \in Versions \cup {Default} : c = s.confirmed
    BY <1>1
  <2>3. reject(s, t) = install(c, q)
    BY <1>3, <2>1, <2>2 DEF reject
  <2>4. GoodPending(d, q, n)
    BY <1>1, <2>1, FewerPending DEF GoodSync
  <2>5. c <= v
    BY <1>1, <2>2
  <2>6. /\ GoodSync(d, install(c, q), v, n)
        /\ install(c, q).pending = q
        /\ \/ install(c, q).optimistic = c
           \/ \E p \in Known(q) : install(c, q).optimistic = p.base + 1
    BY <2>4, <2>5, InstallIs
  <2> QED
    BY <2>1, <2>3, <2>6, <2>5 DEF Follows
<1> QED
  BY <1>2, <1>3

LEMMA ReserveIs ==
    ASSUME NEW d, ~Shared(d), NEW s, NEW v \in Nat, NEW n \in 0..MaxEdits, n < MaxEdits,
           GoodSync(d, s, v, n)
    PROVE  LET r == reserve_pending(s, n + 1)
           IN  /\ GoodSync(d, r, v, n + 1) /\ r.optimistic = s.optimistic + 1
               /\ \A p \in Known(r.pending) : p \in Known(s.pending) \/ p.base = s.optimistic
<1>1. /\ s \in Sync /\ s.confirmed \in Int /\ s.pending \in Seq(Pending)
      /\ s.optimistic \in Versions \cup {Default} /\ s.optimistic <= n + 1
      /\ s.confirmed <= v /\ GoodPending(d, s.pending, n)
  BY SyncFields DEF GoodSync
<1>2. n \in Nat /\ n + 1 \in Nat /\ n <= n + 1 /\ n + 1 \in Txns /\ n + 1 <= MaxEdits /\ MaxEdits \in Nat
  BY SessionConstants DEF Txns
<1>3. PICK b \in Versions \cup {Default} : b = s.optimistic
  BY <1>1
<1>4. b \in Nat /\ b <= n + 1 /\ b + 1 \in Versions
  BY <1>1, <1>2, <1>3, SessionConstants DEF Versions, Default
<1>5. PICK o \in Versions : o = b + 1
  BY <1>4
<1>6. PICK k \in Txns : k = n + 1
  BY <1>2
<1>7. PICK p \in Pending : p = [txn |-> k, base |-> b] /\ p.txn = k /\ p.base = b
  <2> DEFINE e == [txn |-> k, base |-> b]
  <2>1. e \in Pending /\ e.txn = k /\ e.base = b
    BY DEF Pending
  <2> QED
    BY <2>1
<1>8. PICK q \in Seq(Pending) : q = Append(s.pending, p) /\ Known(q) = Known(s.pending) \union {p}
  <2> DEFINE q == Append(s.pending, p)
  <2>1. q \in Seq(Pending) /\ Known(q) = Known(s.pending) \union {p}
    BY <1>1, <1>7, AppendKnown
  <2> QED
    BY <2>1
<1> DEFINE r == [s EXCEPT !.known = TRUE, !.optimistic = o, !.pending = q]
<1>9. reserve_pending(s, n + 1) = r
  BY <1>1, <1>3, <1>5, <1>6, <1>7, <1>8 DEF reserve_pending, Sync
<1>10. r \in Sync /\ r.confirmed = s.confirmed /\ r.pending = q /\ r.optimistic = o
  BY <1>1 DEF Sync
<1>11. GoodPending(d, q, n + 1)
  <2>1. GoodPending(d, s.pending, n + 1)
    BY <1>1, <1>2, PendingKept
  <2>2. \A x \in Known(q) : x.txn <= n + 1 /\ x.base <= x.txn
    BY <1>2, <1>4, <1>6, <1>7, <1>8, <2>1 DEF GoodPending
  <2> QED
    BY <2>2 DEF GoodPending
<1>12. o <= (n + 1) + 1
  BY <1>2, <1>4, <1>5
<1> HIDE DEF r
<1>13. GoodSync(d, r, v, n + 1)
  BY <1>1, <1>10, <1>11, <1>12 DEF GoodSync
<1> QED
  BY <1>3, <1>5, <1>7, <1>8, <1>9, <1>10, <1>13

LEMMA SyncChanged ==
    ASSUME ServerInv, ServerInv', Grows, SyncInv, NEW d \in Ids, NEW r,
           sync' = [sync EXCEPT ![d] = r], GoodSync(d, r, Version(d)', txn')
    PROVE  SyncInv' /\ sync'[d] = r /\ \A e \in Ids \ {d} : sync'[e] = sync[e]
<1>1. sync'[d] = r /\ \A e \in Ids \ {d} : sync'[e] = sync[e]
  BY DEF SyncInv
<1>2. sync' \in [Ids -> Sync]
  BY DEF SyncInv, GoodSync
<1>3. ASSUME NEW e \in Ids PROVE GoodSync(e, sync'[e], Version(e)', txn')
  <2>1. CASE e = d
    BY <1>1, <2>1
  <2>2. CASE e # d
    <3>1. GoodSync(e, sync[e], Version(e), txn)
      BY DEF SyncInv
    <3>2. GoodSync(e, sync[e], Version(e)', txn')
      BY <3>1, Numbers, SyncKept
    <3> QED
      BY <1>1, <2>2, <3>2
  <2> QED
    BY <2>1, <2>2
<1> QED
  BY <1>1, <1>3, <1>2 DEF SyncInv

LEMMA ReceiveKeeps ==
    ASSUME SessionsInv, Receive
    PROVE  SessionsInv'
<1> USE DEF SessionsInv
<1>1. /\ UNCHANGED <<link, losses, server, txn>> /\ UNCHANGED <<pane, store>>
      /\ held' = held /\ registered' = registered /\ text' = text /\ made' = made
      /\ wire # <<>> /\ Len(events) < Capacity /\ wire' = Tail(wire)
  BY DEF Receive, server
<1>2. /\ Head(wire) \in Event /\ wire' \in Seq(Event) /\ Len(wire') = Len(wire) - 1
      /\ Known(wire) = Known(wire') \union {Head(wire)} /\ Len(wire) \in Nat /\ Len(wire) <= Capacity
  <2>1. wire \in Seq(Event)
    BY DEF EventsInv
  <2> QED
    BY <1>1, <2>1, TailKnown DEF EventsInv
<1>3. PICK m \in Event : m = Head(wire)
  BY <1>2
<1>4. PICK d \in Ids : d = m.doc
  BY EventFields
<1>5. ServerInv' /\ Grows /\ \A e \in Ids : Version(e)' = Version(e)
  BY <1>1, StillServer
<1>6. /\ events \in Seq(Event) /\ Len(events) \in Nat /\ events' = Append(events, m)
      /\ events' \in Seq(Event) /\ Len(events') = Len(events) + 1
      /\ Known(events') = Known(events) \union {m}
  <2>1. events \in Seq(Event) /\ events' = Append(events, m)
    BY <1>3 DEF EventsInv, Receive
  <2> QED
    BY <2>1, AppendKnown
<1>7. EventsInv'
  <2>1. Len(wire') <= Capacity /\ Len(events') <= Capacity
    BY <1>1, <1>2, <1>6, SessionConstants
  <2>2. \A x \in Known(wire') \union Known(events') : GoodEvent(x, Version(x.doc)', made')
    BY <1>2, <1>3, <1>5, <1>6, EventsStay
  <2> QED
    BY <1>2, <1>6, <2>1, <2>2 DEF EventsInv
<1>8. /\ ChannelInv' /\ Known(channel) \subseteq Known(channel')
      /\ m.kind = "rejected" /\ m.repair =>
             \E x \in Known(channel') : x.kind = "resync" /\ x.doc = d
  <2>1. CASE m.kind = "rejected" /\ m.repair
    <3>1. PICK x \in Message : x = [kind |-> "resync", doc |-> d] /\ x.kind = "resync" /\ x.doc = d
      <4> DEFINE x == [kind |-> "resync", doc |-> d]
      <4>1. x \in Message /\ x.kind = "resync" /\ x.doc = d
        BY DEF Message
      <4> QED
        BY <4>1
    <3>2. Len(channel) <= Capacity /\ channel' = <<x>> \o channel
      BY <1>3, <1>4, <2>1, <3>1 DEF Receive
    <3>3. PICK ms \in Seq(Message) : ms = <<x>> /\ Len(ms) = 1 /\ Known(ms) = {x}
      BY OneKnown
    <3>4. channel' = ms \o channel
      BY <3>2, <3>3
    <3>5. Len(channel) + Len(ms) <= Capacity + 1 /\ \A y \in Known(ms) : y.kind # "edit"
      <4>1. Len(channel) \in Nat
        BY DEF ChannelInv
      <4> QED
        BY <3>1, <3>2, <3>3, <4>1, SessionConstants
    <3>6. ChannelInv' /\ Known(channel') = Known(channel) \union Known(ms)
      BY <1>1, <3>4, <3>5, ChannelJoined
    <3> QED
      BY <3>1, <3>3, <3>6
  <2>2. CASE ~(m.kind = "rejected" /\ m.repair)
    <3>1. channel' = channel
      BY <1>3, <2>2 DEF Receive
    <3> QED
      BY <1>1, <2>2, <3>1 DEF ChannelInv
  <2> QED
    BY <2>1, <2>2
<1>9. HeldInv'
  BY <1>1 DEF HeldInv
<1>10. /\ GoodSync(d, sync[d], Version(d), txn) /\ Version(d) \in Nat /\ txn \in 0..MaxEdits
       /\ Version(d) <= txn + 1 /\ (m.kind # "rejected" => m.version \in Versions /\ m.version <= Version(d))
  <2>1. m \in Known(wire) /\ GoodEvent(m, Version(m.doc), made)
    BY <1>2, <1>3 DEF EventsInv
  <2> QED
    BY <1>4, <2>1, VersionIs, EventFields DEF SyncInv, ServerInv, GoodEvent
<1>11. PICK r : sync' = [sync EXCEPT ![d] = r] /\ GoodSync(d, r, Version(d), txn)
                /\ Follows(sync[d], r, Version(d))
  <2>1. CASE m.kind = "opened"
    <3>1. sync' = [sync EXCEPT ![d] = sync[d]]
      BY <1>3, <2>1 DEF Receive, SyncInv
    <3>2. Follows(sync[d], sync[d], Version(d))
      BY DEF Follows
    <3> QED
      BY <1>10, <3>1, <3>2
  <2>2. CASE m.kind = "ack"
    <3>1. sync' = [sync EXCEPT ![d] = acknowledge(sync[d], m.version, m.txn)]
      BY <1>3, <1>4, <2>2 DEF Receive
    <3>2. /\ GoodSync(d, acknowledge(sync[d], m.version, m.txn), Version(d), txn)
          /\ Known(acknowledge(sync[d], m.version, m.txn).pending) \subseteq Known(sync[d].pending)
          /\ acknowledge(sync[d], m.version, m.txn).optimistic \in {sync[d].optimistic, m.version}
      BY <1>10, <2>2, AcknowledgeIs
    <3>3. Follows(sync[d], acknowledge(sync[d], m.version, m.txn), Version(d))
      BY <1>10, <2>2, <3>2 DEF Follows
    <3> QED
      BY <3>1, <3>2, <3>3
  <2>3. CASE m.kind = "rejected"
    <3>1. sync' = [sync EXCEPT ![d] = reject(sync[d], m.txn)]
      BY <1>3, <1>4, <2>3 DEF Receive
    <3>2. GoodSync(d, reject(sync[d], m.txn), Version(d), txn)
      BY <1>10, RejectIs
    <3>3. Follows(sync[d], reject(sync[d], m.txn), Version(d))
      BY <1>10, RejectIs
    <3> QED
      BY <3>1, <3>2, <3>3
  <2>4. CASE m.kind = "snapshot"
    <3>1. sync' = [sync EXCEPT ![d] = install(m.version, <<>>)]
      BY <1>3, <1>4, <2>4 DEF Receive
    <3>2. PICK v, n : v = Version(d) /\ n = txn
      OBVIOUS
    <3>3. /\ GoodSync(d, install(m.version, <<>>), v, n)
          /\ install(m.version, <<>>).pending = <<>>
          /\ install(m.version, <<>>).optimistic = m.version
      <4>1. v \in Nat /\ n \in 0..MaxEdits /\ v <= n + 1 /\ m.version \in Versions /\ m.version <= v
        BY <1>10, <2>4, <3>2
      <4> QED
        BY <4>1, LoadedIs
    <3>4. Follows(sync[d], install(m.version, <<>>), Version(d))
      BY <1>10, <2>4, <3>3, EmptyKnown DEF Follows
    <3> QED
      BY <3>1, <3>2, <3>3, <3>4
  <2> QED
    BY <2>1, <2>2, <2>3, <2>4, EventFields
<1>12. SyncInv' /\ sync'[d] = r /\ \A e \in Ids \ {d} : sync'[e] = sync[e]
  <2>1. GoodSync(d, r, Version(d)', txn')
    BY <1>1, <1>5, <1>11
  <2> QED
    BY <1>5, <1>11, <2>1, SyncChanged
<1>13. TrackInv'
  <2> SUFFICES ASSUME NEW e \in held, ~Shared(e) PROVE Repairing(e)' \/ Behind(e)'
    BY <1>1 DEF TrackInv
  <2>1. e \in Ids
    BY DEF ServerInv
  <2>2. ASSUME NEW n \in Int, Covered(e, n) PROVE Covered(e, n)'
    BY <1>5, <1>8, <2>1, <2>2 DEF Covered
  <2>3. ASSUME Repairing(e) PROVE Repairing(e)'
    <3>1. CASE \E x \in Known(channel) : x.kind = "resync" /\ x.doc = e
      BY <1>8, <3>1 DEF Repairing
    <3>2. CASE \E x \in Known(wire) : x.kind = "rejected" /\ x.repair /\ x.doc = e
      <4>1. PICK x \in Known(wire) : x.kind = "rejected" /\ x.repair /\ x.doc = e
        BY <3>2
      <4>2. CASE x = m
        BY <1>4, <1>8, <4>1, <4>2 DEF Repairing
      <4>3. CASE x # m
        BY <1>2, <1>3, <4>1, <4>3 DEF Repairing
      <4> QED
        BY <4>2, <4>3
    <3>3. CASE \E x \in Known(wire) \union Known(events) : x.kind = "snapshot" /\ x.doc = e
      BY <1>2, <1>3, <1>6, <3>3 DEF Repairing
    <3> QED
      BY <2>3, <3>1, <3>2, <3>3 DEF Repairing
  <2>4. ASSUME Behind(e) PROVE Behind(e)'
    <3>1. pane' = pane /\ sessions' = sessions /\ Retained' = Retained
      BY <1>1 DEF store, Retained
    <3>2. /\ sync[e] \in Sync /\ sync[e].optimistic \in Int
          /\ \A p \in Known(sync[e].pending) : p.base + 1 \in Int
      BY <2>1, SyncFields, PendingFields DEF SyncInv
    <3>3. e \in Retained => \A p \in Known(sessions[e].pending) : Covered(e, p.base + 1)'
      <4>1. e \in Retained => \A p \in Known(sessions[e].pending) : p.base + 1 \in Int
        BY SessionFields, PendingFields DEF StoreInv, GoodSession
      <4> QED
        BY <2>2, <2>4, <4>1 DEF Behind
    <3>4. ASSUME e = pane.shown
          PROVE  /\ Covered(e, sync[e].optimistic)
                 /\ \A p \in Known(sync[e].pending) : Covered(e, p.base + 1)'
      BY <2>2, <2>4, <3>2, <3>4 DEF Behind
    <3>5. CASE e # pane.shown
      BY <3>1, <3>3, <3>5 DEF Behind
    <3>6. CASE e = pane.shown /\ e # d
      <4>1. PICK o \in Int : o = sync[e].optimistic /\ Covered(e, o)
        BY <3>2, <3>4, <3>6
      <4>2. Covered(e, o)'
        BY <2>2, <4>1
      <4>3. sync'[e] = sync[e]
        BY <1>12, <2>1, <3>6
      <4> QED
        BY <3>1, <3>3, <3>4, <3>6, <4>1, <4>2, <4>3 DEF Behind
    <3>7. CASE e = pane.shown /\ e = d
      <4>1. \A p \in Known(r.pending) : Covered(e, p.base + 1)'
        BY <1>11, <3>4, <3>7 DEF Follows
      <4>2. Covered(e, r.optimistic)'
        <5>1. r.optimistic \in Int
          BY <1>11, SyncFields DEF GoodSync
        <5>2. CASE r.optimistic = sync[e].optimistic
          BY <2>2, <3>4, <3>7, <5>1, <5>2
        <5>3. CASE r.optimistic <= Version(e)
          BY <1>5, <2>1, <5>3 DEF Covered
        <5>4. CASE \E p \in Known(sync[e].pending) : r.optimistic = p.base + 1
          BY <3>4, <3>7, <5>4
        <5> QED
          BY <1>11, <3>7, <5>2, <5>3, <5>4 DEF Follows
      <4>3. sync'[e] = r
        BY <1>12, <3>7
      <4> QED
        BY <3>1, <3>3, <4>1, <4>2, <4>3 DEF Behind
    <3> QED
      BY <3>5, <3>6, <3>7
  <2> QED
    BY <2>3, <2>4 DEF TrackInv
<1>14. lru' = lru
  BY <1>1 DEF store
<1> QED
  BY <1>1, <1>5, <1>7, <1>8, <1>9, <1>12, <1>13, <1>14, PaneStays, StoreStays

LEMMA TypeKeeps ==
    ASSUME SessionsInv, Type
    PROVE  SessionsInv'
<1> USE DEF SessionsInv
<1>1. /\ UNCHANGED <<link, losses, made, registered, held, text, unsaved>>
      /\ UNCHANGED <<wire, events, sessions, lru>>
      /\ pane.phase = "open" /\ txn < MaxEdits /\ txn' = txn + 1
      /\ pane' = [pane EXCEPT !.dirty = TRUE, !.text = @ \cup {txn + 1}]
  BY DEF Type, server, store
<1>2. PICK d \in Ids : d = pane.shown /\ ~Shared(d)
  BY DEF Type, PaneInv, Shared
<1>3. txn \in 0..MaxEdits /\ txn \in Nat /\ txn + 1 \in Txns /\ MaxEdits \in Nat
  BY <1>1, SessionConstants DEF ServerInv, Txns
<1>4. ServerInv'
  <2>1. txn' \in 0..MaxEdits
    BY <1>1, <1>3
  <2>2. \A e \in Ids : \A t \in text[e] : t <= txn'
    <3>1. ASSUME NEW e \in Ids, NEW t \in text[e] PROVE t \in Int /\ t <= txn
      BY DEF ServerInv, Txns
    <3> QED
      BY <1>1, <1>3, <3>1
  <2> QED
    BY <1>1, <2>1, <2>2 DEF ServerInv
<1>5. \A e \in Ids : Version(e)' = Version(e)
  BY <1>1 DEF Version
<1>6. Grows
  <2>1. \A e \in Ids : Version(e) <= Version(e)'
    BY <1>5, VersionIs
  <2>2. \A g \in Files : made[g] <= made'[g]
    BY <1>1, SessionConstants DEF ServerInv
  <2>3. txn <= txn'
    BY <1>1, <1>3
  <2> QED
    BY <2>1, <2>2, <2>3 DEF Grows
<1>7. pane' \in Pane /\ pane'.phase = pane.phase /\ pane'.shown = pane.shown
  BY <1>1, <1>3 DEF PaneInv, Pane
<1>8. PaneInv'
  BY <1>1, <1>7 DEF PaneInv
<1>9. Retained' = Retained
  BY <1>1 DEF Retained
<1>10. StoreInv'
  <2>1. StoreIsConsistent'
    BY <1>1, <1>7, <1>9 DEF StoreIsConsistent, StoreInv
  <2>2. ASSUME NEW e \in Retained
        PROVE  GoodSession(e, sessions[e], Version(e)', txn') /\ Given(e, made')
    <3>1. e \in Ids /\ GoodSession(e, sessions[e], Version(e), txn) /\ Given(e, made)
      BY DEF StoreInv, Retained
    <3> QED
      BY <1>1, <1>4, <1>6, <3>1, Numbers, SessionKept
  <2> QED
    BY <1>1, <1>9, <2>1, <2>2 DEF StoreInv
<1>11. EventsInv'
  BY <1>1, <1>4, <1>6, EventsUnchanged
<1>12. GoodSync(d, sync[d], Version(d), txn) /\ Version(d) \in Nat
  BY VersionIs DEF SyncInv
<1>13. /\ sync[d] \in Sync /\ sync[d].optimistic \in Versions \cup {Default}
       /\ sync[d].optimistic \in Int /\ sync[d].optimistic <= txn + 1
  BY <1>12, SyncFields DEF GoodSync
<1>14. CASE link = "up" /\ HasRoom
  <2>1. PICK m \in Message :
           /\ m = [kind |-> "edit", doc |-> d, base |-> sync[d].optimistic,
                   txn |-> txn + 1, leased |-> sync[d].known]
           /\ m.kind = "edit" /\ m.doc = d /\ m.base = sync[d].optimistic /\ m.txn = txn + 1
    <3>1. sync[d].known \in BOOLEAN
      BY <1>13 DEF Sync
    <3>2. PICK b, k, l : b = sync[d].optimistic /\ k = txn + 1 /\ l = sync[d].known
      OBVIOUS
    <3>3. b \in Versions \cup {Default} /\ k \in Txns /\ l \in BOOLEAN
      BY <1>3, <1>13, <3>1, <3>2
    <3> DEFINE m == [kind |-> "edit", doc |-> d, base |-> b, txn |-> k, leased |-> l]
    <3>4. m \in Message
      BY <3>3 DEF Message
    <3>5. m.kind = "edit" /\ m.doc = d /\ m.base = b /\ m.txn = k
      OBVIOUS
    <3> QED
      BY <3>2, <3>4, <3>5
  <2>2. /\ channel' = Append(channel, m)
        /\ sync' = [sync EXCEPT ![d] = reserve_pending(sync[d], txn + 1)]
    BY <1>2, <1>14, <2>1 DEF Type
  <2>3. PICK r : /\ r = reserve_pending(sync[d], txn + 1)
                 /\ GoodSync(d, r, Version(d), txn + 1) /\ r.optimistic = sync[d].optimistic + 1
                 /\ \A p \in Known(r.pending) :
                        p \in Known(sync[d].pending) \/ p.base = sync[d].optimistic
    BY <1>1, <1>2, <1>3, <1>12, ReserveIs
  <2>4. SyncInv' /\ sync'[d] = r /\ \A e \in Ids \ {d} : sync'[e] = sync[e]
    <3>1. sync' = [sync EXCEPT ![d] = r] /\ GoodSync(d, r, Version(d)', txn')
      BY <1>1, <1>5, <2>2, <2>3
    <3> QED
      BY <1>4, <1>6, <3>1, SyncChanged
  <2>5. /\ channel \in Seq(Message) /\ Len(channel) \in Nat /\ channel' \in Seq(Message)
        /\ Len(channel') = Len(channel) + 1 /\ Known(channel') = Known(channel) \union {m}
    <3>1. channel \in Seq(Message)
      BY DEF ChannelInv
    <3> QED
      BY <2>2, <3>1, AppendKnown
  <2>6. \A x \in Known(channel) : x \in Message /\ GoodEdit(x, txn, text)
    BY KnownTyped DEF ChannelInv
  <2>7. \A x \in Known(channel) : x.kind = "edit" => x.txn \in Int /\ x.txn <= txn
    BY <2>6, MessageFields DEF GoodEdit, Txns
  <2>8. ChannelInv'
    <3>1. Unique(channel')
      <4>1. PICK ms \in Seq(Message) : ms = <<m>> /\ Known(ms) = {m} /\ Unique(ms)
        BY OneKnown
      <4>2. channel' = channel \o ms
        BY <2>2, <2>5, <4>1, AppendIsJoin
      <4>3. \A x \in Known(channel), y \in Known(ms) :
                x.kind = "edit" /\ y.kind = "edit" => x.txn # y.txn
        BY <1>3, <2>1, <2>7, <4>1
      <4> QED
        BY <2>5, <4>1, <4>2, <4>3, JoinedUnique DEF ChannelInv
    <3>2. Len(channel') <= Capacity + 1
      BY <1>14, <2>5, SessionConstants DEF HasRoom
    <3>3. ASSUME NEW x \in Known(channel) PROVE GoodEdit(x, txn', text')
      BY <1>1, <1>3, <2>6, <2>7 DEF GoodEdit
    <3>4. GoodEdit(m, txn', text')
      <4>1. txn + 1 \notin text[d]
        BY <1>3 DEF ServerInv
      <4>2. m.txn <= txn' /\ m.base <= m.txn
        BY <1>1, <1>3, <1>13, <2>1
      <4> QED
        BY <1>1, <2>1, <4>1, <4>2 DEF GoodEdit
    <3> QED
      BY <2>5, <3>1, <3>2, <3>3, <3>4 DEF ChannelInv
  <2>9. HeldInv'
    BY <1>1, <1>14 DEF HeldInv
  <2>10. KeepsNews
    BY <1>1, <2>5 DEF KeepsNews
  <2>11. TrackInv'
    <3> SUFFICES ASSUME NEW e \in held, ~Shared(e) PROVE Repairing(e)' \/ Behind(e)'
      BY <1>1 DEF TrackInv
    <3>1. e \in Ids
      BY DEF ServerInv
    <3>2. /\ Repairing(e) => Repairing(e)'
          /\ \A n \in Int : Covered(e, n) => Covered(e, n)'
      BY <1>4, <1>6, <2>10, <3>1, NewsKept
    <3>3. ASSUME Behind(e) PROVE Behind(e)'
      <4>1. e \in Retained => \A p \in Known(sessions[e].pending) : Covered(e, p.base + 1)'
        <5>1. e \in Retained => \A p \in Known(sessions[e].pending) : p.base + 1 \in Int
          BY SessionFields, PendingFields DEF StoreInv, GoodSession
        <5> QED
          BY <3>2, <3>3, <5>1 DEF Behind
      <4>2. CASE e # d
        BY <1>1, <1>2, <1>7, <1>9, <4>1, <4>2 DEF Behind
      <4>3. CASE e = d
        <5>1. \A n \in Int : n = sync[d].optimistic + 1 => Covered(e, n)'
          BY <2>1, <2>5, <4>3 DEF Covered
        <5>2. Covered(e, r.optimistic)'
          BY <1>13, <2>3, <5>1
        <5>3. ASSUME NEW p \in Known(r.pending) PROVE Covered(e, p.base + 1)'
          <6>1. CASE p.base = sync[d].optimistic
            BY <1>13, <5>1, <6>1
          <6>2. CASE p \in Known(sync[d].pending)
            <7>1. p.base + 1 \in Int
              BY <1>13, <6>2, SyncFields, PendingFields
            <7> QED
              BY <1>2, <3>2, <3>3, <4>3, <6>2, <7>1 DEF Behind
          <6> QED
            BY <2>3, <6>1, <6>2
        <5> QED
          BY <1>1, <1>9, <2>4, <4>1, <4>3, <5>2, <5>3 DEF Behind
      <4> QED
        BY <4>2, <4>3
    <3> QED
      BY <3>2, <3>3 DEF TrackInv
  <2> QED
    BY <1>4, <1>8, <1>10, <1>11, <2>4, <2>8, <2>9, <2>11
<1>15. CASE ~(link = "up" /\ HasRoom)
  <2>1. channel' = channel /\ sync' = sync
    BY <1>15 DEF Type
  <2>2. ChannelInv'
    <3>1. \A x \in Known(channel) : x \in Message /\ GoodEdit(x, txn, text)
      BY KnownTyped DEF ChannelInv
    <3>2. \A x \in Known(channel) : x.kind = "edit" => x.txn \in Int
      BY <3>1, MessageFields DEF Txns
    <3>3. \A x \in Known(channel) : GoodEdit(x, txn', text')
      BY <1>1, <1>3, <3>1, <3>2 DEF GoodEdit
    <3> QED
      BY <2>1, <3>3 DEF ChannelInv
  <2>3. SyncInv'
    BY <1>4, <1>6, <2>1, SyncStays
  <2>4. HeldInv'
    BY <1>1, <2>1 DEF HeldInv
  <2>5. KeepsNews
    BY <1>1, <2>1 DEF KeepsNews
  <2>6. TrackInv'
    <3> SUFFICES ASSUME NEW e \in held, ~Shared(e) PROVE Repairing(e)' \/ Behind(e)'
      BY <1>1 DEF TrackInv
    <3>1. Repairing(e) => Repairing(e)'
      BY <1>1, <2>1 DEF Repairing
    <3>2. \A n : Covered(e, n) => Covered(e, n)'
      BY <1>1, <2>1 DEF Covered, Version
    <3>3. Behind(e) => Behind(e)'
      BY <1>1, <1>7, <1>9, <2>1, <3>2 DEF Behind
    <3> QED
      BY <3>1, <3>3 DEF TrackInv
  <2> QED
    BY <1>4, <1>8, <1>10, <1>11, <2>2, <2>3, <2>4, <2>6
<1> QED
  BY <1>14, <1>15

-----------------------------------------------------------------------------
(* The session store.                                                      *)

Kept(sess) == {x \in Ids : sess[x].kept}

Consistent(sess, order) ==
    /\ sess \in [Ids -> Session \cup {NoSession}]
    /\ order \in Seq(Ids) /\ IsInjective(order)
    /\ Kept(sess) = Range(order)

LEMMA KeptIs ==
    ASSUME NEW s \in Session \cup {NoSession}
    PROVE  s.kept <=> s # NoSession
<1>1. NoSession.kept = FALSE
  BY DEF NoSession
<1>2. s # NoSession => s.kept
  BY SessionFields
<1> QED
  BY <1>1, <1>2

LEMMA DroppedIs ==
    ASSUME NEW a, NEW b, NEW c, Consistent(a, b), NEW d \in Ids
    PROVE  LET r == Dropped([sessions |-> a, lru |-> b, evicted |-> c], d)
           IN  /\ Consistent(r.sessions, r.lru)
               /\ Range(r.lru) = Range(b) \ {d}
               /\ \A x \in Ids \ {d} : r.sessions[x] = a[x]
<1> DEFINE st == [sessions |-> a, lru |-> b, evicted |-> c]
           r == Dropped(st, d)
           sess == [a EXCEPT ![d] = NoSession]
           order == Without(b, d)
<1>1. r.sessions = sess /\ r.lru = order
  BY DEF Dropped
<1>2. order \in Seq(Ids) /\ IsInjective(order) /\ Range(order) = Range(b) \ {d}
  BY WithoutKeeps DEF Consistent
<1>3. /\ sess \in [Ids -> Session \cup {NoSession}] /\ sess[d] = NoSession
      /\ \A x \in Ids \ {d} : sess[x] = a[x]
  BY DEF Consistent
<1> HIDE DEF sess, order
<1>4. Kept(sess) = Kept(a) \ {d}
  <2>1. ~sess[d].kept
    BY <1>3, KeptIs
  <2> QED
    BY <1>3, <2>1 DEF Kept
<1>5. Consistent(sess, order)
  BY <1>2, <1>3, <1>4 DEF Consistent
<1> HIDE DEF r
<1> QED
  BY <1>1, <1>2, <1>3, <1>5 DEF r

LEMMA InjectiveTail ==
    ASSUME NEW q \in Seq(Ids), q # <<>>, IsInjective(q)
    PROVE  /\ Tail(q) \in Seq(Ids) /\ IsInjective(Tail(q)) /\ Head(q) \in Range(q)
           /\ Range(Tail(q)) = Range(q) \ {Head(q)}
<1>1. /\ Head(q) = q[1] /\ Tail(q) \in Seq(Ids)
      /\ \A i \in 1..(Len(q) - 1) : Tail(q)[i] = q[i + 1]
      /\ Len(q) \in Nat \ {0} /\ DOMAIN q = 1..Len(q) /\ DOMAIN Tail(q) = 1..(Len(q) - 1)
  OBVIOUS
<1> DEFINE r == Tail(q)
<1> HIDE DEF r
<1>2. ASSUME NEW i \in DOMAIN r PROVE i \in Int /\ i + 1 \in DOMAIN q /\ i + 1 # 1 /\ r[i] = q[i + 1]
  BY <1>1 DEF r
<1>3. ASSUME NEW i \in DOMAIN q, i # 1 PROVE q[i] \in Range(r)
  <2>1. i - 1 \in DOMAIN r /\ r[i - 1] = q[i]
    BY <1>1, <1>3 DEF r
  <2> QED
    BY <2>1 DEF Range
<1>4. 1 \in DOMAIN q
  BY <1>1
<1>5. IsInjective(r)
  <2> SUFFICES ASSUME NEW i \in DOMAIN r, NEW j \in DOMAIN r, r[i] = r[j] PROVE i = j
    BY DEF IsInjective
  <2>1. i + 1 = j + 1
    BY <1>2 DEF IsInjective
  <2> QED
    BY <1>2, <2>1
<1>6. Range(r) = Range(q) \ {q[1]}
  <2>1. ASSUME NEW i \in DOMAIN r PROVE r[i] \in Range(q) \ {q[1]}
    BY <1>2, <1>4 DEF IsInjective, Range
  <2> QED
    BY <1>3, <2>1 DEF Range
<1> QED
  BY <1>1, <1>4, <1>5, <1>6 DEF r, Range

LEMMA InjectiveAppend ==
    ASSUME NEW q \in Seq(Ids), IsInjective(q), NEW d \in Ids, d \notin Range(q)
    PROVE  /\ Append(q, d) \in Seq(Ids) /\ IsInjective(Append(q, d)) /\ Append(q, d) # <<>>
           /\ Range(Append(q, d)) = Range(q) \cup {d}
<1> DEFINE r == Append(q, d)
<1>1. /\ r \in Seq(Ids) /\ DOMAIN r = 1..(Len(q) + 1) /\ DOMAIN q = 1..Len(q) /\ Len(q) \in Nat
      /\ \A i \in 1..Len(q) : r[i] = q[i]
      /\ r[Len(q) + 1] = d
  OBVIOUS
<1>2. r # <<>>
  BY AppendKnown
<1> HIDE DEF r
<1>3. ASSUME NEW i \in DOMAIN r PROVE (i \in DOMAIN q /\ r[i] = q[i]) \/ (i = Len(q) + 1 /\ r[i] = d)
  BY <1>1
<1>4. IsInjective(r)
  <2> SUFFICES ASSUME NEW i \in DOMAIN r, NEW j \in DOMAIN r, r[i] = r[j] PROVE i = j
    BY DEF IsInjective
  <2>1. \A k \in DOMAIN q : q[k] # d
    BY DEF Range
  <2> QED
    BY <1>3, <2>1 DEF IsInjective
<1>5. \A i \in DOMAIN q : i \in DOMAIN r /\ r[i] = q[i]
  BY <1>1
<1>6. Len(q) + 1 \in DOMAIN r
  BY <1>1
<1>7. Range(r) = Range(q) \cup {d}
  BY <1>1, <1>3, <1>5, <1>6 DEF Range
<1> QED
  BY <1>1, <1>2, <1>4, <1>7 DEF r

LEMMA InjectiveFinite ==
    ASSUME NEW q \in Seq(Ids), IsInjective(q)
    PROVE  IsFiniteSet(Range(q)) /\ Cardinality(Range(q)) \in Nat
<1>1. IsFiniteSet(DOMAIN q)
  BY FS_Interval
<1>2. q \in Surjection(DOMAIN q, Range(q))
  BY DEF Surjection, Range
<1>3. IsFiniteSet(Range(q))
  BY <1>1, <1>2, FS_Surjection
<1> QED
  BY <1>3, FS_CardinalityType

LEMMA InsertIs ==
    ASSUME NEW a, NEW b, Consistent(a, b), NEW d \in Ids, Stashed(sync[d]) \in Session,
           Cardinality(Range(b)) <= MaxRetained
    PROVE  LET r == Insert(a, b, d)
           IN  /\ Consistent(r.sessions, r.lru)
               /\ r = [sessions |-> r.sessions, lru |-> r.lru, evicted |-> r.evicted]
               /\ r.evicted = {} \/ \E e \in Ids : r.evicted = {e}
               /\ Range(r.lru) \subseteq Range(b) \cup {d}
               /\ Cardinality(Range(r.lru)) <= MaxRetained
               /\ \A x \in Range(r.lru) :
                     r.sessions[x] = IF x = d THEN Stashed(sync[d]) ELSE a[x]
<1> DEFINE kept == {x \in Ids : a[x].kept} \cup {d}
           ordered == Append(Without(b, d), d)
           gone == Evicted(kept, ordered)
           sess == [x \in Ids |-> IF x \in gone THEN NoSession
                                  ELSE IF x = d THEN Stashed(sync[d]) ELSE a[x]]
           order == IF gone = {} THEN ordered ELSE Tail(ordered)
           r == Insert(a, b, d)
<1>1. r = [sessions |-> sess, lru |-> order, evicted |-> gone]
  BY DEF Insert
<1>2. r.sessions = sess /\ r.lru = order /\ r.evicted = gone
  BY <1>1
<1>3. /\ Without(b, d) \in Seq(Ids) /\ IsInjective(Without(b, d))
      /\ Range(Without(b, d)) = Range(b) \ {d}
  BY WithoutKeeps DEF Consistent
<1>4. /\ ordered \in Seq(Ids) /\ IsInjective(ordered) /\ ordered # <<>>
      /\ Range(ordered) = Range(b) \cup {d}
  BY <1>3, InjectiveAppend
<1>5. kept = Range(ordered)
  BY <1>4 DEF Consistent, Kept
<1>6. /\ IsFiniteSet(Range(b)) /\ Cardinality(Range(b)) \in Nat
      /\ IsFiniteSet(Range(ordered)) /\ Cardinality(Range(ordered)) \in Nat
  BY <1>4, InjectiveFinite DEF Consistent
<1>7. Cardinality(Range(ordered)) <= Cardinality(Range(b)) + 1
  BY <1>4, <1>6, FS_AddElement
<1>8. /\ Tail(ordered) \in Seq(Ids) /\ IsInjective(Tail(ordered)) /\ Head(ordered) \in Range(ordered)
      /\ Range(Tail(ordered)) = Range(ordered) \ {Head(ordered)}
  BY <1>4, InjectiveTail
<1>9. MaxRetained \in Nat
  BY SessionConstants DEF MaxRetained
<1>10. gone = IF Cardinality(kept) > MaxRetained THEN {Head(ordered)} ELSE {}
  BY DEF Evicted
<1> HIDE DEF gone, ordered, kept
<1>11. /\ order \in Seq(Ids) /\ IsInjective(order) /\ Range(order) = Range(ordered) \ gone
       /\ Cardinality(Range(order)) <= MaxRetained
       /\ gone = {} \/ \E e \in Ids : gone = {e}
  <2>1. CASE Cardinality(kept) > MaxRetained
    <3>1. gone = {Head(ordered)} /\ order = Tail(ordered)
      BY <1>10, <2>1
    <3>2. Cardinality(Range(ordered) \ {Head(ordered)}) = Cardinality(Range(ordered)) - 1
      BY <1>6, <1>8, FS_RemoveElement
    <3>3. Cardinality(Range(order)) <= MaxRetained
      <4>1. Range(order) = Range(ordered) \ {Head(ordered)}
        BY <1>8, <3>1
      <4>2. PICK n, k : n = Cardinality(Range(ordered)) /\ k = Cardinality(Range(b))
        OBVIOUS
      <4>3. n \in Nat /\ k \in Nat /\ n <= k + 1 /\ k <= MaxRetained
        BY <1>6, <1>7, <4>2
      <4>4. n - 1 <= MaxRetained
        BY <1>9, <4>3
      <4> QED
        BY <3>2, <4>1, <4>2, <4>4
    <3>4. Head(ordered) \in Ids
      BY <1>4
    <3> QED
      BY <1>8, <3>1, <3>3, <3>4
  <2>2. CASE ~(Cardinality(kept) > MaxRetained)
    <3>1. gone = {} /\ order = ordered
      BY <1>10, <2>2
    <3>2. Cardinality(Range(ordered)) <= MaxRetained
      BY <1>5, <1>6, <1>9, <2>2
    <3> QED
      BY <1>4, <3>1, <3>2
  <2> QED
    BY <2>1, <2>2
<1> HIDE DEF order
<1>12. sess \in [Ids -> Session \cup {NoSession}]
  BY DEF Consistent
<1>13. \A x \in Range(order) : sess[x] = IF x = d THEN Stashed(sync[d]) ELSE a[x]
  <2>1. \A x \in Range(order) : x \in Ids /\ x \notin gone
    BY <1>11 DEF Range
  <2> QED
    BY <2>1
<1>14. Kept(sess) = Range(order)
  <2>1. ASSUME NEW x \in Ids PROVE sess[x].kept <=> x \in Range(order)
    <3>1. CASE x \in gone
      <4>1. sess[x] = NoSession
        BY <3>1
      <4>2. ~sess[x].kept
        BY <4>1, KeptIs
      <4> QED
        BY <1>11, <3>1, <4>2
    <3>2. CASE x \notin gone /\ x = d
      <4>1. sess[x] = Stashed(sync[d])
        BY <3>2
      <4>2. sess[x].kept
        BY <4>1, SessionFields
      <4> QED
        BY <1>4, <1>11, <3>2, <4>2
    <3>3. CASE x \notin gone /\ x # d
      <4>1. sess[x] = a[x]
        BY <3>3
      <4>2. a[x].kept <=> x \in Range(b)
        BY DEF Consistent, Kept
      <4>3. x \in Range(order) <=> x \in Range(b)
        BY <1>4, <1>11, <3>3
      <4> QED
        BY <4>1, <4>2, <4>3
    <3> QED
      BY <3>1, <3>2, <3>3
  <2>2. Range(order) \subseteq Ids
    BY <1>11 DEF Range
  <2> HIDE DEF sess
  <2> QED
    BY <2>1, <2>2 DEF Kept
<1> HIDE DEF sess, r
<1>15. Consistent(sess, order)
  BY <1>11, <1>12, <1>14 DEF Consistent
<1> QED
  BY <1>1, <1>2, <1>4, <1>11, <1>13, <1>15 DEF r

(* What may be found in a retained session after a step of the view.       *)
Copy(x, s) ==
    \/ x = pane.shown /\ s = Stashed(sync[x])
    \/ x \in Retained /\ s = sessions[x]

LEMMA StashedIs ==
    ASSUME ServerInv, SyncInv, PaneInv, NEW d \in Ids
    PROVE  /\ GoodSession(d, Stashed(sync[d]), Version(d), txn)
           /\ Stashed(sync[d]) \in Session
           /\ Stashed(sync[d]).pending = sync[d].pending
<1>1. GoodSync(d, sync[d], Version(d), txn) /\ sync[d] \in Sync
  BY DEF SyncInv, GoodSync
<1>2. PICK c, q : c = sync[d].confirmed /\ q = sync[d].pending
  OBVIOUS
<1>3. /\ c \in Versions \cup {Default} /\ q \in Seq(Pending) /\ c <= Version(d)
      /\ GoodPending(d, q, txn)
  BY <1>1, <1>2, SyncFields DEF GoodSync
<1>4. pane.dirty \in BOOLEAN /\ pane.path \in Files \cup {NoFile} /\ pane.text \in SUBSET Txns
  BY DEF PaneInv, Pane
<1>5. PICK b, f, x : b = pane.dirty /\ f = pane.path /\ x = pane.text
  OBVIOUS
<1> DEFINE s == [kept |-> TRUE, confirmed |-> c, pending |-> q, dirty |-> b, path |-> f, text |-> x]
<1>6. Stashed(sync[d]) = s
  BY <1>2, <1>5 DEF Stashed
<1>7. b \in BOOLEAN /\ f \in Files \cup {NoFile} /\ x \in SUBSET Txns
  BY <1>4, <1>5
<1>8. s \in Session /\ s.pending = q /\ s.confirmed = c
  BY <1>3, <1>7 DEF Session
<1> HIDE DEF s
<1> QED
  BY <1>2, <1>3, <1>6, <1>8 DEF GoodSession

LEMMA StoreIs ==
    ASSUME StoreInv
    PROVE  /\ Consistent(sessions, lru) /\ Retained = Range(lru) /\ Retained \subseteq Ids
           /\ IsFiniteSet(Retained) /\ Cardinality(Retained) <= MaxRetained
           /\ pane.shown \notin Retained
<1>1. /\ Consistent(sessions, lru) /\ Retained = Range(lru) /\ Retained \subseteq Ids
      /\ Cardinality(Retained) <= MaxRetained /\ pane.shown \notin Retained
  BY DEF StoreInv, StoreIsConsistent, Consistent, Kept, Retained
<1>2. IsFiniteSet(Range(lru))
  BY <1>1, InjectiveFinite DEF Consistent
<1> QED
  BY <1>1, <1>2

LEMMA StashIs ==
    ASSUME ServerInv, SyncInv, PaneInv, StoreInv, pane.phase = "open",
           NEW a, NEW b, Consistent(a, b), Range(b) \subseteq Retained,
           \A x \in Range(b) : a[x] = sessions[x]
    PROVE  LET r == Insert(a, b, pane.shown)
           IN  /\ Consistent(r.sessions, r.lru)
               /\ r = [sessions |-> r.sessions, lru |-> r.lru, evicted |-> r.evicted]
               /\ r.evicted = {} \/ \E e \in Ids : r.evicted = {e}
               /\ Cardinality(Range(r.lru)) <= MaxRetained
               /\ Range(r.lru) \subseteq Range(b) \cup {pane.shown}
               /\ \A x \in Range(r.lru) : Copy(x, r.sessions[x])
<1>1. PICK d \in Ids : d = pane.shown
  BY DEF PaneInv
<1>2. Stashed(sync[d]) \in Session
  BY StashedIs
<1>3. Cardinality(Range(b)) <= MaxRetained
  <2>1. IsFiniteSet(Retained) /\ Cardinality(Retained) <= MaxRetained
    BY StoreIs
  <2>2. Cardinality(Range(b)) <= Cardinality(Retained) /\ IsFiniteSet(Range(b))
    BY <2>1, FS_Subset
  <2>3. Cardinality(Range(b)) \in Nat /\ Cardinality(Retained) \in Nat /\ MaxRetained \in Nat
    BY <2>1, <2>2, FS_CardinalityType, SessionConstants DEF MaxRetained
  <2> QED
    BY <2>1, <2>2, <2>3
<1>4. PICK r : r = Insert(a, b, d)
  OBVIOUS
<1>5. /\ Consistent(r.sessions, r.lru)
      /\ r = [sessions |-> r.sessions, lru |-> r.lru, evicted |-> r.evicted]
      /\ r.evicted = {} \/ \E e \in Ids : r.evicted = {e}
      /\ Range(r.lru) \subseteq Range(b) \cup {d}
      /\ Cardinality(Range(r.lru)) <= MaxRetained
      /\ \A x \in Range(r.lru) : r.sessions[x] = IF x = d THEN Stashed(sync[d]) ELSE a[x]
  BY <1>2, <1>3, <1>4, InsertIs
<1>6. \A x \in Range(r.lru) : Copy(x, r.sessions[x])
  BY <1>1, <1>5 DEF Copy
<1> QED
  BY <1>1, <1>4, <1>5, <1>6

LEMMA CopyIs ==
    ASSUME ServerInv, SyncInv, PaneInv, StoreInv, NEW x \in Ids, NEW s, Copy(x, s)
    PROVE  /\ GoodSession(x, s, Version(x), txn) /\ Given(x, made)
           /\ Behind(x) => \A p \in Known(s.pending) : Covered(x, p.base + 1)
<1>1. CASE x = pane.shown /\ s = Stashed(sync[x])
  <2>1. pane.phase = "open"
    BY <1>1, IdFields DEF PaneInv
  <2>2. GoodSession(x, s, Version(x), txn) /\ s.pending = sync[x].pending
    BY <1>1, StashedIs
  <2>3. Given(x, made)
    BY <1>1, <2>1 DEF PaneInv
  <2> QED
    BY <1>1, <2>2, <2>3 DEF Behind
<1>2. CASE x \in Retained /\ s = sessions[x]
  BY <1>2 DEF StoreInv, Behind
<1> QED
  BY <1>1, <1>2 DEF Copy

(* A step of the view that leaves the server alone.                        *)
LEMMA StoreCopied ==
    ASSUME ServerInv, SyncInv, PaneInv, StoreInv, UNCHANGED <<link, losses, server, txn>>,
           NEW a, NEW b, sessions' = a, lru' = b, Consistent(a, b),
           Cardinality(Range(b)) <= MaxRetained, pane'.shown \notin Range(b),
           \A x \in Range(b) : Copy(x, a[x])
    PROVE  /\ StoreInv' /\ Retained' = Range(b)
           /\ \A x \in Range(b) : Behind(x) =>
                  \A p \in Known(a[x].pending) : Covered(x, p.base + 1)
<1>1. ServerInv' /\ \A e \in Ids : Version(e)' = Version(e)
  BY StillServer
<1>2. Retained' = Range(b)
  BY DEF Retained, Consistent, Kept
<1>3. \A x \in Range(b) : x \in Ids
  BY DEF Consistent, Range
<1>4. ASSUME NEW x \in Range(b)
      PROVE  /\ GoodSession(x, a[x], Version(x)', txn') /\ Given(x, made')
             /\ Behind(x) => \A p \in Known(a[x].pending) : Covered(x, p.base + 1)
  <2>1. /\ GoodSession(x, a[x], Version(x), txn) /\ Given(x, made)
        /\ Behind(x) => \A p \in Known(a[x].pending) : Covered(x, p.base + 1)
    BY <1>3, CopyIs
  <2>2. txn' = txn /\ made' = made /\ Version(x)' = Version(x)
    BY <1>1, <1>3 DEF server
  <2> QED
    BY <2>1, <2>2
<1>5. StoreIsConsistent'
  BY <1>2 DEF StoreIsConsistent, Consistent
<1>6. StoreInv'
  BY <1>2, <1>4, <1>5 DEF StoreInv, Consistent
<1> QED
  BY <1>2, <1>4, <1>6

LEMMA SameVersionsCover ==
    ASSUME ServerInv, UNCHANGED <<link, losses, server, txn>>, NEW e \in Ids,
           Known(channel) \subseteq Known(channel')
    PROVE  \A n : Covered(e, n) => Covered(e, n)'
<1>1. Version(e)' = Version(e)
  BY StillServer
<1> QED
  BY <1>1 DEF Covered

LEMMA ActivateKeeps ==
    ASSUME SessionsInv, NEW d \in Ids, activate_document(d)
    PROVE  SessionsInv'
<1> USE DEF SessionsInv
<1> DEFINE rest == Dropped(Store, d)
           st == Insert(rest.sessions, rest.lru, pane.shown)
<1>1. /\ UNCHANGED <<link, losses, server, txn>> /\ UNCHANGED <<channel, wire, events>>
      /\ held' = held /\ registered' = registered /\ text' = text /\ made' = made
      /\ pane.phase = "open" /\ d \in Retained
      /\ sessions' = st.sessions /\ lru' = st.lru
      /\ pane' = [pane EXCEPT !.shown = d, !.dirty = sessions[d].dirty, !.text = sessions[d].text]
      /\ sync' = [sync EXCEPT ![d] = install(sessions[d].confirmed, sessions[d].pending)]
  BY DEF activate_document, Install, server
<1>2. ServerInv' /\ Grows /\ \A e \in Ids : Version(e)' = Version(e)
  BY <1>1, StillServer
<1>3. /\ Consistent(sessions, lru) /\ Retained = Range(lru) /\ pane.shown \notin Retained
  BY StoreIs
<1>4. /\ Consistent(rest.sessions, rest.lru) /\ Range(rest.lru) = Range(lru) \ {d}
      /\ \A x \in Range(rest.lru) : rest.sessions[x] = sessions[x]
  <2>1. /\ Consistent(rest.sessions, rest.lru) /\ Range(rest.lru) = Range(lru) \ {d}
        /\ \A x \in Ids \ {d} : rest.sessions[x] = sessions[x]
    BY <1>3, DroppedIs DEF Store
  <2>2. Range(rest.lru) \subseteq Ids \ {d}
    BY <1>3, <2>1, StoreIs
  <2> HIDE DEF rest
  <2> QED
    BY <2>1, <2>2
<1> HIDE DEF rest
<1>5. PICK a, b : a = st.sessions /\ b = st.lru
  OBVIOUS
<1>6. /\ Consistent(a, b) /\ Cardinality(Range(b)) <= MaxRetained
      /\ Range(b) \subseteq Range(rest.lru) \cup {pane.shown}
      /\ \A x \in Range(b) : Copy(x, a[x])
  <2>1. Range(rest.lru) \subseteq Retained
    BY <1>3, <1>4
  <2> QED
    BY <1>1, <1>4, <1>5, <2>1, StashIs
<1>7. d \notin Range(b)
  BY <1>1, <1>3, <1>4, <1>6
<1>8. GoodSession(d, sessions[d], Version(d), txn) /\ Given(d, made) /\ sessions[d] \in Session
  BY <1>1 DEF StoreInv, GoodSession
<1>9. pane' \in Pane /\ pane'.phase = "open" /\ pane'.shown = d
  <2>1. PICK y, z : y = sessions[d].dirty /\ z = sessions[d].text
    OBVIOUS
  <2>2. y \in BOOLEAN /\ z \in SUBSET Txns
    BY <1>8, <2>1, SessionFields
  <2>3. pane' = [pane EXCEPT !.shown = d, !.dirty = y, !.text = z]
    BY <1>1, <2>1
  <2> QED
    BY <1>1, <2>2, <2>3 DEF PaneInv, Pane
<1>10. PaneInv'
  BY <1>1, <1>8, <1>9 DEF PaneInv
<1>11. /\ StoreInv' /\ Retained' = Range(b) /\ sessions' = a
       /\ \A x \in Range(b) : Behind(x) =>
              \A p \in Known(a[x].pending) : Covered(x, p.base + 1)
  <2>1. sessions' = a /\ lru' = b /\ pane'.shown \notin Range(b)
    BY <1>1, <1>5, <1>7, <1>9
  <2> QED
    BY <1>1, <1>6, <2>1, StoreCopied
<1>12. PICK r : /\ r = install(sessions[d].confirmed, sessions[d].pending)
                /\ GoodSync(d, r, Version(d), txn) /\ r.pending = sessions[d].pending
                /\ \/ r.optimistic <= Version(d)
                   \/ \E p \in Known(sessions[d].pending) : r.optimistic = p.base + 1
  <2>1. PICK c, q, v, n : /\ c = sessions[d].confirmed /\ q = sessions[d].pending
                          /\ v = Version(d) /\ n = txn
    OBVIOUS
  <2>2. /\ c \in Versions \cup {Default} /\ q \in Seq(Pending) /\ v \in Nat /\ n \in 0..MaxEdits
        /\ c <= v /\ v <= n + 1 /\ GoodPending(d, q, n)
    BY <1>8, <2>1, SessionFields, VersionIs DEF GoodSession, ServerInv
  <2>3. /\ GoodSync(d, install(c, q), v, n) /\ install(c, q).pending = q
        /\ \/ install(c, q).optimistic = c
           \/ \E p \in Known(q) : install(c, q).optimistic = p.base + 1
    BY <2>2, InstallIs, ZenonT(60)
  <2> QED
    BY <2>1, <2>2, <2>3
<1>13. SyncInv' /\ sync'[d] = r
  <2>1. GoodSync(d, r, Version(d)', txn')
    BY <1>1, <1>2, <1>12
  <2> QED
    BY <1>1, <1>2, <1>12, <2>1, SyncChanged
<1>14. TrackInv'
  <2> SUFFICES ASSUME NEW e \in held, ~Shared(e) PROVE Repairing(e)' \/ Behind(e)'
    BY <1>1 DEF TrackInv
  <2>1. e \in Ids
    BY DEF ServerInv
  <2>2. Repairing(e) => Repairing(e)'
    BY <1>1 DEF Repairing
  <2>3. \A n : Covered(e, n) => Covered(e, n)'
    BY <1>1, <2>1, SameVersionsCover
  <2>4. ASSUME Behind(e) PROVE Behind(e)'
    <3>1. e \in Range(b) => \A p \in Known(a[e].pending) : Covered(e, p.base + 1)'
      BY <1>11, <2>3, <2>4
    <3>2. CASE e # d
      BY <1>9, <1>11, <3>1, <3>2 DEF Behind
    <3>3. CASE e = d
      <4>1. \A p \in Known(r.pending) : Covered(e, p.base + 1)
        BY <1>1, <1>12, <2>4, <3>3 DEF Behind
      <4>2. Covered(e, r.optimistic)
        BY <1>1, <1>12, <2>4, <3>3 DEF Behind, Covered
      <4> QED
        BY <1>9, <1>11, <1>13, <2>3, <3>1, <3>3, <4>1, <4>2 DEF Behind
    <3> QED
      BY <3>2, <3>3
  <2> QED
    BY <2>2, <2>4 DEF TrackInv
<1>15. ChannelInv' /\ HeldInv'
  BY <1>1 DEF ChannelInv, HeldInv
<1>16. EventsInv'
  BY <1>1, <1>2, EventsUnchanged
<1> QED
  BY <1>2, <1>10, <1>11, <1>13, <1>14, <1>15, <1>16

LEMMA Listed ==
    ASSUME NEW T, NEW n \in Nat, NEW f \in [1..n -> T]
    PROVE  f \in Seq(T)
OBVIOUS

(* The first messages of a list of closes.                                 *)
LEMMA FirstOf ==
    ASSUME NEW q \in Seq(Message), NEW k \in Int, k <= Len(q),
           \A m \in Known(q) : m.kind = "close"
    PROVE  /\ SubSeq(q, 1, k) \in Seq(Message)
           /\ Len(SubSeq(q, 1, k)) = IF k > 0 THEN k ELSE 0
           /\ \A m \in Known(SubSeq(q, 1, k)) : m.kind = "close"
<1>1. CASE k > 0
  <2>1. /\ SubSeq(q, 1, k) \in Seq(Message) /\ Len(SubSeq(q, 1, k)) = k
        /\ \A i \in 1..k : SubSeq(q, 1, k)[i] = q[i]
    BY <1>1
  <2>2. DOMAIN SubSeq(q, 1, k) = 1..k /\ \A i \in 1..k : i \in DOMAIN q
    BY <1>1, <2>1
  <2> QED
    BY <1>1, <2>1, <2>2 DEF Known
<1>2. CASE ~(k > 0)
  <2>1. SubSeq(q, 1, k) = <<>>
    BY <1>2
  <2>2. <<>> \in Seq(Message)
    OBVIOUS
  <2>3. Len(SubSeq(q, 1, k)) = 0 /\ Known(SubSeq(q, 1, k)) = {}
    BY <2>1, EmptyKnown
  <2> QED
    BY <1>2, <2>1, <2>2, <2>3
<1> QED
  BY <1>1, <1>2

LEMMA ClosePaneKeeps ==
    ASSUME SessionsInv, ClosePane
    PROVE  SessionsInv'
<1> USE DEF SessionsInv
<1> DEFINE close(d, f) == [kind |-> "close", doc |-> d, force |-> f]
           first == IF pane.phase = "open" THEN <<close(pane.shown, FALSE)>> ELSE <<>>
           others == [i \in DOMAIN lru |-> close(lru[i], TRUE)]
           all == first \o others
           room == Capacity - Len(channel)
           k == IF Len(all) < room THEN Len(all) ELSE room
<1>1. /\ UNCHANGED <<link, losses, server, txn>> /\ UNCHANGED <<wire, events, sync>>
      /\ held' = held /\ registered' = registered /\ text' = text /\ made' = made
      /\ pane' = [Blank EXCEPT !.phase = "closed"]
      /\ sessions' = [d \in Ids |-> NoSession] /\ lru' = <<>>
      /\ channel' = IF link = "up" THEN channel \o SubSeq(all, 1, k) ELSE channel
  BY DEF ClosePane, server
<1>2. ServerInv' /\ Grows
  BY <1>1, StillServer
<1>3. first \in Seq(Message) /\ \A m \in Known(first) : m.kind = "close"
  <2>1. CASE pane.phase = "open"
    <3>1. PICK m \in Message : m = close(pane.shown, FALSE) /\ m.kind = "close"
      <4>1. pane.shown \in Ids
        BY <2>1 DEF PaneInv
      <4>2. close(pane.shown, FALSE) \in Message /\ close(pane.shown, FALSE).kind = "close"
        BY <4>1 DEF Message
      <4> HIDE DEF close
      <4> QED
        BY <4>2
    <3>2. first = <<m>>
      BY <2>1, <3>1
    <3> QED
      BY <3>1, <3>2, OneKnown
  <2>2. CASE pane.phase # "open"
    <3>1. first = <<>>
      BY <2>2
    <3> QED
      BY <3>1, EmptyKnown
  <2> QED
    BY <2>1, <2>2
<1>4. others \in Seq(Message) /\ \A m \in Known(others) : m.kind = "close"
  <2>1. lru \in Seq(Ids) /\ Len(lru) \in Nat /\ DOMAIN lru = 1..Len(lru)
    BY DEF StoreInv
  <2>2. \A i \in DOMAIN lru : close(lru[i], TRUE) \in Message /\ close(lru[i], TRUE).kind = "close"
    BY <2>1 DEF Message
  <2> HIDE DEF close
  <2>3. DOMAIN others = DOMAIN lru /\ \A i \in DOMAIN lru : others[i] = close(lru[i], TRUE)
    OBVIOUS
  <2>4. others \in Seq(Message)
    <3>1. others = [i \in 1..Len(lru) |-> close(lru[i], TRUE)]
      BY <2>1
    <3>2. \A i \in 1..Len(lru) : close(lru[i], TRUE) \in Message
      BY <2>1, <2>2
    <3>3. others \in [1..Len(lru) -> Message]
      BY <3>1, <3>2
    <3> HIDE DEF others
    <3> QED
      BY <2>1, <3>3, Listed
  <2> QED
    BY <2>2, <2>3, <2>4 DEF Known
<1> HIDE DEF first, others
<1>5. all \in Seq(Message) /\ Len(all) \in Nat /\ \A m \in Known(all) : m.kind = "close"
  <2>1. all \in Seq(Message) /\ Known(all) = Known(first) \union Known(others)
    BY <1>3, <1>4, Joined, JoinedKnown
  <2> QED
    BY <1>3, <1>4, <2>1
<1> HIDE DEF all
<1>6. channel \in Seq(Message) /\ Len(channel) \in Nat /\ Len(channel) <= Capacity + 1
  BY DEF ChannelInv
<1>7. k \in Int /\ k <= Len(all) /\ k <= Capacity - Len(channel)
  BY <1>5, <1>6, SessionConstants
<1> HIDE DEF k, room
<1>8. PICK ms \in Seq(Message) :
         /\ ms = SubSeq(all, 1, k) /\ Len(ms) = IF k > 0 THEN k ELSE 0
         /\ \A m \in Known(ms) : m.kind = "close"
  <2>1. /\ SubSeq(all, 1, k) \in Seq(Message)
        /\ Len(SubSeq(all, 1, k)) = IF k > 0 THEN k ELSE 0
        /\ \A m \in Known(SubSeq(all, 1, k)) : m.kind = "close"
    BY <1>5, <1>7, FirstOf
  <2> QED
    BY <2>1
<1>9. ChannelInv'
  <2>1. CASE link = "up"
    <3>1. channel' = channel \o ms
      BY <1>1, <1>8, <2>1
    <3>2. Len(channel) + Len(ms) <= Capacity + 1
      BY <1>6, <1>7, <1>8, SessionConstants
    <3>3. \A m \in Known(ms) : m.kind # "edit"
      BY <1>8
    <3> QED
      BY <1>1, <3>1, <3>2, <3>3, ChannelJoined
  <2>2. CASE link # "up"
    BY <1>1, <2>2 DEF ChannelInv
  <2> QED
    BY <2>1, <2>2
<1>10. HeldInv'
  BY <1>1 DEF HeldInv
<1>11. pane' \in Pane /\ pane'.phase = "closed" /\ pane'.shown = NoDocument
  BY <1>1 DEF Blank, Pane
<1>12. PaneInv'
  BY <1>1, <1>11 DEF PaneInv
<1>13. Retained' = {} /\ Range(lru') = {} /\ IsInjective(lru')
  <2>1. \A d \in Ids : ~sessions'[d].kept
    BY <1>1, KeptIs
  <2> QED
    BY <1>1, <2>1 DEF Retained, Range, IsInjective
<1>14. StoreInv'
  <2>1. Cardinality(Retained') <= MaxRetained
    BY <1>13, FS_EmptySet, SessionConstants DEF MaxRetained
  <2>2. StoreIsConsistent'
    BY <1>13, <2>1 DEF StoreIsConsistent
  <2> QED
    BY <1>1, <1>13, <2>2 DEF StoreInv
<1>15. TrackInv'
  <2>1. ASSUME NEW e \in held PROVE Behind(e)'
    <3>1. e # pane'.shown
      BY <1>11, IdFields DEF ServerInv
    <3> QED
      BY <1>13, <3>1 DEF Behind
  <2> QED
    BY <1>1, <2>1 DEF TrackInv
<1>16. SyncInv' /\ EventsInv'
  BY <1>1, <1>2, SyncStays, EventsUnchanged
<1> QED
  BY <1>2, <1>9, <1>10, <1>12, <1>14, <1>15, <1>16

(* The view takes the first event.                                         *)
Taking(m) ==
    /\ events # <<>> /\ m = Head(events) /\ events' = Tail(events)
    /\ UNCHANGED <<link, losses, server, wire, txn>>

LEMMA TakingIs ==
    ASSUME SessionsInv, NEW m, Taking(m)
    PROVE  /\ m \in Event /\ GoodEvent(m, Version(m.doc), made)
           /\ ServerInv' /\ Grows /\ \A e \in Ids : Version(e)' = Version(e)
           /\ UNCHANGED <<link, losses, server, txn>>
           /\ held' = held /\ registered' = registered /\ text' = text /\ made' = made /\ txn' = txn
           /\ EventsInv'
           /\ channel' = channel \/ link = "up" => HeldInv'
           /\ channel' = channel => ChannelInv'
           /\ Known(channel) \subseteq Known(channel') =>
                  \A e : m.kind # "snapshot" \/ m.doc # e => (Repairing(e) => Repairing(e)')
<1> USE DEF SessionsInv
<1>1. /\ UNCHANGED <<link, losses, server, txn>> /\ wire' = wire /\ events' = Tail(events)
      /\ held' = held /\ registered' = registered /\ text' = text /\ made' = made /\ txn' = txn
      /\ link' = link
  BY DEF Taking, server
<1>2. ServerInv' /\ Grows /\ \A e \in Ids : Version(e)' = Version(e)
  BY <1>1, StillServer
<1>3. /\ m \in Event /\ events' \in Seq(Event) /\ Len(events') = Len(events) - 1
      /\ Known(events) = Known(events') \union {m} /\ Len(events) \in Nat /\ Len(events) <= Capacity
  <2>1. events \in Seq(Event)
    BY DEF EventsInv
  <2> QED
    BY <1>1, <2>1, TailKnown DEF EventsInv, Taking
<1>4. EventsInv'
  <2>1. Len(events') <= Capacity
    BY <1>3, SessionConstants
  <2>2. \A x \in Known(wire') \union Known(events') : GoodEvent(x, Version(x.doc)', made')
    BY <1>1, <1>2, <1>3, EventsStay
  <2> QED
    BY <1>1, <1>3, <2>1, <2>2 DEF EventsInv
<1>5. GoodEvent(m, Version(m.doc), made)
  BY <1>3 DEF EventsInv
<1>6. channel' = channel \/ link = "up" => HeldInv'
  BY <1>1 DEF HeldInv
<1>7. channel' = channel => ChannelInv'
  BY <1>1 DEF ChannelInv
<1>8. ASSUME Known(channel) \subseteq Known(channel'), NEW e, m.kind # "snapshot" \/ m.doc # e,
             Repairing(e)
      PROVE  Repairing(e)'
  BY <1>1, <1>3, <1>8 DEF Repairing
<1> QED
  BY <1>1, <1>2, <1>3, <1>4, <1>5, <1>6, <1>7, <1>8

LEMMA DroppedEventKeeps ==
    ASSUME SessionsInv, NEW m, Taking(m), UNCHANGED <<sync, pane, store, channel>>,
           \/ pane.phase = "closed"
           \/ m.kind # "snapshot"
           \/ m.doc # pane.shown /\ m.doc \notin Retained
    PROVE  SessionsInv'
<1> USE DEF SessionsInv
<1>1. /\ ServerInv' /\ Grows /\ EventsInv' /\ HeldInv' /\ ChannelInv'
      /\ UNCHANGED <<link, losses, server, txn>> /\ held' = held
      /\ \A e : m.kind # "snapshot" \/ m.doc # e => (Repairing(e) => Repairing(e)')
  BY TakingIs
<1>2. TrackInv'
  <2> SUFFICES ASSUME NEW e \in held, ~Shared(e) PROVE Repairing(e)' \/ Behind(e)'
    BY <1>1 DEF TrackInv
  <2>1. e \in Ids
    BY DEF ServerInv
  <2>2. \A n : Covered(e, n) => Covered(e, n)'
    BY <1>1, <2>1, SameVersionsCover
  <2>3. Behind(e) => Behind(e)'
    BY <2>1, <2>2, BehindStays
  <2>4. CASE m.kind # "snapshot" \/ m.doc # e
    BY <1>1, <2>3, <2>4 DEF TrackInv
  <2>5. CASE m.kind = "snapshot" /\ m.doc = e
    <3>1. e # pane.shown /\ e \notin Retained
      <4>1. CASE pane.phase = "closed"
        <5>1. pane.shown = NoDocument /\ lru = <<>>
          BY <4>1 DEF PaneInv
        <5>2. Retained = {}
          BY <5>1, StoreIs DEF Range
        <5> QED
          BY <2>1, <5>1, <5>2, IdFields
      <4> QED
        BY <2>5, <4>1
    <3>2. Behind(e)
      BY <3>1 DEF Behind
    <3> QED
      BY <2>3, <3>2
  <2> QED
    BY <2>4, <2>5
<1>3. lru' = lru
  BY DEF store
<1> QED
  BY <1>1, <1>2, <1>3, SyncStays, PaneStays, StoreStays

(* A retained session is changed in place.                                 *)
LEMMA SessionChanged ==
    ASSUME ServerInv, PaneInv, StoreInv, UNCHANGED <<link, losses, server, txn>>,
           UNCHANGED <<pane, lru>>, NEW d \in Retained, NEW s,
           sessions' = [sessions EXCEPT ![d] = s], GoodSession(d, s, Version(d), txn)
    PROVE  /\ StoreInv' /\ Retained' = Retained
           /\ sessions'[d] = s /\ \A x \in Ids \ {d} : sessions'[x] = sessions[x]
<1>1. ServerInv' /\ \A e \in Ids : Version(e)' = Version(e)
  BY StillServer
<1>2. d \in Ids /\ s \in Session
  BY DEF Retained, GoodSession
<1>3. /\ sessions' \in [Ids -> Session \cup {NoSession}]
      /\ sessions'[d] = s /\ \A x \in Ids \ {d} : sessions'[x] = sessions[x]
  BY <1>2 DEF StoreInv
<1>4. Retained' = Retained
  <2>1. sessions'[d].kept
    BY <1>2, <1>3, SessionFields
  <2>2. ASSUME NEW x \in Ids PROVE sessions'[x].kept <=> sessions[x].kept
    <3>1. CASE x = d
      BY <2>1, <3>1 DEF Retained
    <3>2. CASE x # d
      BY <1>3, <3>2
    <3> QED
      BY <3>1, <3>2
  <2> QED
    BY <2>2 DEF Retained
<1>5. StoreIsConsistent'
  BY <1>4 DEF StoreInv, StoreIsConsistent
<1>6. ASSUME NEW x \in Retained
      PROVE  GoodSession(x, sessions'[x], Version(x)', txn') /\ Given(x, made')
  <2>1. x \in Ids /\ GoodSession(x, sessions[x], Version(x), txn) /\ Given(x, made)
    BY DEF StoreInv, Retained
  <2>2. Version(x)' = Version(x) /\ txn' = txn /\ made' = made
    BY <1>1, <2>1 DEF server
  <2> QED
    BY <1>3, <2>1, <2>2
<1> QED
  BY <1>3, <1>4, <1>5, <1>6 DEF StoreInv

LEMMA NoteAckKeeps ==
    ASSUME SessionsInv, NEW m, Taking(m), m.kind = "ack", NoteAck(m)
    PROVE  SessionsInv'
<1> USE DEF SessionsInv
<1>1. CASE m.doc \notin Retained
  <2>1. UNCHANGED <<sync, pane, store, channel>>
    BY <1>1 DEF NoteAck, store
  <2> QED
    BY <2>1, DroppedEventKeeps
<1>2. CASE m.doc \in Retained
  <2>1. /\ ServerInv' /\ Grows /\ EventsInv' /\ HeldInv' /\ ChannelInv'
        /\ UNCHANGED <<link, losses, server, txn>> /\ held' = held
        /\ \A e : Repairing(e) => Repairing(e)'
        /\ m \in Event /\ GoodEvent(m, Version(m.doc), made)
        /\ UNCHANGED <<sync, pane, lru, channel>>
    <3>1. UNCHANGED <<sync, pane, lru, channel>>
      BY DEF NoteAck
    <3> QED
      BY <3>1, TakingIs
  <2>2. PICK d \in Retained : d = m.doc
    BY <1>2
  <2>3. d \in Ids /\ GoodSession(d, sessions[d], Version(d), txn)
    BY DEF Retained, StoreInv
  <2>4. PICK v \in Versions : v = m.version /\ v <= Version(d)
    BY <2>1, <2>2, EventFields DEF GoodEvent
  <2>5. PICK s : s = [sessions[d] EXCEPT !.confirmed = v]
    OBVIOUS
  <2>6. s \in Session /\ s.confirmed = v /\ s.pending = sessions[d].pending
    BY <2>3, <2>5 DEF GoodSession, Session
  <2>7. GoodSession(d, s, Version(d), txn)
    BY <2>3, <2>4, <2>6 DEF GoodSession
  <2>8. sessions' = [sessions EXCEPT ![d] = s]
    BY <1>2, <2>2, <2>4, <2>5 DEF NoteAck
  <2>9. /\ StoreInv' /\ Retained' = Retained
        /\ sessions'[d] = s /\ \A x \in Ids \ {d} : sessions'[x] = sessions[x]
    BY <2>1, <2>7, <2>8, SessionChanged
  <2>10. \A x \in Ids : sessions'[x].pending = sessions[x].pending
    BY <2>6, <2>9
  <2>11. TrackInv'
    <3> SUFFICES ASSUME NEW e \in held, ~Shared(e) PROVE Repairing(e)' \/ Behind(e)'
      BY <2>1 DEF TrackInv
    <3>1. e \in Ids
      BY DEF ServerInv
    <3>2. \A n : Covered(e, n) => Covered(e, n)'
      BY <2>1, <3>1, SameVersionsCover
    <3>3. Behind(e) => Behind(e)'
      BY <2>1, <2>9, <2>10, <3>1, <3>2 DEF Behind
    <3> QED
      BY <2>1, <3>3 DEF TrackInv
  <2>12. SyncInv' /\ PaneInv'
    BY <2>1, SyncStays, PaneStays
  <2> QED
    BY <2>1, <2>9, <2>11, <2>12
<1> QED
  BY <1>1, <1>2

LEMMA LoadSnapshotKeeps ==
    ASSUME SessionsInv, NEW m, Taking(m), m.kind = "snapshot", LoadSnapshot(m)
    PROVE  SessionsInv'
<1> USE DEF SessionsInv
<1>1. /\ ServerInv' /\ Grows /\ EventsInv' /\ m \in Event
      /\ UNCHANGED <<link, losses, server, txn>> /\ held' = held /\ txn' = txn /\ made' = made
      /\ channel' = channel => HeldInv' /\ ChannelInv'
      /\ channel' = channel => \A e : m.doc # e => (Repairing(e) => Repairing(e)')
      /\ GoodEvent(m, Version(m.doc), made) /\ \A e \in Ids : Version(e)' = Version(e)
  BY TakingIs
<1>2. PICK d \in Ids : d = m.doc
  BY <1>1, EventFields
<1>3. PICK c \in Versions : c = m.version /\ c <= Version(d)
  BY <1>1, <1>2, EventFields DEF GoodEvent
<1>4. m.text \in SUBSET Txns
  BY <1>1, EventFields
<1>5. pane.shown \notin Retained
  BY StoreIs
<1>6. CASE pane.shown = d
  <2>1. /\ pane' = [pane EXCEPT !.text = m.text, !.dirty = FALSE]
        /\ sync' = [sync EXCEPT ![d] = install(c, <<>>)]
        /\ UNCHANGED <<store, channel>>
    BY <1>2, <1>3, <1>6 DEF LoadSnapshot
  <2>2. pane' \in Pane /\ pane'.phase = pane.phase /\ pane'.shown = pane.shown
    BY <1>4, <2>1 DEF PaneInv, Pane
  <2>3. sessions' = sessions /\ lru' = lru /\ Retained' = Retained
    BY <2>1 DEF store, Retained
  <2>4. PaneInv'
    BY <1>1, <2>2, <2>3 DEF PaneInv
  <2>5. StoreInv'
    <3>1. StoreIsConsistent'
      BY <2>2, <2>3 DEF StoreInv, StoreIsConsistent
    <3>2. \A x \in Retained : GoodSession(x, sessions[x], Version(x)', txn') /\ Given(x, made')
      BY <1>1 DEF StoreInv, Retained
    <3> QED
      BY <2>3, <3>1, <3>2 DEF StoreInv
  <2>6. PICK r : /\ r = install(c, <<>>) /\ GoodSync(d, r, Version(d), txn)
                 /\ r.pending = <<>> /\ r.optimistic = c
    <3>1. PICK v, n : v = Version(d) /\ n = txn
      OBVIOUS
    <3>2. v \in Nat /\ n \in 0..MaxEdits /\ c <= v /\ v <= n + 1
      BY <1>3, <3>1, VersionIs DEF ServerInv
    <3> QED
      BY <3>1, <3>2, LoadedIs
  <2>7. SyncInv' /\ sync'[d] = r /\ \A e \in Ids \ {d} : sync'[e] = sync[e]
    <3>1. GoodSync(d, r, Version(d)', txn')
      BY <1>1, <2>6
    <3> QED
      BY <1>1, <2>1, <2>6, <3>1, SyncChanged
  <2>8. TrackInv'
    <3> SUFFICES ASSUME NEW e \in held, ~Shared(e) PROVE Repairing(e)' \/ Behind(e)'
      BY <1>1 DEF TrackInv
    <3>1. e \in Ids
      BY DEF ServerInv
    <3>2. \A n : Covered(e, n) => Covered(e, n)'
      BY <1>1, <2>1, <3>1, SameVersionsCover
    <3>3. CASE e = d
      <4>1. Covered(e, r.optimistic)'
        BY <1>1, <1>3, <2>6, <3>3 DEF Covered
      <4>2. Known(r.pending) = {}
        BY <2>6, EmptyKnown
      <4> QED
        BY <1>5, <1>6, <2>3, <2>7, <3>3, <4>1, <4>2 DEF Behind
    <3>4. CASE e # d
      <4>1. Behind(e) => Behind(e)'
        BY <1>6, <2>2, <2>3, <3>2, <3>4 DEF Behind
      <4> QED
        BY <1>1, <1>2, <2>1, <3>4, <4>1 DEF TrackInv
    <3> QED
      BY <3>3, <3>4
  <2> QED
    BY <1>1, <2>1, <2>4, <2>5, <2>7, <2>8
<1>7. CASE pane.shown # d /\ d \in Retained
  <2>1. /\ sessions' = [sessions EXCEPT ![d] =
                            [sessions[d] EXCEPT !.confirmed = c, !.pending = <<>>, !.dirty = FALSE,
                                                !.text = m.text]]
        /\ UNCHANGED <<sync, pane, lru, channel>>
    BY <1>2, <1>3, <1>7 DEF LoadSnapshot
  <2>2. PICK s : s = [sessions[d] EXCEPT !.confirmed = c, !.pending = <<>>, !.dirty = FALSE,
                                         !.text = m.text]
    OBVIOUS
  <2>3. s \in Session /\ s.confirmed = c /\ s.pending = <<>>
    <3>1. sessions[d] \in Session
      BY <1>7 DEF StoreInv, GoodSession
    <3>2. <<>> \in Seq(Pending)
      OBVIOUS
    <3> QED
      BY <1>4, <2>2, <3>1, <3>2 DEF Session
  <2>4. GoodSession(d, s, Version(d), txn)
    <3>1. GoodPending(d, s.pending, txn)
      BY <2>3, EmptyKnown DEF GoodPending
    <3> QED
      BY <1>3, <2>3, <3>1 DEF GoodSession
  <2>5. /\ StoreInv' /\ Retained' = Retained
        /\ sessions'[d] = s /\ \A x \in Ids \ {d} : sessions'[x] = sessions[x]
    <3>1. d \in Retained /\ sessions' = [sessions EXCEPT ![d] = s]
      BY <1>7, <2>1, <2>2
    <3> QED
      BY <1>1, <2>1, <2>4, <3>1, SessionChanged
  <2>6. TrackInv'
    <3> SUFFICES ASSUME NEW e \in held, ~Shared(e) PROVE Repairing(e)' \/ Behind(e)'
      BY <1>1 DEF TrackInv
    <3>1. e \in Ids
      BY DEF ServerInv
    <3>2. \A n : Covered(e, n) => Covered(e, n)'
      BY <1>1, <2>1, <3>1, SameVersionsCover
    <3>3. CASE e = d
      <4>1. Known(s.pending) = {}
        BY <2>3, EmptyKnown
      <4> QED
        BY <1>7, <2>1, <2>5, <3>3, <4>1 DEF Behind
    <3>4. CASE e # d
      <4>1. Behind(e) => Behind(e)'
        BY <2>1, <2>5, <3>1, <3>2, <3>4 DEF Behind
      <4> QED
        BY <1>1, <1>2, <2>1, <3>4, <4>1 DEF TrackInv
    <3> QED
      BY <3>3, <3>4
  <2>7. SyncInv' /\ PaneInv'
    BY <1>1, <2>1, SyncStays, PaneStays
  <2> QED
    BY <1>1, <2>1, <2>5, <2>6, <2>7
<1>8. CASE pane.shown # d /\ d \notin Retained
  <2>1. UNCHANGED <<sync, pane, store, channel>>
    BY <1>2, <1>8 DEF LoadSnapshot
  <2> QED
    BY <1>2, <1>8, <2>1, DroppedEventKeeps
<1> QED
  BY <1>6, <1>7, <1>8

LEMMA CloseEvictedIs ==
    ASSUME ChannelInv, UNCHANGED <<text, txn>>, NEW gone,
           gone = {} \/ \E e \in Ids : gone = {e}, CloseEvicted(gone)
    PROVE  /\ ChannelInv' /\ Known(channel) \subseteq Known(channel')
           /\ channel' = channel \/ link = "up"
<1>1. CASE gone # {} /\ HasRoom /\ link = "up"
  <2>1. PICK e \in Ids : gone = {e}
    BY <1>1
  <2>2. (CHOOSE d \in gone : TRUE) = e
    BY <2>1
  <2>3. PICK m \in Message : m = [kind |-> "close", doc |-> e, force |-> TRUE] /\ m.kind # "edit"
    <3> DEFINE m == [kind |-> "close", doc |-> e, force |-> TRUE]
    <3>1. m \in Message /\ m.kind # "edit"
      BY DEF Message
    <3> QED
      BY <3>1
  <2>4. channel' = Append(channel, m)
    BY <1>1, <2>2, <2>3 DEF CloseEvicted
  <2>5. ChannelInv' /\ Known(channel') = Known(channel) \union {m}
    BY <1>1, <2>3, <2>4, ChannelAppended DEF HasRoom
  <2> QED
    BY <1>1, <2>5
<1>2. CASE ~(gone # {} /\ HasRoom /\ link = "up")
  <2>1. channel' = channel
    BY <1>2 DEF CloseEvicted
  <2> QED
    BY <2>1 DEF ChannelInv
<1> QED
  BY <1>1, <1>2

LEMMA OpenSessionKeeps ==
    ASSUME SessionsInv, NEW m, Taking(m), m.kind = "opened", pane.phase # "closed", OpenSession(m)
    PROVE  SessionsInv'
<1> USE DEF SessionsInv
<1>1. CASE pane.shown = m.doc /\ ~pane.resync
  <2>1. UNCHANGED <<sync, pane, store, channel>>
    BY <1>1 DEF OpenSession
  <2> QED
    BY <2>1, DroppedEventKeeps
<1>2. CASE ~(pane.shown = m.doc /\ ~pane.resync)
  <2> DEFINE stashed == IF pane.phase = "open" THEN Insert(sessions, lru, pane.shown) ELSE Store
  <2>1. /\ sessions' = Dropped(stashed, m.doc).sessions /\ lru' = Dropped(stashed, m.doc).lru
        /\ CloseEvicted(stashed.evicted)
        /\ pane' = [phase |-> "open", shown |-> m.doc, path |-> FileOf(m.doc),
                    dirty |-> m.dirty, text |-> m.text, resync |-> FALSE]
        /\ sync' = [sync EXCEPT ![m.doc] = install(m.version, <<>>)]
    BY <1>2 DEF OpenSession, Install
  <2>2. /\ ServerInv' /\ Grows /\ EventsInv' /\ m \in Event
        /\ UNCHANGED <<link, losses, server, txn>> /\ held' = held /\ txn' = txn /\ made' = made
        /\ text' = text
        /\ channel' = channel \/ link = "up" => HeldInv'
        /\ Known(channel) \subseteq Known(channel') => \A e : Repairing(e) => Repairing(e)'
        /\ GoodEvent(m, Version(m.doc), made) /\ \A e \in Ids : Version(e)' = Version(e)
    BY TakingIs
  <2>3. PICK d \in Ids : d = m.doc
    BY <2>2, EventFields
  <2>4. PICK c \in Versions : c = m.version /\ c <= Version(d)
    BY <2>2, <2>3, EventFields DEF GoodEvent
  <2>5. Given(d, made) /\ FileOf(d) \in Files /\ m.text \in SUBSET Txns /\ m.dirty \in BOOLEAN
    BY <2>2, <2>3, EventFields, IdFields DEF GoodEvent
  <2>6. /\ Consistent(sessions, lru) /\ Retained = Range(lru) /\ Cardinality(Range(lru)) <= MaxRetained
    BY StoreIs
  <2>7. PICK a, b, g :
           /\ stashed = [sessions |-> a, lru |-> b, evicted |-> g]
           /\ Consistent(a, b) /\ Cardinality(Range(b)) <= MaxRetained
           /\ g = {} \/ \E e \in Ids : g = {e}
           /\ \A x \in Range(b) : Copy(x, a[x])
    <3>1. CASE pane.phase = "open"
      <4>1. PICK r : r = Insert(sessions, lru, pane.shown)
        OBVIOUS
      <4>2. /\ Consistent(r.sessions, r.lru)
            /\ r = [sessions |-> r.sessions, lru |-> r.lru, evicted |-> r.evicted]
            /\ r.evicted = {} \/ \E e \in Ids : r.evicted = {e}
            /\ Cardinality(Range(r.lru)) <= MaxRetained
            /\ \A x \in Range(r.lru) : Copy(x, r.sessions[x])
        BY <2>6, <3>1, <4>1, StashIs
      <4>3. stashed = r
        BY <3>1, <4>1
      <4> HIDE DEF stashed
      <4> QED
        BY <4>2, <4>3
    <3>2. CASE pane.phase # "open"
      <4>1. stashed = [sessions |-> sessions, lru |-> lru, evicted |-> {}]
        BY <3>2 DEF Store
      <4>2. \A x \in Range(lru) : Copy(x, sessions[x])
        BY <2>6 DEF Copy
      <4> HIDE DEF stashed
      <4> QED
        BY <2>6, <4>1, <4>2
    <3> QED
      BY <3>1, <3>2
  <2> HIDE DEF stashed
  <2>8. ChannelInv' /\ Known(channel) \subseteq Known(channel') /\ (channel' = channel \/ link = "up")
    <3>1. stashed.evicted = g
      BY <2>7
    <3> QED
      BY <2>1, <2>2, <2>7, <3>1, CloseEvictedIs
  <2>9. PICK sess, order :
           /\ sessions' = sess /\ lru' = order
           /\ Consistent(sess, order) /\ Range(order) = Range(b) \ {d}
           /\ \A x \in Ids \ {d} : sess[x] = a[x]
    <3>1. PICK r : r = Dropped([sessions |-> a, lru |-> b, evicted |-> g], d)
      OBVIOUS
    <3>2. /\ Consistent(r.sessions, r.lru) /\ Range(r.lru) = Range(b) \ {d}
          /\ \A x \in Ids \ {d} : r.sessions[x] = a[x]
      BY <2>7, <3>1, DroppedIs
    <3>3. sessions' = r.sessions /\ lru' = r.lru
      BY <2>1, <2>3, <2>7, <3>1
    <3> QED
      BY <3>2, <3>3
  <2>10. Cardinality(Range(order)) <= MaxRetained
    <3>1. IsFiniteSet(Range(b)) /\ Cardinality(Range(b)) \in Nat
      BY <2>7, InjectiveFinite DEF Consistent
    <3>2. IsFiniteSet(Range(order)) /\ Cardinality(Range(order)) \in Nat
      BY <2>9, InjectiveFinite DEF Consistent
    <3>3. Cardinality(Range(order)) <= Cardinality(Range(b))
      BY <2>9, <3>1, FS_Subset
    <3>4. MaxRetained \in Nat
      BY SessionConstants DEF MaxRetained
    <3> QED
      BY <2>7, <3>1, <3>2, <3>3, <3>4
  <2>11. \A x \in Range(order) : Copy(x, sess[x])
    <3>1. \A x \in Range(order) : x \in Ids /\ x # d /\ x \in Range(b)
      BY <2>9 DEF Consistent, Range
    <3> QED
      BY <2>7, <2>9, <3>1
  <2>12. pane' \in Pane /\ pane'.phase = "open" /\ pane'.shown = d
    <3>1. PICK f, y, z : f = FileOf(d) /\ y = m.dirty /\ z = m.text
      OBVIOUS
    <3>2. f \in Files /\ y \in BOOLEAN /\ z \in SUBSET Txns
      BY <2>5, <3>1
    <3>3. pane' = [phase |-> "open", shown |-> d, path |-> f, dirty |-> y, text |-> z,
                   resync |-> FALSE]
      BY <2>1, <2>3, <3>1
    <3> QED
      BY <3>2, <3>3 DEF Pane
  <2>13. PaneInv'
    BY <2>2, <2>5, <2>12 DEF PaneInv
  <2>14. /\ StoreInv' /\ Retained' = Range(order) /\ d \notin Range(order)
         /\ \A x \in Range(order) : Behind(x) =>
                \A p \in Known(sess[x].pending) : Covered(x, p.base + 1)
    BY <2>2, <2>9, <2>10, <2>11, <2>12, StoreCopied
  <2>15. PICK r : /\ r = install(c, <<>>) /\ GoodSync(d, r, Version(d), txn)
                  /\ r.pending = <<>> /\ r.optimistic = c
    <3>1. PICK v, n : v = Version(d) /\ n = txn
      OBVIOUS
    <3>2. v \in Nat /\ n \in 0..MaxEdits /\ c <= v /\ v <= n + 1
      BY <2>4, <3>1, VersionIs DEF ServerInv
    <3> QED
      BY <3>1, <3>2, LoadedIs
  <2>16. SyncInv' /\ sync'[d] = r /\ \A e \in Ids \ {d} : sync'[e] = sync[e]
    <3>1. sync' = [sync EXCEPT ![d] = r] /\ GoodSync(d, r, Version(d)', txn')
      BY <2>1, <2>2, <2>3, <2>4, <2>15
    <3> QED
      BY <2>2, <3>1, SyncChanged
  <2>17. TrackInv'
    <3> SUFFICES ASSUME NEW e \in held, ~Shared(e) PROVE Repairing(e)' \/ Behind(e)'
      BY <2>2 DEF TrackInv
    <3>1. e \in Ids
      BY DEF ServerInv
    <3>2. \A n : Covered(e, n) => Covered(e, n)'
      BY <2>2, <2>8, <3>1, SameVersionsCover
    <3>3. CASE e = d
      <4>1. Covered(e, r.optimistic)'
        BY <2>2, <2>4, <2>15, <3>3 DEF Covered
      <4>2. Known(r.pending) = {}
        BY <2>15, EmptyKnown
      <4> QED
        BY <2>14, <2>16, <3>3, <4>1, <4>2 DEF Behind
    <3>4. CASE e # d
      <4>1. Behind(e) => Behind(e)'
        BY <2>9, <2>12, <2>14, <3>2, <3>4 DEF Behind
      <4> QED
        BY <2>2, <2>8, <4>1 DEF TrackInv
    <3> QED
      BY <3>3, <3>4
  <2> QED
    BY <2>2, <2>8, <2>13, <2>14, <2>16, <2>17
<1> QED
  BY <1>1, <1>2

LEMMA ApplyEventKeeps ==
    ASSUME SessionsInv, ApplyEvent
    PROVE  SessionsInv'
<1>1. PICK m : m = Head(events)
  OBVIOUS
<1>2. Taking(m)
  BY <1>1 DEF ApplyEvent, Taking
<1>3. m.kind \in {"opened", "snapshot", "ack", "rejected"}
  BY <1>2, TakingIs, EventFields
<1>4. CASE pane.phase = "closed" \/ m.kind = "rejected"
  <2>1. UNCHANGED <<sync, pane, store, channel>>
    BY <1>1, <1>4 DEF ApplyEvent
  <2> QED
    BY <1>2, <1>4, <2>1, DroppedEventKeeps
<1>5. CASE pane.phase # "closed" /\ m.kind = "opened"
  <2>1. OpenSession(m)
    BY <1>1, <1>5 DEF ApplyEvent
  <2> QED
    BY <1>2, <1>5, <2>1, OpenSessionKeeps
<1>6. CASE pane.phase # "closed" /\ m.kind = "snapshot"
  <2>1. LoadSnapshot(m)
    BY <1>1, <1>6 DEF ApplyEvent
  <2> QED
    BY <1>2, <1>6, <2>1, LoadSnapshotKeeps
<1>7. CASE pane.phase # "closed" /\ m.kind = "ack"
  <2>1. NoteAck(m)
    BY <1>1, <1>7 DEF ApplyEvent
  <2> QED
    BY <1>2, <1>7, <2>1, NoteAckKeeps
<1> QED
  BY <1>3, <1>4, <1>5, <1>6, <1>7

-----------------------------------------------------------------------------
(* The theorems.                                                           *)

LEMMA SessionsInit ==
    Init => SessionsInv
<1> SUFFICES ASSUME Init PROVE SessionsInv
  OBVIOUS
<1> USE DEF Init
<1>1. txn = 0 /\ losses = 0 /\ \A d \in Ids : text[d] = {}
  OBVIOUS
<1>2. ServerInv
  <2>1. made \in [Files -> 0..MaxEpoch]
    BY SessionConstants
  <2>2. registered \subseteq Ids
    BY SessionConstants DEF Ids
  <2>3. txn \in 0..MaxEdits /\ losses \in 0..MaxLosses
    BY SessionConstants
  <2>4. text \in [Ids -> SUBSET Txns] /\ link \in {"up", "lost"}
    OBVIOUS
  <2>5. held \subseteq registered /\ unsaved \subseteq registered
    OBVIOUS
  <2> QED
    BY <1>1, <2>1, <2>2, <2>3, <2>4, <2>5 DEF ServerInv
<1>3. HeldInv
  <2>1. ASSUME NEW d \in registered PROVE d[2] = made[FileOf(d)] /\ Shared(d)
    <3>1. PICK f \in SharedFiles : d = <<f, 1>>
      OBVIOUS
    <3>2. f \in Files /\ FileOf(d) = f /\ d[2] = 1
      BY <3>1, SessionConstants DEF FileOf
    <3> QED
      BY <3>2 DEF Shared
  <2> QED
    BY <2>1 DEF HeldInv
<1>4. ChannelInv /\ EventsInv
  BY EmptyKnown, SessionConstants DEF ChannelInv, EventsInv
<1>5. SyncInv
  <2>1. Unknown \in Sync /\ Unknown.pending = <<>> /\ Unknown.confirmed = 0 /\ Unknown.optimistic = 0
    BY SessionConstants DEF Unknown, Sync, Default
  <2>2. ASSUME NEW d \in Ids PROVE GoodSync(d, Unknown, Version(d), txn)
    <3>1. Version(d) \in Nat /\ txn \in Nat
      BY <1>1, <1>2, VersionIs
    <3>2. GoodPending(d, <<>>, txn)
      BY EmptyKnown DEF GoodPending
    <3>3. PICK v, n : v = Version(d) /\ n = txn
      OBVIOUS
    <3>4. v \in Nat /\ n \in Nat
      BY <3>1, <3>3
    <3>5. 0 <= v /\ 0 <= n + 1
      BY <3>4
    <3> QED
      BY <2>1, <3>2, <3>3, <3>5 DEF GoodSync
  <2>3. sync = [d \in Ids |-> Unknown]
    OBVIOUS
  <2> QED
    BY <2>1, <2>2, <2>3 DEF SyncInv
<1>6. PaneInv
  <2>1. pane = Blank /\ lru = <<>>
    OBVIOUS
  <2> QED
    BY <2>1 DEF PaneInv, Pane, Blank
<1>7. StoreInv
  <2>1. Retained = {} /\ Range(lru) = {} /\ IsInjective(lru)
    <3>1. \A d \in Ids : ~sessions[d].kept
      BY KeptIs
    <3> QED
      BY <3>1 DEF Retained, Range, IsInjective
  <2>2. Cardinality(Retained) <= MaxRetained
    BY <2>1, FS_EmptySet, SessionConstants DEF MaxRetained
  <2> QED
    BY <2>1, <2>2 DEF StoreInv, StoreIsConsistent
<1>8. TrackInv
  BY DEF TrackInv
<1> QED
  BY <1>2, <1>3, <1>4, <1>5, <1>6, <1>7, <1>8 DEF SessionsInv

LEMMA SessionsStep ==
    SessionsInv /\ [Next]_vars => SessionsInv'
<1> SUFFICES ASSUME SessionsInv, [Next]_vars PROVE SessionsInv'
  OBVIOUS
<1>1. CASE UNCHANGED vars
  <2>1. /\ UNCHANGED <<link, losses, server, txn>> /\ UNCHANGED <<wire, events, sync, pane, store>>
        /\ held' = held /\ registered' = registered /\ text' = text /\ made' = made
        /\ channel' = channel /\ link' = link /\ lru' = lru
    BY <1>1 DEF vars, server, store
  <2>2. ServerInv' /\ Grows
    BY <2>1, StillServer DEF SessionsInv
  <2>3. KeepsNews
    BY <2>1 DEF KeepsNews
  <2>4. ChannelInv' /\ HeldInv'
    BY <2>1 DEF SessionsInv, ChannelInv, HeldInv
  <2> QED
    BY <2>1, <2>2, <2>3, <2>4, TrackStays, SyncStays, PaneStays, StoreStays, EventsUnchanged
       DEF SessionsInv
<1>2. CASE Next
  BY <1>2, RequestOpenKeeps, ActivateKeeps, TypeKeeps, ClosePaneKeeps, ApplyEventKeeps,
     ReceiveKeeps, ServeOpenKeeps, RefuseOpenKeeps, ServeEditKeeps, ServeCloseKeeps,
     ServeResyncKeeps, DisconnectKeeps, ReconnectKeeps DEF Next
<1> QED
  BY <1>1, <1>2

LEMMA SessionsAlways ==
    Spec => []SessionsInv
BY SessionsInit, SessionsStep, PTL DEF Spec

(* The state of a pane's documents is what the types say: a version stays  *)
(* within what the edits make, whatever copies of a tracking state are     *)
(* installed, and no channel goes over its capacity by more than a resync. *)
THEOREM SessionsTypeCorrect == Spec => []TypeOK
<1>1. SessionsInv => TypeOK
  BY DEF SessionsInv, ServerInv, ChannelInv, EventsInv, SyncInv, PaneInv, StoreInv, TypeOK
<1> QED
  BY <1>1, SessionsAlways, PTL

(* document_session.rs: the sessions and their order name the same         *)
(* documents, once each, never the shown one, and not more than the limit, *)
(* through every stash, activation, eviction, reopening and close.         *)
THEOREM StoreStaysConsistent == Spec => []StoreIsConsistent
<1>1. SessionsInv => StoreIsConsistent
  BY DEF SessionsInv, StoreInv
<1> QED
  BY <1>1, SessionsAlways, PTL

(* When nothing is on its way, no shown or retained document would send an *)
(* edit that is based on a version the server has not reached.             *)
THEOREM SyncStaysBehind == Spec => []SyncNeverRunsAhead
<1>1. SessionsInv => SyncNeverRunsAhead
  <2> SUFFICES ASSUME SessionsInv, Quiet, NEW d \in Ids, Tracked(d)
               PROVE  BaseOf(d) <= Version(d)
    BY DEF SyncNeverRunsAhead
  <2> USE DEF SessionsInv
  <2>1. d \in held /\ (d = pane.shown \/ d \in Retained)
    BY DEF Tracked
  <2>2. Known(channel) = {} /\ Known(wire) = {} /\ Known(events) = {}
    BY EmptyKnown DEF Quiet
  <2>3. ~Repairing(d)
    BY <2>2 DEF Repairing
  <2>4. \A n : Covered(d, n) => n <= Version(d)
    BY <2>2 DEF Covered
  <2>5. CASE d = pane.shown
    <3>1. BaseOf(d) = sync[d].optimistic
      BY <2>5 DEF BaseOf
    <3>2. CASE Shared(d)
      BY <3>1, <3>2 DEF SyncInv, GoodSync
    <3>3. CASE ~Shared(d)
      <4>1. Behind(d)
        BY <2>1, <2>3, <3>3 DEF TrackInv
      <4> QED
        BY <2>4, <2>5, <3>1, <4>1 DEF Behind
    <3> QED
      BY <3>2, <3>3
  <2>6. CASE d # pane.shown
    <3>1. d \in Retained /\ BaseOf(d) = NextBase(sessions[d].confirmed, sessions[d].pending)
      BY <2>1, <2>6 DEF BaseOf
    <3>2. GoodSession(d, sessions[d], Version(d), txn) /\ sessions[d].pending \in Seq(Pending)
      BY <3>1, SessionFields DEF StoreInv, GoodSession
    <3>3. CASE sessions[d].pending = <<>>
      BY <3>1, <3>2, <3>3 DEF NextBase, GoodSession
    <3>4. CASE sessions[d].pending # <<>>
      <4>1. Last(sessions[d].pending) \in Known(sessions[d].pending)
        BY <3>2, <3>4, PendingFields
      <4>2. ~Shared(d)
        BY <3>2, <3>4 DEF GoodSession, GoodPending
      <4>3. Behind(d)
        BY <2>1, <2>3, <4>2 DEF TrackInv
      <4>4. BaseOf(d) = Last(sessions[d].pending).base + 1
        BY <3>1, <3>4 DEF NextBase
      <4> QED
        BY <2>4, <3>1, <4>1, <4>3, <4>4 DEF Behind
    <3> QED
      BY <3>3, <3>4
  <2> QED
    BY <2>5, <2>6
<1> QED
  BY <1>1, SessionsAlways, PTL

=============================================================================
